--------------------------- MODULE LaunchpadProofs ---------------------------
(***************************************************************************)
(* The launchpad's safety for every number of tokens, holders and plugins, *)
(* every supply, reserve and fee its assumptions allow, and every amount.  *)
(*                                                                         *)
(* The inductive invariant is IInv: the types, the shape of every curve    *)
(* (which a quote needs to be a natural number), reserves that are backed, *)
(* and the same three of the state an open plugin call would return to.    *)
(*                                                                         *)
(* The first half is about LaunchPool alone, the pool a launch graduates   *)
(* into: its steps keep every balance and reserve a natural number, never  *)
(* record more in a pair's reserves than the pair holds, and never take    *)
(* worth from a share of a pool.  The second half proves the invariant of  *)
(* the whole launchpad, and the third what it never does.                  *)
(***************************************************************************)
EXTENDS Launchpad, ArithmeticProofs

Ledger == [Accounts -> Nat]

(* A transfer of what an account has is a transfer between ledgers. *)
LEMMA MovedLedger ==
  ASSUME NEW ledger \in Ledger, NEW from \in Accounts, NEW to, NEW amount \in Nat,
         amount <= ledger[from]
  PROVE  /\ Moved(ledger, from, to, amount) \in Ledger
         /\ \A a \in Accounts : a # from =>
              Moved(ledger, from, to, amount)[a] = ledger[a] + (IF a = to THEN amount ELSE 0)
         /\ Moved(ledger, from, to, amount)[from] =
              ledger[from] - (IF from = to THEN 0 ELSE amount)
BY DEF Ledger, Moved

(* Nobody but the sender of a transfer ends up with less. *)
LEMMA MovedGains ==
  ASSUME NEW ledger \in Ledger, NEW from \in Accounts, NEW to, NEW amount \in Nat,
         NEW a \in Accounts, a # from
  PROVE  /\ Moved(ledger, from, to, amount)[a] \in Nat
         /\ Moved(ledger, from, to, amount)[a] >= ledger[a]
BY DEF Ledger, Moved

(* A credit makes a ledger of a ledger. *)
LEMMA CreditedLedger ==
  ASSUME NEW ledger \in Ledger, NEW to \in Accounts, NEW amount \in Nat
  PROVE  Credited(ledger, to, amount) \in Ledger
BY DEF Ledger, Credited

LEMMA DivType ==
  ASSUME NEW a \in Int, NEW b \in Nat, b > 0
  PROVE  a \div b \in Int
BY Z3

LEMMA LiquidityType ==
  ASSUME NEW t \in Tokens, PoolTypeOK, NEW token \in Nat, NEW usd \in Nat,
         NEW liquidity \in LiquidityFor(t, token, usd)
  PROVE  liquidity \in Int
<1>1. lpSupply[t] \in Int /\ reserves[t].token \in Nat /\ reserves[t].usdc \in Nat
  BY DEF PoolTypeOK
<1>2. CASE lpSupply[t] = 0
  BY <1>1, <1>2, PoolAssumption DEF LiquidityFor, Roots
<1>3. CASE lpSupply[t] # 0
  <2> DEFINE x == (token - reserves[t].token) * lpSupply[t]
             y == (usd - reserves[t].usdc) * lpSupply[t]
  <2>1. x \in Int /\ y \in Int
    BY <1>1
  <2>2. /\ reserves[t].token > 0 /\ reserves[t].usdc > 0
        /\ liquidity = Least(x \div reserves[t].token, y \div reserves[t].usdc)
    BY <1>3 DEF LiquidityFor
  <2> HIDE DEF x, y
  <2>3. x \div reserves[t].token \in Int /\ y \div reserves[t].usdc \in Int
    BY <1>1, <2>1, <2>2, DivType
  <2> QED BY <2>2, <2>3 DEF Least
<1> QED BY <1>2, <1>3

LEMMA SyncedType ==
  ASSUME NEW t \in Tokens, PoolTypeOK, NEW token \in Nat, NEW usd \in Nat
  PROVE  /\ Synced(t, token, usd) \in [Tokens -> [token : Nat, usdc : Nat]]
         /\ Synced(t, token, usd)[t] = [token |-> token, usdc |-> usd]
         /\ \A s \in Tokens : s # t => Synced(t, token, usd)[s] = reserves[s]
BY DEF PoolTypeOK, Synced

(* mint: what is minted and recorded has its type. *)
LEMMA MintToType ==
  ASSUME NEW t \in Tokens, PoolTypeOK, NEW token \in Nat, NEW usd \in Nat,
         NEW to \in Accounts, MintTo(t, to, token, usd)
  PROVE  /\ lp' \in [Tokens -> Ledger]
         /\ lpSupply' \in [Tokens -> Int]
         /\ reserves' \in [Tokens -> [token : Nat, usdc : Nat]]
<1> DEFINE locked == IF lpSupply[t] = 0 THEN MINIMUM_LIQUIDITY ELSE 0
<1>1. PICK liquidity \in LiquidityFor(t, token, usd) :
        /\ liquidity > 0
        /\ lp' = [lp EXCEPT ![t] = Credited(Credited(@, Dead, locked), to, liquidity)]
        /\ lpSupply' = [lpSupply EXCEPT ![t] = @ + locked + liquidity]
  BY DEF MintTo
<1>2. liquidity \in Nat /\ locked \in Nat
  BY <1>1, LiquidityType, PoolAssumption
<1>3. lp[t] \in Ledger /\ lp \in [Tokens -> Ledger] /\ lpSupply \in [Tokens -> Int]
  BY DEF PoolTypeOK, Ledger
<1> HIDE DEF locked
<1>4. Credited(lp[t], Dead, locked) \in Ledger
  BY <1>2, <1>3, CreditedLedger DEF Accounts
<1>5. Credited(Credited(lp[t], Dead, locked), to, liquidity) \in Ledger
  BY <1>2, <1>4, CreditedLedger
<1>6. reserves' \in [Tokens -> [token : Nat, usdc : Nat]]
  BY SyncedType DEF MintTo
<1> QED BY <1>1, <1>2, <1>3, <1>5, <1>6

(* Every step on the assets keeps their types. *)
LEMMA PoolStepType ==
  ASSUME NEW t \in Tokens, PoolTypeOK, PoolStep(t)
  PROVE  PoolTypeOK'
<1>0. /\ Pair[t] \in Accounts /\ Holders \subseteq Accounts /\ Users \subseteq Accounts
      /\ Recipients \subseteq Accounts
  BY PoolAssumption DEF Accounts, Holders
<1>1. /\ usdc \in Ledger /\ bal \in [Tokens -> Ledger] /\ bal[t] \in Ledger
      /\ lp \in [Tokens -> Ledger] /\ lp[t] \in Ledger
      /\ usdc[Pair[t]] \in Nat /\ bal[t][Pair[t]] \in Nat
      /\ reserves[t].token \in Nat /\ reserves[t].usdc \in Nat
  BY <1>0 DEF PoolTypeOK, Ledger
<1>2. ASSUME NEW from \in Holders, NEW to \in Recipients, NEW amount \in TokenAmounts,
             TransferToken(t, from, to, amount)
      PROVE  PoolTypeOK'
  <2>1. amount \in Nat /\ from \in Accounts
    BY <1>0, PoolAssumption
  <2>2. Moved(bal[t], from, to, amount) \in Ledger
    BY <1>1, <1>2, <2>1, MovedLedger DEF TransferToken
  <2>3. bal' \in [Tokens -> Ledger]
    BY <1>1, <1>2, <2>2 DEF TransferToken
  <2> QED BY <1>2, <2>3 DEF TransferToken, PoolTypeOK, Ledger
<1>3. ASSUME NEW from \in Holders, NEW to \in Recipients, NEW amount \in LpAmounts,
             TransferLp(t, from, to, amount)
      PROVE  PoolTypeOK'
  <2>1. amount \in Nat /\ from \in Accounts
    BY <1>0, PoolAssumption
  <2>2. Moved(lp[t], from, to, amount) \in Ledger
    BY <1>1, <1>3, <2>1, MovedLedger DEF TransferLp
  <2>3. lp' \in [Tokens -> Ledger]
    BY <1>1, <1>3, <2>2 DEF TransferLp
  <2> QED BY <1>3, <2>3 DEF TransferLp, PoolTypeOK, Ledger
<1>4. ASSUME NEW to \in Accounts, PairMint(t, to)
      PROVE  PoolTypeOK'
  BY <1>1, <1>4, MintToType DEF PairMint, PoolTypeOK, Ledger
<1>5. ASSUME NEW to \in Accounts, PairBurn(t, to)
      PROVE  PoolTypeOK'
  <2> DEFINE pair        == Pair[t]
             liquidity   == lp[t][pair]
             amountToken == (liquidity * bal[t][pair]) \div lpSupply[t]
             amountUsdc  == (liquidity * usdc[pair]) \div lpSupply[t]
             newBal      == Moved(bal[t], pair, to, amountToken)
             newUsdc     == Moved(usdc, pair, to, amountUsdc)
  <2>1. /\ lpSupply[t] > 0
        /\ amountToken > 0 /\ amountToken <= bal[t][pair]
        /\ amountUsdc > 0 /\ amountUsdc <= usdc[pair]
        /\ lp' = [lp EXCEPT ![t][pair] = 0]
        /\ lpSupply' = [lpSupply EXCEPT ![t] = @ - liquidity]
        /\ bal' = [bal EXCEPT ![t] = newBal]
        /\ usdc' = newUsdc
        /\ reserves' = Synced(t, newBal[pair], newUsdc[pair])
        /\ UNCHANGED graduated
    BY <1>5 DEF PairBurn
  <2>2. liquidity \in Nat /\ lpSupply[t] \in Nat
    BY <1>0, <1>1, <2>1 DEF PoolTypeOK, Ledger
  <2>3. amountToken \in Nat /\ amountUsdc \in Nat
    <3>1. liquidity * bal[t][pair] \in Int /\ liquidity * usdc[pair] \in Int
      BY <1>1, <2>2
    <3>2. amountToken \in Int /\ amountUsdc \in Int
      BY <2>1, <2>2, <3>1, DivType
    <3> HIDE DEF amountToken, amountUsdc
    <3>3. amountToken > 0 /\ amountUsdc > 0
      BY <2>1, Zenon
    <3> QED BY ONLY <3>2, <3>3
  <2> HIDE DEF amountToken, amountUsdc
  <2>4. newBal \in Ledger
    BY <1>0, <1>1, <2>1, <2>3, MovedLedger
  <2>5. newUsdc \in Ledger
    BY <1>0, <1>1, <2>1, <2>3, MovedLedger
  <2> HIDE DEF newBal, newUsdc
  <2>6. newBal[pair] \in Nat /\ newUsdc[pair] \in Nat
    BY <1>0, <2>4, <2>5 DEF Ledger
  <2>7. reserves' \in [Tokens -> [token : Nat, usdc : Nat]]
    BY <2>1, <2>6, SyncedType
  <2>8. lp' \in [Tokens -> Ledger] /\ lpSupply' \in [Tokens -> Int]
    BY <1>0, <1>1, <2>1, <2>2 DEF PoolTypeOK, Ledger
  <2>9. bal' \in [Tokens -> Ledger] /\ usdc' \in Ledger
    BY <1>1, <2>1, <2>4, <2>5
  <2> QED BY <2>1, <2>7, <2>8, <2>9 DEF PoolTypeOK, Ledger
<1>6. ASSUME NEW to \in Accounts, PairSkim(t, to)
      PROVE  PoolTypeOK'
  <2> DEFINE excessToken == bal[t][Pair[t]] - reserves[t].token
             excessUsdc  == usdc[Pair[t]] - reserves[t].usdc
  <2>1. /\ excessToken \in Nat /\ excessToken <= bal[t][Pair[t]]
        /\ excessUsdc \in Nat /\ excessUsdc <= usdc[Pair[t]]
    BY <1>1, <1>6 DEF PairSkim
  <2>2. Moved(bal[t], Pair[t], to, excessToken) \in Ledger
    BY <1>0, <1>1, <2>1, MovedLedger
  <2>3. Moved(usdc, Pair[t], to, excessUsdc) \in Ledger
    BY <1>0, <1>1, <2>1, MovedLedger
  <2>4. bal' \in [Tokens -> Ledger] /\ usdc' \in Ledger
    BY <1>1, <1>6, <2>2, <2>3 DEF PairSkim
  <2> QED BY <1>6, <2>4 DEF PairSkim, PoolTypeOK, Ledger
<1>7. ASSUME PairSync(t)
      PROVE  PoolTypeOK'
  BY <1>1, <1>7, SyncedType DEF PairSync, PoolTypeOK, Ledger
<1>8. ASSUME NEW from \in Holders, NEW amount \in TokenAmounts, BurnToken(t, from, amount)
      PROVE  PoolTypeOK'
  <2>1. amount \in Nat /\ from \in Accounts
    BY <1>0, PoolAssumption
  <2>2. Moved(bal[t], from, NoOne, amount) \in Ledger
    BY <1>1, <1>8, <2>1, MovedLedger DEF BurnToken
  <2>3. bal' \in [Tokens -> Ledger]
    BY <1>1, <1>8, <2>2 DEF BurnToken
  <2> QED BY <1>8, <2>3 DEF BurnToken, PoolTypeOK, Ledger
<1> QED BY <1>0, <1>2, <1>3, <1>4, <1>5, <1>6, <1>7, <1>8 DEF PoolStep

(* Reserves left alone stay backed if no pair has less than before. *)
LEMMA GainsBacked ==
  ASSUME PoolTypeOK, ReservesBacked, reserves' = reserves,
         \A s \in Tokens : /\ bal'[s][Pair[s]] \in Nat
                           /\ bal'[s][Pair[s]] >= bal[s][Pair[s]]
                           /\ usdc'[Pair[s]] \in Nat
                           /\ usdc'[Pair[s]] >= usdc[Pair[s]]
  PROVE  ReservesBacked'
<1>1. \A s \in Tokens : /\ Pair[s] \in Accounts
                         /\ reserves[s].token \in Nat /\ reserves[s].usdc \in Nat
                         /\ bal[s][Pair[s]] \in Nat /\ usdc[Pair[s]] \in Nat
  BY PoolAssumption DEF PoolTypeOK, Accounts
<1> QED BY <1>1 DEF ReservesBacked

(* A pair whose reserves have been set to what it holds, or less, backs    *)
(* them, and the other pairs do as they did if none of them has less than  *)
(* before.                                                                 *)
LEMMA SyncedBacked ==
  ASSUME NEW t \in Tokens, PoolTypeOK, ReservesBacked, NEW x \in Nat, NEW y \in Nat,
         bal'[t][Pair[t]] \in Nat, x <= bal'[t][Pair[t]],
         usdc'[Pair[t]] \in Nat, y <= usdc'[Pair[t]],
         reserves' = Synced(t, x, y),
         \A s \in Tokens : s # t => /\ bal'[s] = bal[s]
                                    /\ usdc'[Pair[s]] \in Nat
                                    /\ usdc'[Pair[s]] >= usdc[Pair[s]]
  PROVE  ReservesBacked'
<1>1. /\ reserves'[t] = [token |-> x, usdc |-> y]
      /\ \A s \in Tokens : s # t => reserves'[s] = reserves[s]
  BY SyncedType
<1>2. reserves'[t].token <= bal'[t][Pair[t]] /\ reserves'[t].usdc <= usdc'[Pair[t]]
  BY <1>1
<1>3. \A s \in Tokens : /\ Pair[s] \in Accounts
                         /\ reserves[s].token \in Nat /\ reserves[s].usdc \in Nat
                         /\ bal[s][Pair[s]] \in Nat /\ usdc[Pair[s]] \in Nat
  BY PoolAssumption DEF PoolTypeOK, Accounts
<1>4. ASSUME NEW s \in Tokens, s # t
      PROVE  /\ reserves'[s].token <= bal'[s][Pair[s]]
             /\ reserves'[s].usdc <= usdc'[Pair[s]]
  BY <1>1, <1>3, <1>4 DEF ReservesBacked
<1> QED BY <1>2, <1>4 DEF ReservesBacked

(* Every step on the assets leaves every pair holding what it records. *)
LEMMA PoolStepBacked ==
  ASSUME NEW t \in Tokens, PoolTypeOK, ReservesBacked, PoolStep(t)
  PROVE  ReservesBacked'
<1>0. /\ Pairs \subseteq Accounts /\ Holders \subseteq Accounts
      /\ \A s \in Tokens : Pair[s] \in Pairs /\ Pair[s] \notin Holders
      /\ \A s \in Tokens : s # t => Pair[s] # Pair[t]
  BY PoolAssumption DEF Accounts, Pairs
<1>1. /\ usdc \in Ledger /\ bal \in [Tokens -> Ledger] /\ bal[t] \in Ledger
      /\ \A s \in Tokens : usdc[Pair[s]] \in Nat /\ bal[s][Pair[s]] \in Nat
      /\ \A s \in Tokens : reserves[s].token \in Nat /\ reserves[s].usdc \in Nat
      /\ reserves \in [Tokens -> [token : Nat, usdc : Nat]]
  BY <1>0 DEF PoolTypeOK, Ledger
<1>2. ASSUME NEW from \in Holders, NEW to \in Recipients, NEW amount \in TokenAmounts,
             TransferToken(t, from, to, amount)
      PROVE  ReservesBacked'
  <2>1. amount \in Nat /\ from \in Accounts /\ from # Pair[t] /\ Pair[t] \in Accounts
    BY <1>0, PoolAssumption
  <2>2. Moved(bal[t], from, to, amount)[Pair[t]] >= bal[t][Pair[t]]
    BY <1>1, <1>2, <2>1, MovedLedger DEF TransferToken
  <2>3. \A s \in Tokens : bal'[s][Pair[s]] >= bal[s][Pair[s]]
    BY <1>1, <1>2, <2>2 DEF TransferToken
  <2>4. bal'[t] \in Ledger
    BY <1>1, <1>2, <2>1, MovedLedger DEF TransferToken
  <2>5. \A s \in Tokens : bal'[s][Pair[s]] \in Nat
    BY <1>0, <1>1, <1>2, <2>4 DEF TransferToken, Ledger
  <2> QED BY <1>1, <1>2, <2>3, <2>5 DEF TransferToken, ReservesBacked
<1>3. ASSUME NEW from \in Holders, NEW to \in Recipients, NEW amount \in LpAmounts,
             TransferLp(t, from, to, amount)
      PROVE  ReservesBacked'
  BY <1>3 DEF TransferLp, ReservesBacked
<1>4. ASSUME NEW to \in Accounts, PairMint(t, to)
      PROVE  ReservesBacked'
  <2>1. /\ UNCHANGED <<usdc, bal>>
        /\ reserves' = Synced(t, bal'[t][Pair[t]], usdc'[Pair[t]])
    BY <1>4 DEF PairMint, MintTo
  <2>2. \A s \in Tokens : /\ bal'[s] = bal[s] /\ bal'[s][Pair[s]] \in Nat
                           /\ usdc'[Pair[s]] \in Nat /\ usdc'[Pair[s]] >= usdc[Pair[s]]
    BY <1>1, <2>1
  <2> QED BY <2>1, <2>2, SyncedBacked
<1>5. ASSUME NEW to \in Accounts, PairBurn(t, to)
      PROVE  ReservesBacked'
  <2> DEFINE pair == Pair[t]
  <2>1. PICK x \in Int, y \in Int :
          /\ x > 0 /\ x <= bal[t][pair] /\ y > 0 /\ y <= usdc[pair]
          /\ bal' = [bal EXCEPT ![t] = Moved(bal[t], pair, to, x)]
          /\ usdc' = Moved(usdc, pair, to, y)
          /\ reserves' = Synced(t, Moved(bal[t], pair, to, x)[pair],
                                   Moved(usdc, pair, to, y)[pair])
    <3> DEFINE x == (lp[t][pair] * bal[t][pair]) \div lpSupply[t]
               y == (lp[t][pair] * usdc[pair]) \div lpSupply[t]
    <3>1. /\ x > 0 /\ x <= bal[t][pair] /\ y > 0 /\ y <= usdc[pair]
          /\ bal' = [bal EXCEPT ![t] = Moved(bal[t], pair, to, x)]
          /\ usdc' = Moved(usdc, pair, to, y)
          /\ reserves' = Synced(t, Moved(bal[t], pair, to, x)[pair],
                                   Moved(usdc, pair, to, y)[pair])
      BY <1>5 DEF PairBurn
    <3>2. lp[t][pair] \in Nat /\ lpSupply[t] \in Nat /\ lpSupply[t] > 0
      <4>1. lpSupply[t] > 0
        BY <1>5 DEF PairBurn
      <4>2. lp[t][pair] \in Nat /\ lpSupply[t] \in Int
        BY <1>0 DEF PoolTypeOK
      <4> QED BY <4>1, <4>2
    <3>3. lp[t][pair] * bal[t][pair] \in Int /\ lp[t][pair] * usdc[pair] \in Int
      BY <1>1, <3>2
    <3>4. x \in Int /\ y \in Int
      BY <3>2, <3>3, DivType
    <3> HIDE DEF x, y
    <3> QED BY <3>1, <3>4
  <2>2. bal'[t] = Moved(bal[t], pair, to, x)
    BY <1>1, <2>1
  <2>3. bal'[t] \in Ledger /\ usdc' \in Ledger
    BY <1>0, <1>1, <2>1, <2>2, MovedLedger
  <2>4. bal'[t][pair] \in Nat /\ usdc'[pair] \in Nat
    BY <1>0, <2>3 DEF Ledger
  <2>5. reserves' = Synced(t, bal'[t][pair], usdc'[pair])
    BY <2>1, <2>2
  <2>6. ASSUME NEW s \in Tokens, s # t
        PROVE  /\ bal'[s] = bal[s]
               /\ usdc'[Pair[s]] \in Nat /\ usdc'[Pair[s]] >= usdc[Pair[s]]
    <3>1. Pair[s] \in Accounts /\ pair \in Accounts /\ Pair[s] # pair /\ y \in Nat
      BY <1>0, <2>1, <2>6
    <3>2. usdc'[Pair[s]] \in Nat /\ usdc'[Pair[s]] >= usdc[Pair[s]]
      BY <1>1, <2>1, <3>1, MovedGains
    <3> QED BY <1>1, <2>1, <2>6, <3>2
  <2> QED BY <2>4, <2>5, <2>6, SyncedBacked
<1>6. ASSUME NEW to \in Accounts, PairSkim(t, to)
      PROVE  ReservesBacked'
  <2> DEFINE pair == Pair[t]
             x == bal[t][pair] - reserves[t].token
             y == usdc[pair] - reserves[t].usdc
  <2>1. /\ x \in Nat /\ x <= bal[t][pair] /\ y \in Nat /\ y <= usdc[pair]
        /\ bal' = [bal EXCEPT ![t] = Moved(bal[t], pair, to, x)]
        /\ usdc' = Moved(usdc, pair, to, y)
        /\ UNCHANGED reserves
    BY <1>1, <1>6 DEF PairSkim
  <2>2. bal'[t] = Moved(bal[t], pair, to, x)
    BY <1>1, <2>1
  <2>3. bal'[t][pair] >= reserves[t].token /\ usdc'[pair] >= reserves[t].usdc
    <3> HIDE DEF x, y
    <3>1. /\ bal'[t][pair] = bal[t][pair] - (IF pair = to THEN 0 ELSE x)
          /\ usdc'[pair] = usdc[pair] - (IF pair = to THEN 0 ELSE y)
      BY <1>0, <1>1, <2>1, <2>2, MovedLedger
    <3> QED BY <1>1, <2>1, <3>1 DEF x, y
  <2> HIDE DEF x, y
  <2>4. ASSUME NEW s \in Tokens, s # t
        PROVE  /\ bal'[s] = bal[s]
               /\ usdc'[Pair[s]] \in Nat /\ usdc'[Pair[s]] >= usdc[Pair[s]]
    <3>1. Pair[s] \in Accounts /\ pair \in Accounts /\ Pair[s] # pair
      BY <1>0, <2>4
    <3>2. usdc'[Pair[s]] \in Nat /\ usdc'[Pair[s]] >= usdc[Pair[s]]
      BY <1>1, <2>1, <3>1, MovedGains
    <3> QED BY <1>1, <2>1, <2>4, <3>2
  <2>5. \A s \in Tokens : s # t => /\ reserves[s].token <= bal'[s][Pair[s]]
                                    /\ reserves[s].usdc <= usdc'[Pair[s]]
    BY <1>1, <2>4 DEF ReservesBacked
  <2>6. bal'[t][pair] \in Nat /\ usdc'[pair] \in Nat
    BY <1>0, <1>1, <2>1, <2>2, MovedLedger DEF Ledger
  <2> QED BY <2>1, <1>1, <2>3, <2>5, <2>6 DEF ReservesBacked
<1>7. ASSUME PairSync(t)
      PROVE  ReservesBacked'
  <2>1. /\ UNCHANGED <<usdc, bal>>
        /\ reserves' = Synced(t, bal'[t][Pair[t]], usdc'[Pair[t]])
    BY <1>7 DEF PairSync
  <2>2. \A s \in Tokens : /\ bal'[s] = bal[s] /\ bal'[s][Pair[s]] \in Nat
                           /\ usdc'[Pair[s]] \in Nat /\ usdc'[Pair[s]] >= usdc[Pair[s]]
    BY <1>1, <2>1
  <2> QED BY <2>1, <2>2, SyncedBacked
<1>8. ASSUME NEW from \in Holders, NEW amount \in TokenAmounts, BurnToken(t, from, amount)
      PROVE  ReservesBacked'
  <2>1. amount \in Nat /\ from \in Accounts /\ from # Pair[t] /\ Pair[t] \in Accounts
    BY <1>0, PoolAssumption
  <2>2. /\ Moved(bal[t], from, NoOne, amount)[Pair[t]] >= bal[t][Pair[t]]
        /\ Moved(bal[t], from, NoOne, amount)[Pair[t]] \in Nat
    BY <1>1, <2>1, MovedGains
  <2>3. \A s \in Tokens : /\ bal'[s][Pair[s]] \in Nat
                           /\ bal'[s][Pair[s]] >= bal[s][Pair[s]]
    BY <1>1, <1>8, <2>2 DEF BurnToken
  <2> QED BY <1>1, <1>8, <2>3 DEF BurnToken, ReservesBacked
<1> QED BY <1>0, <1>2, <1>3, <1>4, <1>5, <1>6, <1>7, <1>8, PoolAssumption
        DEF PoolStep, Accounts, Holders
-----------------------------------------------------------------------------
(* Shares. *)

LEMMA AccountsFinite == IsFiniteSet(Accounts)
<1>1. IsFiniteSet(Pairs)
  <2>1. Pair \in Surjection(Tokens, Pairs)
    BY PoolAssumption DEF Pairs, Surjection
  <2> QED BY <2>1, PoolAssumption, FS_Surjection
<1>2. IsFiniteSet(Holders)
  BY PoolAssumption, FS_Union DEF Holders
<1>3. IsFiniteSet({Pad, Router, Dead})
  <2>1. IsFiniteSet({Pad})
    BY FS_Singleton
  <2>2. IsFiniteSet({Pad} \cup {Router})
    BY <2>1, FS_AddElement
  <2>3. IsFiniteSet(({Pad} \cup {Router}) \cup {Dead})
    BY <2>2, FS_AddElement
  <2>4. {Pad, Router, Dead} = ({Pad} \cup {Router}) \cup {Dead}
    OBVIOUS
  <2> QED BY <2>3, <2>4
<1>4. IsFiniteSet(Holders \cup {Pad, Router, Dead})
  BY <1>2, <1>3, FS_Union
<1> QED BY <1>1, <1>4, FS_Union DEF Accounts

(* A pool's LP supply is what its holders have together; once there is     *)
(* any, the minimum is locked at 0x..dEaD and neither reserve is empty.    *)
SharesOK(supply, shares, r) ==
  /\ supply = SumOver(Accounts, shares)
  /\ supply > 0 => /\ shares[Dead] >= MINIMUM_LIQUIDITY
                   /\ r.token > 0 /\ r.usdc > 0

LiquidPools == \A t \in Tokens : SharesOK(lpSupply[t], lp[t], reserves[t])

(* A share is worth as much after as before. *)
WorthKept(supply, r, supply2, r2) ==
  supply > 0 /\ supply2 > 0 =>
    r2.token * r2.usdc * supply * supply >= r.token * r.usdc * supply2 * supply2

(* Nobody has more of a pool than there is. *)
LEMMA SupplyType ==
  ASSUME NEW shares \in Ledger
  PROVE  /\ SumOver(Accounts, shares) \in Nat
         /\ \A a \in Accounts : shares[a] \in Nat /\ shares[a] <= SumOver(Accounts, shares)
<1>1. \A a \in Accounts : shares[a] \in Nat
  BY DEF Ledger
<1>2. SumOver(Accounts, shares) \in Nat
  BY <1>1, AccountsFinite, SumNat
<1>3. ASSUME NEW a \in Accounts PROVE shares[a] <= SumOver(Accounts, shares)
  BY <1>1, AccountsFinite, SumMember
<1> QED BY <1>1, <1>2, <1>3

(* A credit adds to the sum, *)
LEMMA CreditedSum ==
  ASSUME NEW shares \in Ledger, NEW to \in Accounts, NEW amount \in Nat
  PROVE  /\ SumOver(Accounts, Credited(shares, to, amount))
               = SumOver(Accounts, shares) + amount
         /\ Credited(shares, to, amount)[to] = shares[to] + amount
         /\ \A a \in Accounts : Credited(shares, to, amount)[a] >= shares[a]
<1> DEFINE more == Credited(shares, to, amount)
<1>1. \A a \in Accounts : /\ shares[a] \in Nat
                           /\ more[a] = shares[a] + (IF a = to THEN amount ELSE 0)
  BY DEF Ledger, Credited
<1>2. \A a \in Accounts : shares[a] \in Int
  BY <1>1
<1>3. amount \in Int
  OBVIOUS
<1> DEFINE base == shares
<1> HIDE DEF more, base
<1>4. \A a \in Accounts : /\ base[a] \in Int
                           /\ more[a] = base[a] + (IF a = to THEN amount ELSE 0)
  BY <1>1, <1>2 DEF base
<1>5. SumOver(Accounts, more) = SumOver(Accounts, base) + (IF to \in Accounts THEN amount ELSE 0)
  BY <1>3, <1>4, AccountsFinite, SumAdded
<1>6. \A a \in Accounts : more[a] >= shares[a]
  BY <1>1
<1> QED BY <1>1, <1>5, <1>6 DEF more, base

(* and a transfer leaves it; only its sender has less. *)
LEMMA MovedSum ==
  ASSUME NEW shares \in Ledger, NEW from \in Accounts, NEW to \in Accounts,
         NEW amount \in Nat
  PROVE  SumOver(Accounts, Moved(shares, from, to, amount)) = SumOver(Accounts, shares)
<1> DEFINE base == shares
           mid == [a \in Accounts |-> shares[a] - (IF a = from THEN amount ELSE 0)]
           moved == Moved(shares, from, to, amount)
<1>1. \A a \in Accounts : /\ base[a] \in Int /\ mid[a] \in Int
                           /\ mid[a] = base[a] + (IF a = from THEN -amount ELSE 0)
                           /\ moved[a] = mid[a] + (IF a = to THEN amount ELSE 0)
  BY DEF Ledger, Moved
<1>2. amount \in Int /\ -amount \in Int
  OBVIOUS
<1> DEFINE less == -amount
<1> HIDE DEF base, mid, moved, less
<1>3. SumOver(Accounts, mid) = SumOver(Accounts, base) + (IF from \in Accounts THEN less ELSE 0)
  <2>1. less \in Int
    BY <1>2 DEF less
  <2>2. \A a \in Accounts : base[a] \in Int /\ mid[a] = base[a] + (IF a = from THEN less ELSE 0)
    BY <1>1 DEF less
  <2> QED BY <2>1, <2>2, AccountsFinite, SumAdded
<1>4. SumOver(Accounts, moved) = SumOver(Accounts, mid) + (IF to \in Accounts THEN amount ELSE 0)
  BY <1>1, <1>2, AccountsFinite, SumAdded
<1>5. SumOver(Accounts, base) \in Int
  BY SupplyType DEF base
<1>6. SumOver(Accounts, moved) = SumOver(Accounts, base)
  BY <1>3, <1>4, <1>5 DEF less
<1> QED BY <1>6 DEF base, moved

(* Nothing is left of what an account had. *)
LEMMA EmptiedSum ==
  ASSUME NEW shares \in Ledger, NEW from \in Accounts
  PROVE  SumOver(Accounts, [shares EXCEPT ![from] = 0])
           = SumOver(Accounts, shares) - shares[from]
<1> DEFINE base == shares
           none == [shares EXCEPT ![from] = 0]
           less == -shares[from]
<1>1. /\ less \in Int /\ SumOver(Accounts, shares) \in Int /\ shares[from] \in Int
      /\ \A a \in Accounts : base[a] \in Int /\ none[a] = base[a] + (IF a = from THEN less ELSE 0)
  BY SupplyType DEF Ledger
<1> HIDE DEF none, base, less
<1>2. SumOver(Accounts, none) = SumOver(Accounts, base) + (IF from \in Accounts THEN less ELSE 0)
  BY <1>1, AccountsFinite, SumAdded
<1>3. SumOver(Accounts, none) = SumOver(Accounts, shares) - shares[from]
  BY <1>1, <1>2 DEF base, less
<1> QED BY <1>3 DEF none

(* Two sides that keep their part of a share keep its worth. *)
LEMMA WorthFromSides ==
  ASSUME NEW s \in Nat, NEW r \in [token : Nat, usdc : Nat],
         NEW s2 \in Nat, NEW r2 \in [token : Nat, usdc : Nat],
         r.token * s2 <= r2.token * s, r.usdc * s2 <= r2.usdc * s
  PROVE  WorthKept(s, r, s2, r2)
<1> DEFINE x == r.token  y == r.usdc  x2 == r2.token  y2 == r2.usdc
<1>1. x \in Nat /\ y \in Nat /\ x2 \in Nat /\ y2 \in Nat
  OBVIOUS
<1>2. x * s2 <= x2 * s /\ y * s2 <= y2 * s
  OBVIOUS
<1> HIDE DEF x, y, x2, y2
<1>3. (x * y) * (s2 * s2) <= (x2 * y2) * (s * s)
  BY <1>1, <1>2, ScaledProduct
<1>4. (x * y) * (s2 * s2) = x * y * s2 * s2 /\ (x2 * y2) * (s * s) = x2 * y2 * s * s
  BY <1>1, Z3
<1> DEFINE p == (x * y) * (s2 * s2)  q == (x2 * y2) * (s * s)
<1>5. p \in Int /\ q \in Int /\ p <= q
  BY <1>1, <1>3, SMT
<1> HIDE DEF p, q
<1>6. q >= p
  BY <1>5
<1>7. x2 * y2 * s * s >= x * y * s2 * s2
  BY <1>4, <1>6 DEF p, q
<1> QED BY <1>7 DEF WorthKept, x, y, x2, y2

(* With the same shares, reserves whose product does not fall will do. *)
LEMMA WorthFromProduct ==
  ASSUME NEW s \in Nat, NEW r \in [token : Nat, usdc : Nat],
         NEW r2 \in [token : Nat, usdc : Nat],
         r2.token * r2.usdc >= r.token * r.usdc
  PROVE  WorthKept(s, r, s, r2)
<1> DEFINE k == r.token * r.usdc  k2 == r2.token * r2.usdc  u == k * s  u2 == k2 * s
<1>1. k \in Nat /\ k2 \in Nat /\ k <= k2
  BY SMT
<1> HIDE DEF k, k2
<1>2. u \in Nat /\ u2 \in Nat /\ u <= u2
  BY <1>1, SMT
<1> HIDE DEF u, u2
<1>3. u * s \in Nat /\ u2 * s \in Nat /\ u * s <= u2 * s
  BY <1>2, SMT
<1> DEFINE v == u * s  v2 == u2 * s
<1>4. v \in Nat /\ v2 \in Nat /\ v <= v2
  BY <1>3
<1> HIDE DEF v, v2
<1>5. v2 >= v
  BY <1>4
<1> QED BY <1>5 DEF v, v2, u, u2, k, k2, WorthKept


(* The parts of a pool, typed. *)
LEMMA PoolParts ==
  ASSUME PoolTypeOK, NEW t \in Tokens
  PROVE  /\ Pair[t] \in Accounts /\ Pair[t] # Dead /\ Dead \in Accounts
         /\ lp \in [Tokens -> Ledger] /\ lp[t] \in Ledger /\ lpSupply \in [Tokens -> Int]
         /\ reserves[t] \in [token : Nat, usdc : Nat]
         /\ reserves[t].token \in Nat /\ reserves[t].usdc \in Nat
         /\ usdc \in Ledger /\ bal \in [Tokens -> Ledger] /\ bal[t] \in Ledger
         /\ bal[t][Pair[t]] \in Nat /\ usdc[Pair[t]] \in Nat
<1>1. Pair[t] \in Accounts /\ Pair[t] # Dead /\ Dead \in Accounts
  BY PoolAssumption DEF Accounts, Pairs
<1> QED BY <1>1 DEF PoolTypeOK, Ledger

(* mint: the first one locks the minimum and needs both sides, a later one *)
(* buys at most its part of each.                                          *)
LEMMA MintToShares ==
  ASSUME NEW t \in Tokens, PoolTypeOK, SharesOK(lpSupply[t], lp[t], reserves[t]),
         NEW token \in Nat, NEW usd \in Nat, NEW to \in Accounts, MintTo(t, to, token, usd)
  PROVE  /\ SharesOK(lpSupply'[t], lp'[t], reserves'[t])
         /\ WorthKept(lpSupply[t], reserves[t], lpSupply'[t], reserves'[t])
         /\ \A s \in Tokens : s # t => /\ lpSupply'[s] = lpSupply[s] /\ lp'[s] = lp[s]
                                       /\ reserves'[s] = reserves[s]
<1> DEFINE locked == IF lpSupply[t] = 0 THEN MINIMUM_LIQUIDITY ELSE 0
           s == lpSupply[t]
           shares == lp[t]
           mid == Credited(shares, Dead, locked)
           r == reserves[t]
           r2 == [token |-> token, usdc |-> usd]
           addedT == token - r.token
           addedU == usd - r.usdc
<1>1. PICK liquidity \in LiquidityFor(t, token, usd) :
        /\ liquidity > 0
        /\ lp' = [lp EXCEPT ![t] = Credited(Credited(@, Dead, locked), to, liquidity)]
        /\ lpSupply' = [lpSupply EXCEPT ![t] = @ + locked + liquidity]
  BY DEF MintTo
<1>2. /\ token >= r.token /\ usd >= r.usdc
      /\ reserves' = Synced(t, token, usd)
  BY DEF MintTo
<1>3. /\ liquidity \in Nat /\ locked \in Nat /\ MINIMUM_LIQUIDITY \in Nat
      /\ r \in [token : Nat, usdc : Nat] /\ r2 \in [token : Nat, usdc : Nat]
      /\ r.token \in Nat /\ r.usdc \in Nat /\ shares \in Ledger /\ Dead \in Accounts
      /\ lp \in [Tokens -> Ledger] /\ lpSupply \in [Tokens -> Int]
  BY <1>1, LiquidityType, PoolAssumption, PoolParts
<1>4. /\ s \in Nat /\ s = SumOver(Accounts, shares) /\ shares[Dead] \in Nat
  BY <1>3, SupplyType DEF SharesOK
<1>5. /\ reserves'[t] = r2
      /\ \A u \in Tokens : u # t => /\ lpSupply'[u] = lpSupply[u] /\ lp'[u] = lp[u]
                                    /\ reserves'[u] = reserves[u]
  BY <1>1, <1>2, <1>3, SyncedType
<1>6. lpSupply'[t] = s + locked + liquidity /\ lp'[t] = Credited(mid, to, liquidity)
  BY <1>1, <1>3
<1>7. /\ mid \in Ledger /\ SumOver(Accounts, mid) = s + locked
      /\ mid[Dead] = shares[Dead] + locked
  <2> HIDE DEF locked, shares, s
  <2> QED BY <1>3, <1>4, CreditedLedger, CreditedSum
<1>8. /\ SumOver(Accounts, lp'[t]) = lpSupply'[t]
      /\ lp'[t][Dead] >= mid[Dead] /\ lp'[t] \in Ledger
  <2> DEFINE more == Credited(mid, to, liquidity)
  <2> HIDE DEF mid, locked, shares, s
  <2>1. /\ more \in Ledger
        /\ SumOver(Accounts, more) = SumOver(Accounts, mid) + liquidity
        /\ more[Dead] >= mid[Dead]
    BY <1>3, <1>7, CreditedLedger, CreditedSum
  <2>2. SumOver(Accounts, more) = s + locked + liquidity
    BY <1>7, <2>1
  <2> QED BY <1>6, <2>1, <2>2
<1>9. lp'[t][Dead] \in Nat /\ lpSupply'[t] \in Nat /\ lpSupply'[t] > 0
  BY <1>1, <1>3, <1>4, <1>6, <1>8 DEF Ledger
<1>10. addedT \in Nat /\ addedU \in Nat
  BY <1>2, <1>3
<1>11. CASE s = 0
  <2>1. PICK root \in Roots(addedT * addedU) : liquidity = root - MINIMUM_LIQUIDITY
    BY <1>11 DEF LiquidityFor
  <2> DEFINE x == addedT * addedU
  <2>2. x \in Nat /\ root \in 0..x /\ root > 0
    BY <1>1, <1>3, <1>10, <2>1, SMT DEF Roots
  <2>3. x > 0
    BY <2>2
  <2>4. addedT > 0 /\ addedU > 0
    BY <1>10, <2>3, SMT
  <2>5. token > 0 /\ usd > 0
    BY <1>3, <2>4
  <2>6. lp'[t][Dead] >= MINIMUM_LIQUIDITY
    <3>1. mid[Dead] = shares[Dead] + MINIMUM_LIQUIDITY
      BY <1>7, <1>11
    <3> HIDE DEF mid, shares
    <3> QED BY <1>3, <1>4, <1>8, <1>9, <3>1
  <2>7. SharesOK(lpSupply'[t], lp'[t], reserves'[t])
    BY <1>5, <1>8, <2>5, <2>6 DEF SharesOK
  <2>8. WorthKept(lpSupply[t], reserves[t], lpSupply'[t], reserves'[t])
    BY <1>11 DEF WorthKept
  <2> QED BY <1>5, <2>7, <2>8
<1>12. CASE s # 0
  <2>0. s > 0 /\ locked = 0
    BY <1>4, <1>12
  <2>1. r.token > 0 /\ r.usdc > 0 /\ shares[Dead] >= MINIMUM_LIQUIDITY
    BY <2>0 DEF SharesOK
  <2>2. liquidity = Least((addedT * s) \div r.token, (addedU * s) \div r.usdc)
    BY <1>12, <2>1 DEF LiquidityFor
  <2>3. liquidity <= (addedT * s) \div r.token /\ liquidity <= (addedU * s) \div r.usdc
    <3> DEFINE x == addedT * s  y == addedU * s  a == x \div r.token  b == y \div r.usdc
    <3>1. x \in Nat /\ y \in Nat
      BY <1>4, <1>10, SMT
    <3> HIDE DEF x, y
    <3>2. a \in Nat /\ b \in Nat
      BY <1>3, <2>1, <3>1, QuotientBack
    <3>3. liquidity = Least(a, b)
      BY <2>2 DEF x, y
    <3> HIDE DEF a, b
    <3>4. liquidity <= a /\ liquidity <= b
      BY <3>2, <3>3 DEF Least
    <3> QED BY <3>4 DEF a, b, x, y
  <2> DEFINE rt == r.token  ru == r.usdc
  <2>4. rt \in Nat /\ ru \in Nat /\ rt > 0 /\ ru > 0 /\ rt + addedT = token /\ ru + addedU = usd
    BY <1>3, <2>1
  <2>5. liquidity <= (addedT * s) \div rt /\ liquidity <= (addedU * s) \div ru
    BY <2>3
  <2> HIDE DEF rt, ru, addedT, addedU, s
  <2>6. /\ rt * (s + liquidity) <= (rt + addedT) * s
        /\ ru * (s + liquidity) <= (ru + addedU) * s
    BY <1>3, <1>4, <1>10, <2>4, <2>5, ShareBought
  <2> DEFINE s2 == s + liquidity
  <2>7. s2 \in Nat /\ lpSupply'[t] = s2
    BY <1>3, <1>4, <1>6, <2>0
  <2>8. r.token * s2 <= r2.token * s /\ r.usdc * s2 <= r2.usdc * s
    BY <2>4, <2>6 DEF rt, ru
  <2> HIDE DEF s2, r, r2
  <2>9. WorthKept(s, r, s2, r2)
    BY <1>3, <1>4, <2>7, <2>8, WorthFromSides
  <2>10. WorthKept(lpSupply[t], reserves[t], lpSupply'[t], reserves'[t])
    BY <1>5, <2>7, <2>9 DEF s, r
  <2>11. lp'[t][Dead] >= MINIMUM_LIQUIDITY
    <3> HIDE DEF mid, shares, locked
    <3> QED BY <1>3, <1>4, <1>7, <1>8, <1>9, <2>0, <2>1
  <2>12. reserves'[t].token > 0 /\ reserves'[t].usdc > 0
    <3>1. token > 0 /\ usd > 0
      BY <1>2, <1>3, <2>1 DEF r
    <3> QED BY <1>5, <3>1 DEF r2
  <2> QED BY <1>5, <1>8, <2>10, <2>11, <2>12 DEF SharesOK
<1> QED BY <1>11, <1>12

(* What is paid out for shares leaves the others their part. *)
LEMMA SideSold ==
  ASSUME NEW r \in Nat, NEW balance \in Nat, r <= balance, NEW s \in Nat, s > 0,
         NEW shares \in Nat, shares <= s, NEW amount, amount = (shares * balance) \div s,
         NEW left \in Nat, left >= balance - amount
  PROVE  /\ amount \in Nat /\ amount <= balance
         /\ r * (s - shares) <= left * s
         /\ r > 0 /\ shares < s => left > 0
<1> DEFINE rest == s - shares  paid == balance - amount
           a == r * rest  b == balance * rest  c == paid * s  d == left * s
<1>1. /\ amount \in Nat /\ amount <= balance /\ b <= c
      /\ balance > 0 /\ shares < s => amount < balance
  BY ShareSold
<1>2. rest \in Nat /\ paid \in Nat
  BY <1>1
<1> HIDE DEF rest
<1>3. a \in Nat /\ b \in Nat /\ a <= b
  BY <1>2, SMT
<1>4. paid <= left
  BY <1>1
<1> HIDE DEF paid
<1>5. c \in Nat /\ d \in Nat /\ c <= d
  BY <1>2, <1>4, SMT
<1> HIDE DEF a, b, c, d
<1>6. a <= d
  BY <1>1, <1>3, <1>5
<1>7. ASSUME r > 0, shares < s PROVE left > 0
  BY <1>1, <1>2, <1>4, <1>7 DEF paid
<1> QED BY <1>1, <1>6, <1>7 DEF a, d, rest

(* burn: nobody's shares but the pair's own are burned, and the pair pays  *)
(* no more than their part of what it holds.                               *)
LEMMA PairBurnShares ==
  ASSUME NEW t \in Tokens, PoolTypeOK, ReservesBacked,
         SharesOK(lpSupply[t], lp[t], reserves[t]), NEW to \in Accounts, PairBurn(t, to)
  PROVE  /\ SharesOK(lpSupply'[t], lp'[t], reserves'[t])
         /\ WorthKept(lpSupply[t], reserves[t], lpSupply'[t], reserves'[t])
         /\ \A u \in Tokens : u # t => /\ lpSupply'[u] = lpSupply[u] /\ lp'[u] = lp[u]
                                       /\ reserves'[u] = reserves[u]
<1> DEFINE pair        == Pair[t]
           s           == lpSupply[t]
           shares      == lp[t]
           liquidity   == shares[pair]
           held        == bal[t][pair]
           cash        == usdc[pair]
           amountToken == (liquidity * held) \div s
           amountUsdc  == (liquidity * cash) \div s
           leftToken   == Moved(bal[t], pair, to, amountToken)[pair]
           leftUsdc    == Moved(usdc, pair, to, amountUsdc)[pair]
           r           == reserves[t]
           r2          == [token |-> leftToken, usdc |-> leftUsdc]
           shares2     == [shares EXCEPT ![pair] = 0]
<1>1. /\ s > 0
      /\ amountToken > 0 /\ amountToken <= held /\ amountUsdc > 0 /\ amountUsdc <= cash
      /\ lp' = [lp EXCEPT ![t][pair] = 0]
      /\ lpSupply' = [lpSupply EXCEPT ![t] = @ - liquidity]
      /\ reserves' = Synced(t, leftToken, leftUsdc)
  BY DEF PairBurn
<1>2. /\ pair \in Accounts /\ pair # Dead /\ Dead \in Accounts
      /\ lp \in [Tokens -> Ledger] /\ shares \in Ledger /\ lpSupply \in [Tokens -> Int]
      /\ r \in [token : Nat, usdc : Nat] /\ r.token \in Nat /\ r.usdc \in Nat
      /\ usdc \in Ledger /\ bal[t] \in Ledger /\ held \in Nat /\ cash \in Nat
      /\ r.token <= held /\ r.usdc <= cash
  BY PoolParts DEF ReservesBacked
<1>3. s \in Nat /\ liquidity \in Nat /\ liquidity <= s /\ s = SumOver(Accounts, shares)
  BY <1>2, SupplyType DEF SharesOK
<1>4. /\ r.token > 0 /\ r.usdc > 0 /\ shares[Dead] >= MINIMUM_LIQUIDITY
  BY <1>1 DEF SharesOK
<1>5. amountToken \in Nat /\ amountUsdc \in Nat
  <2> HIDE DEF s, liquidity, held, cash
  <2>1. liquidity * held \in Nat /\ liquidity * cash \in Nat
    BY <1>2, <1>3, SMT
  <2> QED BY <1>1, <1>3, <2>1, QuotientBack
<1>6. /\ leftToken \in Nat /\ leftToken >= held - amountToken
      /\ leftUsdc \in Nat /\ leftUsdc >= cash - amountUsdc
  <2> HIDE DEF amountToken, amountUsdc
  <2>1. /\ leftToken = held - (IF pair = to THEN 0 ELSE amountToken)
        /\ leftUsdc = cash - (IF pair = to THEN 0 ELSE amountUsdc)
    BY <1>1, <1>2, <1>5, MovedLedger
  <2> HIDE DEF leftToken, leftUsdc, held, cash
  <2> QED BY <1>1, <1>2, <1>5, <2>1
<1>7. /\ reserves'[t] = r2
      /\ \A u \in Tokens : u # t => reserves'[u] = reserves[u]
  <2>1. leftToken \in Nat /\ leftUsdc \in Nat /\ reserves' = Synced(t, leftToken, leftUsdc)
    BY <1>1, <1>6
  <2> HIDE DEF leftToken, leftUsdc
  <2> QED BY <2>1, SyncedType
<1>8. /\ lpSupply'[t] = s - liquidity /\ lp'[t] = shares2
      /\ \A u \in Tokens : u # t => lpSupply'[u] = lpSupply[u] /\ lp'[u] = lp[u]
  BY <1>1, <1>2
<1>9. /\ SumOver(Accounts, shares2) = s - liquidity
      /\ shares2[Dead] = shares[Dead]
  <2>1. shares2[Dead] = shares[Dead]
    BY <1>2 DEF Ledger
  <2>2. SumOver(Accounts, shares2) = SumOver(Accounts, shares) - shares[pair]
    BY <1>2, EmptiedSum
  <2> QED BY <1>3, <2>1, <2>2
<1>10. /\ r.token * (s - liquidity) <= leftToken * s
       /\ r.usdc * (s - liquidity) <= leftUsdc * s
       /\ liquidity < s => leftToken > 0 /\ leftUsdc > 0
  <2> DEFINE rt == r.token  ru == r.usdc
  <2>1. /\ rt \in Nat /\ ru \in Nat /\ rt <= held /\ ru <= cash /\ rt > 0 /\ ru > 0
        /\ amountToken = (liquidity * held) \div s /\ amountUsdc = (liquidity * cash) \div s
    BY <1>2, <1>4
  <2> HIDE DEF rt, ru, amountToken, amountUsdc, leftToken, leftUsdc, held, cash, s, liquidity
  <2>2. rt * (s - liquidity) <= leftToken * s /\ (liquidity < s => leftToken > 0)
    BY <1>1, <1>2, <1>3, <1>6, <2>1, SideSold, SMTT(40)
  <2>3. ru * (s - liquidity) <= leftUsdc * s /\ (liquidity < s => leftUsdc > 0)
    BY <1>1, <1>2, <1>3, <1>6, <2>1, SideSold
  <2> QED BY <2>2, <2>3 DEF rt, ru
<1> DEFINE s2 == s - liquidity
<1>11. s2 \in Nat /\ (s2 > 0 => liquidity < s)
  BY <1>3
<1>12. WorthKept(s, r, s2, r2)
  <2>1. r2 \in [token : Nat, usdc : Nat]
    BY <1>6
  <2>2. r.token * s2 <= r2.token * s /\ r.usdc * s2 <= r2.usdc * s
    BY <1>10
  <2> HIDE DEF r, r2, s, s2
  <2> QED BY <1>2, <1>3, <1>11, <2>1, <2>2, WorthFromSides
<1>13. SharesOK(s2, shares2, r2)
  <2>1. s2 > 0 => r2.token > 0 /\ r2.usdc > 0
    BY <1>10, <1>11
  <2> QED BY <1>4, <1>9, <2>1 DEF SharesOK
<1> QED BY <1>7, <1>8, <1>12, <1>13

(* swap: the shares stand still and the product of the reserves does not   *)
(* fall, so neither of them is emptied.                                    *)
LEMMA SwapShares ==
  ASSUME NEW t \in Tokens, PoolTypeOK, SharesOK(lpSupply[t], lp[t], reserves[t]),
         NEW tokenOut, NEW usdcOut, NEW token \in Nat, NEW usd \in Nat,
         SwapTo(t, tokenOut, usdcOut, token, usd), UNCHANGED <<lp, lpSupply>>
  PROVE  /\ SharesOK(lpSupply'[t], lp'[t], reserves'[t])
         /\ WorthKept(lpSupply[t], reserves[t], lpSupply'[t], reserves'[t])
         /\ \A u \in Tokens : u # t => /\ lpSupply'[u] = lpSupply[u] /\ lp'[u] = lp[u]
                                       /\ reserves'[u] = reserves[u]
<1> DEFINE r == reserves[t]  r2 == [token |-> token, usdc |-> usd]  s == lpSupply[t]
<1>1. /\ token * usd >= r.token * r.usdc
      /\ reserves' = Synced(t, token, usd)
  BY DEF SwapTo
<1>2. /\ reserves'[t] = r2
      /\ \A u \in Tokens : u # t => reserves'[u] = reserves[u]
  BY <1>1, SyncedType
<1>3. /\ r \in [token : Nat, usdc : Nat] /\ r2 \in [token : Nat, usdc : Nat]
      /\ r.token \in Nat /\ r.usdc \in Nat /\ s \in Nat
  BY PoolParts, SupplyType DEF SharesOK
<1>4. r.token > 0 /\ r.usdc > 0 => token > 0 /\ usd > 0
  <2> DEFINE x == r.token  y == r.usdc
  <2>1. x \in Nat /\ y \in Nat /\ token * usd >= x * y
    BY <1>1, <1>3
  <2> HIDE DEF x, y, r
  <2>2. ASSUME x > 0, y > 0 PROVE token > 0 /\ usd > 0
    <3>1. x * y > 0
      BY <2>1, <2>2, SMT
    <3>2. token = 0 \/ usd = 0 => token * usd = 0
      BY SMT
    <3> DEFINE p == x * y  q == token * usd
    <3>3. p \in Nat /\ q \in Nat
      BY <2>1, SMT
    <3>4. p > 0 /\ q >= p /\ (token = 0 \/ usd = 0 => q = 0)
      BY <2>1, <3>1, <3>2
    <3> HIDE DEF p, q
    <3> QED BY <3>3, <3>4
  <2> QED BY <2>2 DEF x, y
<1>5. WorthKept(s, r, s, r2)
  <2>1. r2.token * r2.usdc >= r.token * r.usdc
    BY <1>1
  <2> HIDE DEF r, r2, s
  <2> QED BY <1>3, <2>1, WorthFromProduct
<1> QED BY <1>2, <1>4, <1>5 DEF SharesOK

(* Pools left alone stay as they are. *)
LEMMA SharesStay ==
  ASSUME PoolTypeOK, LiquidPools, UNCHANGED <<lp, lpSupply, reserves>>
  PROVE  LiquidPools' /\ SharesNotDiluted
<1>1. ASSUME NEW t \in Tokens
      PROVE  WorthKept(lpSupply[t], reserves[t], lpSupply[t], reserves[t])
  <2>1. lpSupply[t] \in Nat /\ reserves[t] \in [token : Nat, usdc : Nat]
    BY PoolParts, SupplyType DEF LiquidPools, SharesOK
  <2>2. reserves[t].token * reserves[t].usdc >= reserves[t].token * reserves[t].usdc
    BY <2>1
  <2> QED BY <2>1, <2>2, WorthFromProduct
<1> QED BY <1>1 DEF LiquidPools, SharesNotDiluted, WorthKept

(* One pool that is left in order, and the others as they were. *)
LEMMA SharesAt ==
  ASSUME NEW t \in Tokens, PoolTypeOK, LiquidPools,
         SharesOK(lpSupply'[t], lp'[t], reserves'[t]),
         WorthKept(lpSupply[t], reserves[t], lpSupply'[t], reserves'[t]),
         \A u \in Tokens : u # t => /\ lpSupply'[u] = lpSupply[u] /\ lp'[u] = lp[u]
                                    /\ reserves'[u] = reserves[u]
  PROVE  LiquidPools' /\ SharesNotDiluted
<1>1. ASSUME NEW u \in Tokens, u # t
      PROVE  WorthKept(lpSupply[u], reserves[u], lpSupply'[u], reserves'[u])
  <2>1. lpSupply[u] \in Nat /\ reserves[u] \in [token : Nat, usdc : Nat]
    BY PoolParts, SupplyType DEF LiquidPools, SharesOK
  <2>2. reserves[u].token * reserves[u].usdc >= reserves[u].token * reserves[u].usdc
    BY <2>1
  <2>3. WorthKept(lpSupply[u], reserves[u], lpSupply[u], reserves[u])
    BY <2>1, <2>2, WorthFromProduct
  <2> QED BY <1>1, <2>3
<1>2. \A u \in Tokens : WorthKept(lpSupply[u], reserves[u], lpSupply'[u], reserves'[u])
  BY <1>1
<1>3. LiquidPools'
  BY DEF LiquidPools
<1> QED BY <1>2, <1>3 DEF SharesNotDiluted, WorthKept

(* Whatever anyone does with the assets, the shares of every pool account  *)
(* for its supply and are worth what they were.                            *)
LEMMA PoolStepShares ==
  ASSUME NEW t \in Tokens, PoolTypeOK, ReservesBacked, LiquidPools, PoolStep(t)
  PROVE  LiquidPools' /\ SharesNotDiluted
<1>0. /\ Users \cup Recipients \subseteq Accounts /\ Recipients \subseteq Accounts
      /\ Holders \subseteq Accounts /\ Dead \notin Holders
      /\ SharesOK(lpSupply[t], lp[t], reserves[t])
      /\ lp \in [Tokens -> Ledger] /\ lp[t] \in Ledger /\ Dead \in Accounts
      /\ Pair[t] \in Accounts /\ usdc[Pair[t]] \in Nat /\ bal[t][Pair[t]] \in Nat
      /\ reserves[t] \in [token : Nat, usdc : Nat]
      /\ reserves[t].token \in Nat /\ reserves[t].usdc \in Nat
      /\ lpSupply[t] \in Nat
  BY PoolAssumption, PoolParts, SupplyType DEF Accounts, Holders, LiquidPools, SharesOK
<1>1. ASSUME UNCHANGED <<lp, lpSupply, reserves>>
      PROVE  LiquidPools' /\ SharesNotDiluted
  BY <1>1, SharesStay
<1>2. ASSUME NEW from \in Holders, NEW to \in Recipients, NEW amount \in LpAmounts,
             TransferLp(t, from, to, amount)
      PROVE  LiquidPools' /\ SharesNotDiluted
  <2> DEFINE shares == lp[t]  moved == Moved(shares, from, to, amount)
  <2>1. /\ lp' = [lp EXCEPT ![t] = moved] /\ lpSupply' = lpSupply /\ reserves' = reserves
        /\ shares[from] >= amount
    BY <1>2 DEF TransferLp
  <2>2. amount \in Nat /\ from \in Accounts /\ to \in Accounts /\ from # Dead
    BY <1>0, PoolAssumption
  <2>3. SumOver(Accounts, moved) = SumOver(Accounts, shares)
    <3> HIDE DEF shares, moved
    <3> QED BY <1>0, <2>2, MovedSum DEF shares, moved
  <2>4. moved[Dead] >= shares[Dead] /\ moved[Dead] \in Nat /\ shares[Dead] \in Nat
    BY <1>0, <2>2, MovedGains DEF Ledger
  <2>5. lp'[t] = moved /\ \A u \in Tokens : u # t => lp'[u] = lp[u]
    BY <1>0, <2>1
  <2>6. SharesOK(lpSupply'[t], lp'[t], reserves'[t])
    <3>1. lpSupply[t] > 0 => moved[Dead] >= MINIMUM_LIQUIDITY
      <4>1. lpSupply[t] > 0 => shares[Dead] >= MINIMUM_LIQUIDITY
        BY <1>0 DEF SharesOK
      <4> HIDE DEF moved, shares
      <4> QED BY <2>4, <4>1, PoolAssumption
    <3> QED BY <1>0, <2>1, <2>3, <2>5, <3>1 DEF SharesOK
  <2>7. WorthKept(lpSupply[t], reserves[t], lpSupply'[t], reserves'[t])
    <3>1. reserves[t].token * reserves[t].usdc >= reserves[t].token * reserves[t].usdc
      BY <1>0
    <3> QED BY <1>0, <2>1, <3>1, WorthFromProduct
  <2> QED BY <2>1, <2>5, <2>6, <2>7, SharesAt
<1>3. ASSUME NEW to \in Accounts, PairMint(t, to)
      PROVE  LiquidPools' /\ SharesNotDiluted
  <2>1. MintTo(t, to, bal[t][Pair[t]], usdc[Pair[t]])
    BY <1>3 DEF PairMint
  <2> QED BY <1>0, <2>1, MintToShares, SharesAt
<1>4. ASSUME NEW to \in Accounts, PairBurn(t, to)
      PROVE  LiquidPools' /\ SharesNotDiluted
  BY <1>0, <1>4, PairBurnShares, SharesAt
<1>5. ASSUME PairSync(t)
      PROVE  LiquidPools' /\ SharesNotDiluted
  <2> DEFINE r == reserves[t]
             r2 == [token |-> bal[t][Pair[t]], usdc |-> usdc[Pair[t]]]
             x == r.token  y == r.usdc  x2 == r2.token  y2 == r2.usdc
  <2>1. /\ UNCHANGED <<lp, lpSupply>> /\ reserves'[t] = r2
        /\ \A u \in Tokens : u # t => reserves'[u] = reserves[u]
    BY <1>0, <1>5, SyncedType DEF PairSync
  <2>2. /\ x \in Nat /\ y \in Nat /\ x2 \in Nat /\ y2 \in Nat /\ x <= x2 /\ y <= y2
        /\ r \in [token : Nat, usdc : Nat] /\ r2 \in [token : Nat, usdc : Nat]
    BY <1>0 DEF ReservesBacked
  <2>3. x2 * y2 >= x * y
    <3> HIDE DEF x, y, x2, y2
    <3>1. x * y <= x2 * y /\ x2 * y <= x2 * y2
      BY <2>2, SMT
    <3> QED BY <2>2, <3>1, SMT
  <2>4. x > 0 /\ y > 0 => x2 > 0 /\ y2 > 0
    <3> HIDE DEF x, y, x2, y2
    <3> QED BY <2>2
  <2>5. SharesOK(lpSupply'[t], lp'[t], reserves'[t])
    BY <1>0, <2>1, <2>4 DEF SharesOK
  <2>6. WorthKept(lpSupply[t], r, lpSupply[t], r2)
    <3>1. r2.token * r2.usdc >= r.token * r.usdc
      BY <2>3
    <3> HIDE DEF r, r2
    <3> QED BY <1>0, <2>2, <3>1, WorthFromProduct
  <2>7. WorthKept(lpSupply[t], reserves[t], lpSupply'[t], reserves'[t])
    BY <2>1, <2>6
  <2> QED BY <2>1, <2>5, <2>7, SharesAt
<1> QED BY <1>0, <1>1, <1>2, <1>3, <1>4, <1>5 DEF PoolStep, TransferToken, BurnToken, PairSkim

-----------------------------------------------------------------------------
(* The launchpad. *)
(* The shape of a curve, and a creator fee within the cap. *)
CurveFit(c) == CurveShape(c) /\ c.creatorFeeBps <= MAX_CREATOR_FEE_BPS

BooksOK ==
  /\ PoolTypeOK
  /\ ReservesBacked
  /\ curves \in [Tokens -> CurveRecord]
  /\ pendingFees \in Nat
  /\ pendingCreatorFees \in [Tokens -> Nat]
  /\ \A t \in Tokens : CurveFit(curves[t])

AdminOK ==
  /\ feeTo \in Users
  /\ feeToSetter \in Users \cup {NoOne}
  /\ launchFee \in Nat
  /\ wired \in BOOLEAN

(* What BooksOK says of the present, of the state to return to. *)
SavedOK ==
  /\ saved \in SavedState
  /\ \A t \in Tokens : CurveFit(saved.curves[t])
  /\ \A t \in Tokens : /\ saved.reserves[t].token <= saved.bal[t][Pair[t]]
                       /\ saved.reserves[t].usdc <= saved.usdc[Pair[t]]

CallOK ==
  /\ call \in [kind : {"none", "launch", "fees"}, token : Tokens \cup {NoOne},
               allowance : Nat, before : Nat, firstBuy : Nat]
  /\ Entered => call.token \in Tokens /\ SavedOK

IInv == BooksOK /\ AdminOK /\ CallOK

-----------------------------------------------------------------------------
(* Two amounts whose product is large enough, one of them small enough. *)
LEMMA FloorFromProduct ==
  ASSUME NEW a \in Int, NEW b \in Nat, NEW c \in Int, NEW d \in Nat,
         b <= d, 0 < d, a * b >= c * d, 0 <= a
  PROVE  a >= c
<1>1. b * a <= d * a
  BY MulMono
<1>2. c * d <= a * d
  BY <1>1
<1>3. SUFFICES ASSUME a < c PROVE FALSE
  OBVIOUS
<1>4. (a + 1) * d <= c * d
  BY <1>3, MulMono
<1>5. (a + 1) * d = a * d + d
  OBVIOUS
<1> QED BY <1>2, <1>4, <1>5

(* A buy on a curve in shape leaves it in shape. *)
LEMMA BuyKeepsShape ==
  ASSUME NEW c \in CurveRecord, CurveFit(c), ~c.graduated, NEW usdcIn \in Nat,
         NEW q, q = CalcBuy(c.virtualUsdc, c.virtualTokens, CURVE_SUPPLY - c.tokensSold,
                            usdcIn, c.creatorFeeBps),
         q.ok,
         NEW d, d = Bought(c, q)
  PROVE  /\ q.tokensOut \in Nat /\ q.platformFee \in Nat /\ q.creatorFee \in Nat
         /\ q.usdcSpent \in Nat /\ q.graduates \in BOOLEAN
         /\ q.platformFee + q.creatorFee <= q.usdcSpent
         /\ d \in CurveRecord
         /\ CurveFit(d)
         /\ d.virtualUsdc * d.virtualTokens >= c.virtualUsdc * c.virtualTokens
<1> DEFINE remaining == CURVE_SUPPLY - c.tokensSold
           net == q.usdcSpent - q.platformFee - q.creatorFee
<1>1. /\ c.virtualUsdc \in Nat /\ c.virtualTokens \in Nat /\ c.tokensSold \in Nat
      /\ c.creatorFeeBps \in Nat /\ c.graduated \in BOOLEAN
  BY DEF CurveRecord
<1>2. /\ c.virtualTokens + c.tokensSold = VIRTUAL_TOKENS_0
      /\ c.tokensSold <= CURVE_SUPPLY /\ c.tokensSold # CURVE_SUPPLY
      /\ c.virtualUsdc >= VIRTUAL_USDC_0
      /\ c.virtualUsdc * c.virtualTokens >= VIRTUAL_USDC_0 * VIRTUAL_TOKENS_0
      /\ c.creatorFeeBps <= MAX_CREATOR_FEE_BPS
  BY DEF CurveFit, CurveShape
<1>3. /\ remaining \in Nat /\ 0 < remaining /\ remaining < c.virtualTokens
      /\ 0 < c.virtualUsdc /\ FEE_BPS + c.creatorFeeBps < BPS
  BY <1>1, <1>2, LaunchpadAssumption, FeeAssumption
<1> HIDE DEF remaining
<1>4. BuyFacts(q, c.virtualUsdc, c.virtualTokens, remaining, usdcIn)
  <2>1. q = CalcBuy(c.virtualUsdc, c.virtualTokens, remaining, usdcIn, c.creatorFeeBps)
    BY DEF remaining
  <2> QED BY <1>1, <1>3, <2>1, CalcBuyFacts
<1>5. /\ q.tokensOut \in Nat /\ 0 < q.tokensOut /\ q.tokensOut <= remaining
      /\ q.platformFee \in Nat /\ q.creatorFee \in Nat /\ q.usdcSpent \in Nat
      /\ q.platformFee + q.creatorFee <= q.usdcSpent
      /\ (c.virtualUsdc + net) * (c.virtualTokens - q.tokensOut)
           >= c.virtualUsdc * c.virtualTokens
  BY <1>4 DEF BuyFacts
<1>6. q.graduates \in BOOLEAN /\ (q.graduates <=> q.tokensOut = remaining)
  BY <1>4, Zenon DEF BuyFacts
<1>7. net \in Nat
  BY <1>5
<1>8. /\ d.virtualUsdc = c.virtualUsdc + net
      /\ d.virtualTokens = c.virtualTokens - q.tokensOut
      /\ d.tokensSold = c.tokensSold + q.tokensOut
      /\ d.graduated = q.graduates
      /\ d.creatorFeeBps = c.creatorFeeBps
  BY DEF CurveRecord, Bought
<1> HIDE DEF net
<1>9. /\ d.virtualUsdc \in Nat /\ d.virtualTokens \in Nat /\ d.tokensSold \in Nat
  BY <1>1, <1>3, <1>5, <1>7, <1>8
<1>10. d \in CurveRecord
  BY <1>6, <1>8, <1>9 DEF CurveRecord, Bought
<1>11. d.virtualUsdc * d.virtualTokens >= c.virtualUsdc * c.virtualTokens
  BY <1>5, <1>8 DEF net
<1>12. /\ d.virtualTokens + d.tokensSold = VIRTUAL_TOKENS_0
       /\ d.tokensSold <= CURVE_SUPPLY
       /\ d.virtualUsdc >= VIRTUAL_USDC_0
  BY <1>1, <1>2, <1>5, <1>7, <1>8, LaunchpadAssumption DEF remaining
<1>13. d.virtualUsdc * d.virtualTokens >= VIRTUAL_USDC_0 * VIRTUAL_TOKENS_0
  <2> DEFINE x == d.virtualUsdc * d.virtualTokens
             y == c.virtualUsdc * c.virtualTokens
             z == VIRTUAL_USDC_0 * VIRTUAL_TOKENS_0
  <2>1. x \in Int /\ y \in Int /\ z \in Int
    BY <1>1, <1>9, LaunchpadAssumption
  <2>2. x >= y /\ y >= z
    BY <1>2, <1>11
  <2> HIDE DEF x, y, z
  <2>3. x >= z
    BY <2>1, <2>2
  <2> QED BY <2>3 DEF x, z
<1>14. q.tokensOut = remaining <=> d.tokensSold = CURVE_SUPPLY
  BY <1>1, <1>5, <1>8, LaunchpadAssumption DEF remaining
<1>15. d.graduated <=> d.tokensSold = CURVE_SUPPLY
  BY <1>6, <1>8, <1>14, Zenon
<1>16. CurveShape(d)
  BY <1>12, <1>13, <1>15, Zenon DEF CurveShape
<1> QED BY <1>2, <1>5, <1>6, <1>8, <1>10, <1>11, <1>16 DEF CurveFit

(* A sell on a curve in shape leaves it in shape. *)
LEMMA SellKeepsShape ==
  ASSUME NEW c \in CurveRecord, CurveFit(c), ~c.graduated, NEW tokensIn \in Nat,
         NEW q, q = CalcSell(c.virtualUsdc, c.virtualTokens, c.tokensSold, tokensIn,
                             c.creatorFeeBps),
         q.ok,
         NEW d, d = SoldBack(c, q, tokensIn)
  PROVE  /\ q.gross \in Nat /\ q.platformFee \in Nat /\ q.creatorFee \in Nat
         /\ q.usdcOut \in Nat
         /\ d \in CurveRecord
         /\ CurveFit(d)
         /\ d.virtualUsdc * d.virtualTokens >= c.virtualUsdc * c.virtualTokens
<1>1. /\ c.virtualUsdc \in Nat /\ c.virtualTokens \in Nat /\ c.tokensSold \in Nat
      /\ c.creatorFeeBps \in Nat /\ c.graduated \in BOOLEAN
  BY DEF CurveRecord
<1>2. /\ c.virtualTokens + c.tokensSold = VIRTUAL_TOKENS_0
      /\ c.tokensSold <= CURVE_SUPPLY /\ c.tokensSold # CURVE_SUPPLY
      /\ c.virtualUsdc * c.virtualTokens >= VIRTUAL_USDC_0 * VIRTUAL_TOKENS_0
      /\ c.creatorFeeBps <= MAX_CREATOR_FEE_BPS
  BY DEF CurveFit, CurveShape
<1>3. 0 < c.virtualTokens
  BY <1>1, <1>2, LaunchpadAssumption
<1>4. /\ 0 < tokensIn /\ tokensIn <= c.tokensSold
      /\ q.gross \in Nat /\ q.gross <= c.virtualUsdc
      /\ q.platformFee \in Nat /\ q.creatorFee \in Nat /\ q.usdcOut \in Nat
      /\ (c.virtualUsdc - q.gross) * (c.virtualTokens + tokensIn)
           >= c.virtualUsdc * c.virtualTokens
  <2>1. SellFacts(q, c.virtualUsdc, c.virtualTokens, c.tokensSold, tokensIn)
    BY <1>1, <1>3, CalcSellFacts
  <2> QED BY <2>1 DEF SellFacts
<1>5. /\ d.virtualUsdc = c.virtualUsdc - q.gross
      /\ d.virtualTokens = c.virtualTokens + tokensIn
      /\ d.tokensSold = c.tokensSold - tokensIn
      /\ d.graduated = c.graduated
      /\ d.creatorFeeBps = c.creatorFeeBps
  BY DEF CurveRecord, SoldBack
<1>6. d.virtualUsdc \in Nat /\ d.virtualTokens \in Nat /\ d.tokensSold \in Nat
  BY <1>1, <1>4, <1>5
<1>7. d \in CurveRecord
  BY <1>5, <1>6 DEF CurveRecord, SoldBack
<1>8. d.virtualUsdc * d.virtualTokens >= c.virtualUsdc * c.virtualTokens
  BY <1>4, <1>5
<1>9. d.virtualUsdc * d.virtualTokens >= VIRTUAL_USDC_0 * VIRTUAL_TOKENS_0
  <2> DEFINE x == d.virtualUsdc * d.virtualTokens
             y == c.virtualUsdc * c.virtualTokens
             z == VIRTUAL_USDC_0 * VIRTUAL_TOKENS_0
  <2>1. x \in Int /\ y \in Int /\ z \in Int
    BY <1>1, <1>6, LaunchpadAssumption
  <2>2. x >= y /\ y >= z
    BY <1>2, <1>8
  <2> HIDE DEF x, y, z
  <2>3. x >= z
    BY <2>1, <2>2
  <2> QED BY <2>3 DEF x, z
<1>10. /\ d.virtualTokens + d.tokensSold = VIRTUAL_TOKENS_0
       /\ d.tokensSold <= CURVE_SUPPLY /\ d.tokensSold # CURVE_SUPPLY
  BY <1>1, <1>2, <1>4, <1>5, LaunchpadAssumption
<1>11. d.virtualUsdc >= VIRTUAL_USDC_0
  <2>1. d.virtualTokens <= VIRTUAL_TOKENS_0
    BY <1>6, <1>10, LaunchpadAssumption
  <2> QED BY <1>6, <1>9, <2>1, FloorFromProduct, LaunchpadAssumption
<1>12. ~d.graduated
  BY <1>5, Zenon
<1>13. CurveShape(d)
  BY <1>9, <1>10, <1>11, <1>12, Zenon DEF CurveShape
<1> QED BY <1>2, <1>4, <1>5, <1>7, <1>8, <1>13 DEF CurveFit

-----------------------------------------------------------------------------
(* The accounts of the contracts are apart from those of the holders. *)
LEMMA AccountsApart ==
  /\ Pad \in Accounts /\ Router \in Accounts /\ Dead \in Accounts
  /\ Holders \subseteq Accounts /\ Users \subseteq Holders
  /\ Pad \notin Holders /\ Router \notin Holders /\ Pad # Router
  /\ \A t \in Tokens : /\ Pair[t] \in Accounts /\ Pair[t] \notin Holders
                        /\ Pair[t] # Pad /\ Pair[t] # Router
  /\ \A s, t \in Tokens : s # t => Pair[s] # Pair[t]
BY PoolAssumption DEF Accounts, Holders

(* The ledgers the proofs below read. *)
LEMMA BooksTypes ==
  ASSUME BooksOK
  PROVE  /\ usdc \in Ledger /\ bal \in [Tokens -> Ledger]
         /\ \A t \in Tokens :
              /\ bal[t] \in Ledger
              /\ \A a \in Accounts : bal[t][a] \in Nat
              /\ curves[t] \in CurveRecord /\ CurveFit(curves[t])
              /\ pendingCreatorFees[t] \in Nat
              /\ reserves[t].token \in Nat /\ reserves[t].usdc \in Nat
         /\ \A a \in Accounts : usdc[a] \in Nat
BY DEF BooksOK, PoolTypeOK, Ledger

(* The books after curve t has moved to d and fees have been accrued. *)
LEMMA CurveMoved ==
  ASSUME NEW t \in Tokens, BooksOK, NEW d \in CurveRecord, CurveFit(d),
         NEW pf \in Nat, NEW cf \in Nat,
         curves' = [curves EXCEPT ![t] = d],
         pendingFees' = pendingFees + pf,
         pendingCreatorFees' = [pendingCreatorFees EXCEPT ![t] = @ + cf]
  PROVE  /\ curves' \in [Tokens -> CurveRecord]
         /\ pendingFees' \in Nat
         /\ pendingCreatorFees' \in [Tokens -> Nat]
         /\ \A s \in Tokens : CurveFit(curves'[s])
<1>1. /\ curves \in [Tokens -> CurveRecord] /\ pendingFees \in Nat
      /\ pendingCreatorFees \in [Tokens -> Nat]
      /\ \A s \in Tokens : CurveFit(curves[s])
  BY DEF BooksOK
<1>2. curves'[t] = d /\ \A s \in Tokens : s # t => curves'[s] = curves[s]
  BY <1>1
<1>3. \A s \in Tokens : CurveFit(curves'[s])
  BY <1>1, <1>2, Zenon
<1> QED BY <1>1, <1>3

(* USDC from a holder to the launchpad and launch tokens the other way:    *)
(* no pair has less of either.                                             *)
LEMMA PaidAndSent ==
  ASSUME NEW t \in Tokens, BooksOK, NEW payer \in Holders, NEW to,
         NEW x \in Nat, x <= usdc[payer], NEW y \in Nat, y <= bal[t][Pad],
         NEW paid, paid = Moved(usdc, payer, Pad, x),
         NEW sent, sent = Moved(bal[t], Pad, to, y)
  PROVE  /\ paid \in Ledger /\ sent \in Ledger
         /\ \A s \in Tokens : paid[Pair[s]] \in Nat /\ paid[Pair[s]] >= usdc[Pair[s]]
         /\ sent[Pair[t]] \in Nat /\ sent[Pair[t]] >= bal[t][Pair[t]]
<1>1. /\ usdc \in Ledger /\ bal[t] \in Ledger /\ payer \in Accounts /\ Pad \in Accounts
      /\ \A s \in Tokens : Pair[s] \in Accounts /\ Pair[s] # payer /\ Pair[s] # Pad
  BY BooksTypes, AccountsApart
<1>2. paid \in Ledger /\ sent \in Ledger
  BY <1>1, MovedLedger
<1>3. ASSUME NEW s \in Tokens
      PROVE  paid[Pair[s]] \in Nat /\ paid[Pair[s]] >= usdc[Pair[s]]
  BY <1>1, MovedGains
<1>4. sent[Pair[t]] \in Nat /\ sent[Pair[t]] >= bal[t][Pair[t]]
  BY <1>1, MovedGains
<1> QED BY <1>2, <1>3, <1>4

(* A buy on a curve, the sell-out buy and its graduation included. *)
LEMMA CurveBuyBooks ==
  ASSUME NEW t \in Tokens, NEW payer \in Holders, NEW usdcIn \in Nat, NEW to \in Accounts,
         BooksOK, CurveBuy(t, payer, usdcIn, to)
  PROVE  BooksOK'
<1> DEFINE c == curves[t]
           q == CalcBuy(c.virtualUsdc, c.virtualTokens, CURVE_SUPPLY - c.tokensSold,
                        usdcIn, c.creatorFeeBps)
           paid == Moved(usdc, payer, Pad, q.usdcSpent)
           sent == Moved(bal[t], Pad, to, q.tokensOut)
           d == Bought(c, q)
           raised == d.virtualUsdc - VIRTUAL_USDC_0
<1>1. /\ ~c.graduated /\ q.ok
      /\ usdc[payer] >= q.usdcSpent /\ bal[t][Pad] >= q.tokensOut
      /\ curves' = [curves EXCEPT ![t] = d]
      /\ pendingFees' = pendingFees + q.platformFee
      /\ pendingCreatorFees' = [pendingCreatorFees EXCEPT ![t] = @ + q.creatorFee]
      /\ IF q.graduates
           THEN Graduation(t, raised, paid, sent)
           ELSE /\ usdc' = paid
                /\ bal' = [bal EXCEPT ![t] = sent]
                /\ UNCHANGED <<graduated, reserves, lp, lpSupply>>
  BY Zenon DEF CurveBuy
<1>2. /\ usdc \in Ledger /\ bal \in [Tokens -> Ledger] /\ bal[t] \in Ledger
      /\ \A s \in Tokens : bal[s] \in Ledger
      /\ \A s \in Tokens : \A a \in Accounts : bal[s][a] \in Nat
      /\ c \in CurveRecord /\ CurveFit(c)
      /\ PoolTypeOK /\ ReservesBacked
  BY BooksTypes DEF BooksOK
<1>3. /\ q.tokensOut \in Nat /\ q.platformFee \in Nat /\ q.creatorFee \in Nat
      /\ q.usdcSpent \in Nat /\ q.graduates \in BOOLEAN
      /\ d \in CurveRecord /\ CurveFit(d)
  BY <1>1, <1>2, BuyKeepsShape
<1>4. raised \in Nat
  BY <1>3, LaunchpadAssumption DEF CurveRecord, CurveFit, CurveShape
<1> HIDE DEF q, d, raised
<1>5. /\ curves' \in [Tokens -> CurveRecord]
      /\ pendingFees' \in Nat
      /\ pendingCreatorFees' \in [Tokens -> Nat]
      /\ \A s \in Tokens : CurveFit(curves'[s])
  BY <1>1, <1>3, CurveMoved
<1>6. /\ paid \in Ledger /\ sent \in Ledger
      /\ \A s \in Tokens : paid[Pair[s]] \in Nat /\ paid[Pair[s]] >= usdc[Pair[s]]
      /\ sent[Pair[t]] \in Nat /\ sent[Pair[t]] >= bal[t][Pair[t]]
  BY <1>1, <1>3, PaidAndSent, SMTT(40)
<1> HIDE DEF paid, sent
<1>7. CASE ~q.graduates
  <2>1. /\ usdc' = paid /\ bal' = [bal EXCEPT ![t] = sent]
        /\ UNCHANGED <<graduated, reserves, lp, lpSupply>>
    BY <1>1, <1>7
  <2>2. usdc' \in Ledger /\ bal' \in [Tokens -> Ledger]
    BY <1>2, <1>6, <2>1
  <2>3. PoolTypeOK'
    BY <1>2, <2>1, <2>2 DEF PoolTypeOK, Ledger
  <2>4. ASSUME NEW s \in Tokens
        PROVE  /\ bal'[s][Pair[s]] \in Nat /\ bal'[s][Pair[s]] >= bal[s][Pair[s]]
               /\ usdc'[Pair[s]] \in Nat /\ usdc'[Pair[s]] >= usdc[Pair[s]]
    BY <1>2, <1>6, <2>1, AccountsApart
  <2>5. ReservesBacked'
    BY <1>2, <2>1, <2>4, GainsBacked
  <2> QED BY <1>5, <2>3, <2>5 DEF BooksOK
<1>8. CASE q.graduates
  <2> DEFINE usdcAfter == Moved(paid, Pad, Pair[t], raised)
             balAfter == Moved(sent, Pad, Pair[t], POOL_SUPPLY)
  <2>1. /\ paid[Pad] >= raised /\ sent[Pad] >= POOL_SUPPLY
        /\ graduated' = [graduated EXCEPT ![t] = TRUE]
        /\ usdc' = usdcAfter
        /\ bal' = [bal EXCEPT ![t] = balAfter]
        /\ MintTo(t, Dead, balAfter[Pair[t]], usdcAfter[Pair[t]])
    BY <1>1, <1>8 DEF Graduation
  <2>2. usdcAfter \in Ledger
    BY <1>4, <1>6, <2>1, AccountsApart, MovedLedger
  <2>3. balAfter \in Ledger
    BY <1>6, <2>1, AccountsApart, LaunchpadAssumption, MovedLedger
  <2>4. ASSUME NEW s \in Tokens
        PROVE  usdcAfter[Pair[s]] \in Nat /\ usdcAfter[Pair[s]] >= paid[Pair[s]]
    BY <1>4, <1>6, AccountsApart, MovedGains
  <2> HIDE DEF usdcAfter, balAfter
  <2>5. balAfter[Pair[t]] \in Nat /\ usdcAfter[Pair[t]] \in Nat
    BY <2>2, <2>3, AccountsApart DEF Ledger
  <2>6. /\ lp' \in [Tokens -> Ledger] /\ lpSupply' \in [Tokens -> Int]
        /\ reserves' \in [Tokens -> [token : Nat, usdc : Nat]]
    BY <1>2, <2>1, <2>5, AccountsApart, MintToType
  <2>7. usdc' \in Ledger /\ bal' \in [Tokens -> Ledger]
    BY <1>2, <2>1, <2>2, <2>3
  <2>8. graduated' \in [Tokens -> BOOLEAN]
    BY <1>2, <2>1 DEF PoolTypeOK
  <2>9. PoolTypeOK'
    BY <2>6, <2>7, <2>8 DEF PoolTypeOK, Ledger
  <2>10. bal'[t] = balAfter /\ \A s \in Tokens : s # t => bal'[s] = bal[s]
    BY <1>2, <2>1
  <2>11. reserves' = Synced(t, bal'[t][Pair[t]], usdc'[Pair[t]])
    BY <2>1, <2>10 DEF MintTo
  <2>12. ASSUME NEW s \in Tokens, s # t
         PROVE  /\ bal'[s] = bal[s]
                /\ usdc'[Pair[s]] \in Nat /\ usdc'[Pair[s]] >= usdc[Pair[s]]
    <3>1. /\ usdcAfter[Pair[s]] \in Nat /\ usdcAfter[Pair[s]] >= paid[Pair[s]]
          /\ paid[Pair[s]] \in Nat /\ paid[Pair[s]] >= usdc[Pair[s]]
          /\ usdc[Pair[s]] \in Nat
      BY <1>6, <2>4, BooksTypes, AccountsApart
    <3> QED BY <2>1, <2>10, <2>12, <3>1
  <2>13. ReservesBacked'
    BY <1>2, <2>1, <2>5, <2>10, <2>11, <2>12, SyncedBacked
  <2> QED BY <1>5, <2>9, <2>13 DEF BooksOK
<1> QED BY <1>7, <1>8

-----------------------------------------------------------------------------
(* USDC sent by anyone but a pair leaves the assets as they should be. *)
LEMMA UsdcMoved ==
  ASSUME BooksOK, NEW from \in Accounts, from \notin Pairs, NEW to, NEW x \in Nat,
         x <= usdc[from], usdc' = Moved(usdc, from, to, x),
         UNCHANGED <<bal, graduated, reserves, lp, lpSupply>>
  PROVE  PoolTypeOK' /\ ReservesBacked'
<1>1. usdc \in Ledger /\ PoolTypeOK /\ ReservesBacked
  BY BooksTypes DEF BooksOK
<1>2. usdc' \in Ledger
  BY <1>1, MovedLedger
<1>3. PoolTypeOK'
  BY <1>1, <1>2 DEF PoolTypeOK, Ledger
<1>4. ASSUME NEW s \in Tokens
      PROVE  /\ bal'[s][Pair[s]] \in Nat /\ bal'[s][Pair[s]] >= bal[s][Pair[s]]
             /\ usdc'[Pair[s]] \in Nat /\ usdc'[Pair[s]] >= usdc[Pair[s]]
  <2>1. Pair[s] \in Accounts /\ Pair[s] # from
    BY AccountsApart DEF Pairs
  <2>2. usdc'[Pair[s]] \in Nat /\ usdc'[Pair[s]] >= usdc[Pair[s]]
    BY <1>1, <2>1, MovedGains
  <2>3. bal[s][Pair[s]] \in Nat
    BY <2>1, BooksTypes
  <2> QED BY <2>2, <2>3
<1>5. ReservesBacked'
  BY <1>1, <1>4, GainsBacked
<1> QED BY <1>3, <1>5

(* A sell on a curve. *)
LEMMA SellBooks ==
  ASSUME NEW t \in Tokens, NEW who \in Holders, NEW tokensIn \in Nat, NEW to \in Accounts,
         BooksOK, Sell(t, who, tokensIn, to)
  PROVE  BooksOK'
<1> DEFINE c == curves[t]
           q == CalcSell(c.virtualUsdc, c.virtualTokens, c.tokensSold, tokensIn,
                         c.creatorFeeBps)
           d == SoldBack(c, q, tokensIn)
           back == Moved(bal[t], who, Pad, tokensIn)
           paid == Moved(usdc, Pad, to, q.usdcOut)
<1>1. /\ ~c.graduated /\ q.ok
      /\ bal[t][who] >= tokensIn /\ usdc[Pad] >= q.usdcOut
      /\ curves' = [curves EXCEPT ![t] = d]
      /\ pendingFees' = pendingFees + q.platformFee
      /\ pendingCreatorFees' = [pendingCreatorFees EXCEPT ![t] = @ + q.creatorFee]
      /\ bal' = [bal EXCEPT ![t] = back]
      /\ usdc' = paid
      /\ UNCHANGED <<graduated, reserves, lp, lpSupply>>
  BY Zenon DEF Sell
<1>2. /\ usdc \in Ledger /\ bal \in [Tokens -> Ledger] /\ bal[t] \in Ledger
      /\ \A s \in Tokens : \A a \in Accounts : bal[s][a] \in Nat
      /\ c \in CurveRecord /\ CurveFit(c)
      /\ PoolTypeOK /\ ReservesBacked
  BY BooksTypes DEF BooksOK
<1>3. /\ q.platformFee \in Nat /\ q.creatorFee \in Nat /\ q.usdcOut \in Nat
      /\ d \in CurveRecord /\ CurveFit(d)
  BY <1>1, <1>2, SellKeepsShape
<1> HIDE DEF q, d
<1>4. /\ curves' \in [Tokens -> CurveRecord]
      /\ pendingFees' \in Nat
      /\ pendingCreatorFees' \in [Tokens -> Nat]
      /\ \A s \in Tokens : CurveFit(curves'[s])
  BY <1>1, <1>3, CurveMoved
<1>5. who \in Accounts /\ Pad \in Accounts
  BY AccountsApart
<1>6. back \in Ledger
  BY <1>1, <1>2, <1>5, MovedLedger
<1>7. paid \in Ledger
  BY <1>1, <1>2, <1>3, <1>5, MovedLedger
<1>8. ASSUME NEW s \in Tokens
      PROVE  paid[Pair[s]] \in Nat /\ paid[Pair[s]] >= usdc[Pair[s]]
  BY <1>2, <1>3, AccountsApart, MovedGains
<1>9. back[Pair[t]] \in Nat /\ back[Pair[t]] >= bal[t][Pair[t]]
  BY <1>2, AccountsApart, MovedGains
<1> HIDE DEF back, paid
<1>10. usdc' \in Ledger /\ bal' \in [Tokens -> Ledger]
  BY <1>1, <1>2, <1>6, <1>7
<1>11. PoolTypeOK'
  BY <1>1, <1>2, <1>10 DEF PoolTypeOK, Ledger
<1>12. ASSUME NEW s \in Tokens
       PROVE  /\ bal'[s][Pair[s]] \in Nat /\ bal'[s][Pair[s]] >= bal[s][Pair[s]]
              /\ usdc'[Pair[s]] \in Nat /\ usdc'[Pair[s]] >= usdc[Pair[s]]
  BY <1>1, <1>2, <1>8, <1>9, AccountsApart
<1>13. ReservesBacked'
  BY <1>1, <1>2, <1>12, GainsBacked
<1> QED BY <1>4, <1>11, <1>13 DEF BooksOK

(* A pool buy through the router: the pair pays tokens out and is synced. *)
LEMMA RouterBuyBooks ==
  ASSUME NEW t \in Tokens, NEW who \in Holders, NEW usdcIn \in Nat, NEW to \in Accounts,
         BooksOK, RouterBuy(t, who, usdcIn, to)
  PROVE  BooksOK'
<1> DEFINE q    == RouterBuyQuote(reserves[t].token, reserves[t].usdc, usdcIn,
                                  curves[t].creatorFeeBps)
           fees == q.platformFee + q.creatorFee
           half == Moved(usdc, who, Pad, fees)
           paid == Moved(half, who, Pair[t], q.net)
           sent == Moved(bal[t], Pair[t], to, q.tokensOut)
<1>1. /\ q.ok /\ usdc[who] >= usdcIn
      /\ AccrueTradeFees(t, q.platformFee, q.creatorFee)
      /\ bal[t][Pair[t]] >= q.tokensOut
      /\ SwapTo(t, q.tokensOut, 0, sent[Pair[t]], paid[Pair[t]])
      /\ usdc' = paid
      /\ bal' = [bal EXCEPT ![t] = sent]
      /\ UNCHANGED <<graduated, lp, lpSupply, curves>>
  BY Zenon DEF RouterBuy
<1>2. /\ usdc \in Ledger /\ bal \in [Tokens -> Ledger] /\ bal[t] \in Ledger
      /\ curves[t] \in CurveRecord /\ CurveFit(curves[t])
      /\ reserves[t].token \in Nat /\ reserves[t].usdc \in Nat
      /\ \A a \in Accounts : usdc[a] \in Nat
      /\ PoolTypeOK /\ ReservesBacked
  BY BooksTypes DEF BooksOK
<1>3. curves[t].creatorFeeBps \in Nat
  BY <1>2 DEF CurveRecord
<1>4. /\ q.platformFee \in Nat /\ q.creatorFee \in Nat /\ q.net \in Nat
      /\ q.tokensOut \in Nat
      /\ q.platformFee + q.creatorFee + q.net = usdcIn
  <2>1. PoolBuyFacts(q, usdcIn)
    BY <1>1, <1>2, <1>3, RouterBuyFacts
  <2> QED BY <2>1 DEF PoolBuyFacts
<1> HIDE DEF q
<1>5. /\ pendingFees' \in Nat
      /\ pendingCreatorFees' \in [Tokens -> Nat]
      /\ curves' = curves
  BY <1>1, <1>4 DEF AccrueTradeFees, BooksOK
<1>6. /\ who \in Accounts /\ who # Pad /\ Pad \in Accounts
      /\ \A s \in Tokens : /\ Pair[s] \in Accounts /\ Pair[s] # who
                           /\ s # t => Pair[s] # Pair[t]
  BY AccountsApart
<1>7. fees \in Nat /\ fees <= usdc[who] /\ q.net <= usdc[who] - fees
  BY <1>1, <1>2, <1>4, <1>6
<1> HIDE DEF fees
<1>8. half \in Ledger /\ half[who] = usdc[who] - fees
  BY <1>2, <1>6, <1>7, MovedLedger
<1>9. \A s \in Tokens : half[Pair[s]] \in Nat /\ half[Pair[s]] >= usdc[Pair[s]]
  BY <1>2, <1>6, <1>7, MovedGains
<1> HIDE DEF half
<1>10. paid \in Ledger
  BY <1>4, <1>6, <1>7, <1>8, MovedLedger
<1>11. \A s \in Tokens : paid[Pair[s]] \in Nat /\ paid[Pair[s]] >= half[Pair[s]]
  BY <1>4, <1>6, <1>8, MovedGains
<1>12. sent \in Ledger /\ sent[Pair[t]] \in Nat
  <2>1. sent \in Ledger
    BY <1>1, <1>2, <1>4, <1>6, MovedLedger
  <2> QED BY <1>6, <2>1 DEF Ledger
<1> HIDE DEF paid, sent
<1>13. reserves' = Synced(t, sent[Pair[t]], paid[Pair[t]])
  BY <1>1 DEF SwapTo
<1>14. reserves' \in [Tokens -> [token : Nat, usdc : Nat]]
  BY <1>2, <1>11, <1>12, <1>13, SyncedType
<1>15. usdc' \in Ledger /\ bal' \in [Tokens -> Ledger] /\ bal'[t] = sent
  BY <1>1, <1>2, <1>10, <1>12
<1>16. PoolTypeOK'
  BY <1>1, <1>2, <1>14, <1>15 DEF PoolTypeOK, Ledger
<1>17. ASSUME NEW s \in Tokens, s # t
       PROVE  /\ bal'[s] = bal[s]
              /\ usdc'[Pair[s]] \in Nat /\ usdc'[Pair[s]] >= usdc[Pair[s]]
  <2>1. usdc[Pair[s]] \in Nat
    BY <1>2, <1>6
  <2>2. bal'[s] = bal[s]
    BY <1>1, <1>2, <1>17
  <2> QED BY <1>1, <1>9, <1>11, <2>1, <2>2
<1>18. ReservesBacked'
  BY <1>1, <1>2, <1>11, <1>12, <1>13, <1>15, <1>17, SyncedBacked
<1> QED BY <1>5, <1>16, <1>18 DEF BooksOK

(* A pool sell: the pair is paid and synced, then the router pays onwards, *)
(* to the pair itself too if that is where the seller wants it.            *)
LEMMA RouterSellBooks ==
  ASSUME NEW t \in Tokens, NEW who \in Holders, NEW tokensIn \in Nat, NEW to \in Accounts,
         BooksOK, RouterSell(t, who, tokensIn, to)
  PROVE  BooksOK'
<1> DEFINE q      == RouterSellQuote(reserves[t].token, reserves[t].usdc, tokensIn,
                                     curves[t].creatorFeeBps)
           fees   == q.platformFee + q.creatorFee
           pulled == Moved(bal[t], who, Pair[t], tokensIn)
           out    == Moved(usdc, Pair[t], Router, q.gross)
           half   == Moved(out, Router, Pad, fees)
           paid   == Moved(half, Router, to, q.usdcOut)
<1>1. /\ q.ok /\ bal[t][who] >= tokensIn
      /\ usdc[Pair[t]] >= q.gross
      /\ SwapTo(t, 0, q.gross, pulled[Pair[t]], out[Pair[t]])
      /\ AccrueTradeFees(t, q.platformFee, q.creatorFee)
      /\ bal' = [bal EXCEPT ![t] = pulled]
      /\ usdc' = paid
      /\ UNCHANGED <<graduated, lp, lpSupply, curves>>
  BY Zenon DEF RouterSell
<1>2. /\ usdc \in Ledger /\ bal \in [Tokens -> Ledger] /\ bal[t] \in Ledger
      /\ curves[t] \in CurveRecord /\ CurveFit(curves[t])
      /\ reserves[t].token \in Nat /\ reserves[t].usdc \in Nat
      /\ \A a \in Accounts : usdc[a] \in Nat
      /\ PoolTypeOK /\ ReservesBacked
  BY BooksTypes DEF BooksOK
<1>3. curves[t].creatorFeeBps \in Nat
  BY <1>2 DEF CurveRecord
<1>4. /\ q.platformFee \in Nat /\ q.creatorFee \in Nat /\ q.usdcOut \in Nat
      /\ q.gross \in Nat
      /\ q.platformFee + q.creatorFee + q.usdcOut = q.gross
  <2>1. PoolSellFacts(q)
    BY <1>1, <1>2, <1>3, RouterSellFacts
  <2> QED BY <2>1 DEF PoolSellFacts
<1> HIDE DEF q
<1>5. /\ pendingFees' \in Nat
      /\ pendingCreatorFees' \in [Tokens -> Nat]
      /\ curves' = curves
  BY <1>1, <1>4 DEF AccrueTradeFees, BooksOK
<1>6. /\ who \in Accounts /\ Pad \in Accounts /\ Router \in Accounts /\ Router # Pad
      /\ \A s \in Tokens : /\ Pair[s] \in Accounts /\ Pair[s] # who /\ Pair[s] # Router
                           /\ s # t => Pair[s] # Pair[t]
  BY AccountsApart
<1>7. fees \in Nat /\ fees + q.usdcOut = q.gross
  BY <1>4
<1> HIDE DEF fees
<1>8. out \in Ledger /\ out[Router] = usdc[Router] + q.gross
  BY <1>1, <1>2, <1>4, <1>6, MovedLedger
<1>9. \A s \in Tokens : s # t => out[Pair[s]] \in Nat /\ out[Pair[s]] >= usdc[Pair[s]]
  BY <1>2, <1>4, <1>6, MovedGains
<1>10. out[Pair[t]] \in Nat /\ fees <= out[Router] /\ q.usdcOut <= out[Router] - fees
  BY <1>2, <1>4, <1>6, <1>7, <1>8 DEF Ledger
<1> HIDE DEF out
<1>11. half \in Ledger /\ half[Router] = out[Router] - fees
  BY <1>6, <1>7, <1>8, <1>10, MovedLedger
<1>12. \A s \in Tokens : half[Pair[s]] \in Nat /\ half[Pair[s]] >= out[Pair[s]]
  BY <1>6, <1>7, <1>8, MovedGains
<1> HIDE DEF half
<1>13. paid \in Ledger
  BY <1>4, <1>6, <1>10, <1>11, MovedLedger
<1>14. \A s \in Tokens : paid[Pair[s]] \in Nat /\ paid[Pair[s]] >= half[Pair[s]]
  BY <1>4, <1>6, <1>11, MovedGains
<1>15. pulled \in Ledger /\ pulled[Pair[t]] \in Nat
  <2>1. pulled \in Ledger
    BY <1>1, <1>2, <1>6, MovedLedger
  <2> QED BY <1>6, <2>1 DEF Ledger
<1> HIDE DEF paid, pulled
<1>16. reserves' = Synced(t, pulled[Pair[t]], out[Pair[t]])
  BY <1>1 DEF SwapTo
<1>17. reserves' \in [Tokens -> [token : Nat, usdc : Nat]]
  BY <1>2, <1>10, <1>15, <1>16, SyncedType
<1>18. /\ usdc' \in Ledger /\ bal' \in [Tokens -> Ledger]
       /\ bal'[t] = pulled /\ usdc' = paid
  BY <1>1, <1>2, <1>13, <1>15
<1>19. PoolTypeOK'
  BY <1>1, <1>2, <1>17, <1>18 DEF PoolTypeOK, Ledger
<1>20. ASSUME NEW s \in Tokens, s # t
       PROVE  /\ bal'[s] = bal[s]
              /\ usdc'[Pair[s]] \in Nat /\ usdc'[Pair[s]] >= usdc[Pair[s]]
  <2>1. /\ usdc[Pair[s]] \in Nat /\ out[Pair[s]] \in Nat /\ half[Pair[s]] \in Nat
        /\ paid[Pair[s]] \in Nat
        /\ out[Pair[s]] >= usdc[Pair[s]] /\ half[Pair[s]] >= out[Pair[s]]
        /\ paid[Pair[s]] >= half[Pair[s]]
    BY <1>2, <1>6, <1>9, <1>12, <1>14, <1>20
  <2>2. bal'[s] = bal[s]
    BY <1>1, <1>2, <1>20
  <2> QED BY <1>18, <2>1, <2>2
<1>21. /\ bal'[t][Pair[t]] \in Nat /\ pulled[Pair[t]] <= bal'[t][Pair[t]]
       /\ usdc'[Pair[t]] \in Nat /\ out[Pair[t]] <= usdc'[Pair[t]]
  BY <1>10, <1>12, <1>14, <1>15, <1>18
<1>22. ReservesBacked'
  BY <1>2, <1>10, <1>15, <1>16, <1>20, <1>21, SyncedBacked
<1> QED BY <1>5, <1>19, <1>22 DEF BooksOK

(* createToken, up to the plugin's turn. *)
LEMMA CreateTokenBooks ==
  ASSUME NEW t \in Tokens, NEW who \in Users, NEW fee \in Nat, NEW plugin \in Accounts,
         NEW firstBuy, NEW maxLaunchFee,
         BooksOK, AdminOK, CreateToken(t, who, fee, plugin, firstBuy, maxLaunchFee)
  PROVE  BooksOK'
<1> DEFINE d == [NoCurve EXCEPT !.creator = who, !.creatorFeeBps = fee,
                                !.plugin = plugin,
                                !.pluginHooks = plugin \in HookPlugins]
<1>1. /\ fee <= MAX_CREATOR_FEE_BPS /\ usdc[who] >= launchFee
      /\ pendingFees' = pendingFees + launchFee
      /\ usdc' = Moved(usdc, who, Pad, launchFee)
      /\ bal' = [bal EXCEPT ![t] = Credited(@, Pad, TOTAL_SUPPLY)]
      /\ curves' = [curves EXCEPT ![t] = d]
      /\ UNCHANGED <<graduated, reserves, lp, lpSupply, pendingCreatorFees>>
      /\ plugin \notin RefusedPlugins(t)
  BY Zenon DEF CreateToken
<1>2. /\ usdc \in Ledger /\ bal \in [Tokens -> Ledger] /\ bal[t] \in Ledger
      /\ \A s \in Tokens : \A a \in Accounts : bal[s][a] \in Nat
      /\ PoolTypeOK /\ ReservesBacked
  BY BooksTypes DEF BooksOK
<1>3. /\ launchFee \in Nat /\ TOTAL_SUPPLY \in Nat /\ who \in Accounts /\ Pad \in Accounts
      /\ \A s \in Tokens : Pair[s] \in Accounts /\ Pair[s] # who /\ Pair[s] # Pad
  BY AccountsApart, LaunchpadAssumption DEF AdminOK, TOTAL_SUPPLY
<1>4. d \in CurveRecord
  <2> DEFINE hooks == plugin \in HookPlugins
  <2>1. hooks \in BOOLEAN
    OBVIOUS
  <2>2. d = [NoCurve EXCEPT !.creator = who, !.creatorFeeBps = fee,
                            !.plugin = plugin, !.pluginHooks = hooks]
    OBVIOUS
  <2>3. plugin \in Accounts \ {Pad}
    BY <1>1 DEF RefusedPlugins
  <2> HIDE DEF hooks, d
  <2> QED BY <2>1, <2>2, <2>3, LaunchpadAssumption DEF CurveRecord, NoCurve
<1>5. CurveFit(d)
  <2>1. /\ d.virtualTokens = VIRTUAL_TOKENS_0 /\ d.virtualUsdc = VIRTUAL_USDC_0
        /\ d.tokensSold = 0 /\ d.graduated = FALSE /\ d.creatorFeeBps = fee
    BY DEF NoCurve
  <2> HIDE DEF d
  <2> QED BY <1>1, <2>1, LaunchpadAssumption DEF CurveFit, CurveShape
<1> HIDE DEF d
<1>6. /\ curves' \in [Tokens -> CurveRecord]
      /\ pendingFees' \in Nat
      /\ pendingCreatorFees' \in [Tokens -> Nat]
  BY <1>1, <1>3, <1>4 DEF BooksOK
<1>7. \A s \in Tokens : CurveFit(curves'[s])
  <2>1. curves'[t] = d /\ \A s \in Tokens : s # t => curves'[s] = curves[s]
    BY <1>1 DEF BooksOK
  <2> QED BY <1>5, <2>1, Zenon DEF BooksOK
<1>8. usdc' \in Ledger
  BY <1>1, <1>2, <1>3, MovedLedger
<1>9. bal' \in [Tokens -> Ledger]
  <2>1. Credited(bal[t], Pad, TOTAL_SUPPLY) \in Ledger
    BY <1>2, <1>3, CreditedLedger
  <2> QED BY <1>1, <1>2, <2>1
<1>10. PoolTypeOK'
  BY <1>1, <1>2, <1>8, <1>9 DEF PoolTypeOK, Ledger
<1>11. ASSUME NEW s \in Tokens
       PROVE  /\ bal'[s][Pair[s]] \in Nat /\ bal'[s][Pair[s]] >= bal[s][Pair[s]]
              /\ usdc'[Pair[s]] \in Nat /\ usdc'[Pair[s]] >= usdc[Pair[s]]
  <2>1. usdc'[Pair[s]] \in Nat /\ usdc'[Pair[s]] >= usdc[Pair[s]]
    BY <1>1, <1>2, <1>3, MovedGains
  <2>2. bal'[s][Pair[s]] = bal[s][Pair[s]]
    BY <1>1, <1>2, <1>3 DEF Credited, Ledger
  <2> QED BY <1>2, <1>3, <2>1, <2>2
<1>12. ReservesBacked'
  BY <1>1, <1>2, <1>11, GainsBacked
<1> QED BY <1>6, <1>7, <1>10, <1>12 DEF BooksOK

-----------------------------------------------------------------------------
(* What stays where nothing happens to it. *)
LEMMA BooksSame ==
  ASSUME BooksOK, UNCHANGED <<poolVars, books>>
  PROVE  BooksOK'
BY DEF BooksOK, poolVars, books, PoolTypeOK, ReservesBacked

(* The same of the administration, *)
LEMMA AdminSame ==
  ASSUME AdminOK, UNCHANGED admin
  PROVE  AdminOK'
BY DEF AdminOK, admin

(* of an open call, *)
LEMMA CallSame ==
  ASSUME CallOK, UNCHANGED <<call, saved>>
  PROVE  CallOK'
BY DEF CallOK, Entered, SavedOK

(* and of the absence of one. *)
LEMMA CallClosed ==
  ASSUME call' = NoCall
  PROVE  CallOK'
BY DEF CallOK, NoCall, Entered

(* A transaction that calls out saves a state it can return to. *)
LEMMA SnapshotSaved ==
  ASSUME BooksOK, AdminOK, saved' = Snapshot
  PROVE  SavedOK'
<1>1. saved' \in SavedState
  BY DEF Snapshot, SavedState, BooksOK, AdminOK, PoolTypeOK
<1>2. /\ saved'.curves = curves /\ saved'.reserves = reserves
      /\ saved'.bal = bal /\ saved'.usdc = usdc
  BY DEF Snapshot
<1>3. /\ \A t \in Tokens : CurveFit(curves[t])
      /\ \A t \in Tokens : /\ reserves[t].token <= bal[t][Pair[t]]
                           /\ reserves[t].usdc <= usdc[Pair[t]]
  BY DEF BooksOK, ReservesBacked
<1> QED BY <1>1, <1>2, <1>3, Zenon DEF SavedOK

(* A revert returns to it. *)
LEMMA RevertInv ==
  ASSUME IInv, RevertCall
  PROVE  IInv'
<1>1. SavedOK
  BY DEF RevertCall, IInv, CallOK
<1>2. /\ saved.usdc \in [Accounts -> Nat] /\ saved.bal \in [Tokens -> [Accounts -> Nat]]
      /\ saved.graduated \in [Tokens -> BOOLEAN]
      /\ saved.reserves \in [Tokens -> [token : Nat, usdc : Nat]]
      /\ saved.lp \in [Tokens -> [Accounts -> Nat]] /\ saved.lpSupply \in [Tokens -> Int]
      /\ saved.curves \in [Tokens -> CurveRecord] /\ saved.pendingFees \in Nat
      /\ saved.pendingCreatorFees \in [Tokens -> Nat]
      /\ saved.feeTo \in Users /\ saved.feeToSetter \in Users \cup {NoOne}
      /\ saved.launchFee \in Nat
  BY <1>1 DEF SavedOK, SavedState
<1>3. PoolTypeOK'
  BY <1>2 DEF RevertCall, PoolTypeOK
<1>4. ReservesBacked'
  BY <1>1 DEF RevertCall, ReservesBacked, SavedOK
<1>5. BooksOK'
  BY <1>1, <1>2, <1>3, <1>4 DEF RevertCall, BooksOK, SavedOK
<1>6. AdminOK'
  BY <1>2 DEF RevertCall, IInv, AdminOK
<1>7. CallOK'
  BY CallClosed DEF RevertCall
<1> QED BY <1>5, <1>6, <1>7 DEF IInv

(* Administration touches nothing but itself. *)
LEMMA AdministrationInv ==
  ASSUME IInv, Administration
  PROVE  IInv'
<1>1. AdminOK'
  <2>1. ASSUME NEW who \in Users, Initialize(who) PROVE AdminOK'
    BY <2>1 DEF Initialize, IInv, AdminOK
  <2>2. ASSUME NEW who \in Users, NEW to \in Users \cup {Pad, NoOne}, SetFeeTo(who, to)
        PROVE  AdminOK'
    BY <2>2 DEF SetFeeTo, IInv, AdminOK
  <2>3. ASSUME NEW who \in Users, NEW to \in Users \cup {NoOne}, SetFeeToSetter(who, to)
        PROVE  AdminOK'
    BY <2>3 DEF SetFeeToSetter, IInv, AdminOK
  <2>4. ASSUME NEW who \in Users, NEW fee \in LaunchFees, SetLaunchFee(who, fee)
        PROVE  AdminOK'
    BY <2>4, LaunchpadAssumption DEF SetLaunchFee, IInv, AdminOK
  <2> QED BY <2>1, <2>2, <2>3, <2>4 DEF Administration
<1>2. UNCHANGED <<poolVars, books, call, saved>>
  BY DEF Administration, Initialize, SetFeeTo, SetFeeToSetter, SetLaunchFee
<1>3. BooksOK' /\ CallOK'
  BY <1>2, BooksSame, CallSame DEF IInv
<1> QED BY <1>1, <1>3 DEF IInv

(* Creation opens a call, or closes one with the creator's first buy. *)
LEMMA CreationInv ==
  ASSUME IInv, Creation
  PROVE  IInv'
<1>0. BooksOK /\ AdminOK /\ CallOK
  BY DEF IInv
<1>1. ASSUME NEW t \in Tokens, NEW who \in Users, NEW fee \in CreatorFees,
             NEW plugin \in Accounts, NEW firstBuy \in BuyAmounts \cup {0},
             NEW maxLaunchFee \in LaunchFees,
             CreateToken(t, who, fee, plugin, firstBuy, maxLaunchFee)
      PROVE  IInv'
  <2>1. BooksOK'
    BY <1>0, <1>1, CreateTokenBooks, LaunchpadAssumption
  <2>2. AdminOK'
    BY <1>0, <1>1, AdminSame DEF CreateToken
  <2>3. SavedOK'
    BY <1>0, <1>1, SnapshotSaved DEF CreateToken
  <2>4. /\ call' \in [kind : {"none", "launch", "fees"}, token : Tokens \cup {NoOne},
                      allowance : Nat, before : Nat, firstBuy : Nat]
        /\ call'.token \in Tokens
    BY <1>1, LaunchpadAssumption DEF CreateToken
  <2> QED BY <2>1, <2>2, <2>3, <2>4 DEF IInv, CallOK
<1>2. ASSUME FinishLaunch
      PROVE  IInv'
  <2>1. /\ call.token \in Tokens /\ call.firstBuy \in Nat
    BY <1>0, <1>2 DEF FinishLaunch, CallOK, Entered
  <2>2. BooksOK'
    <3>1. CASE call.firstBuy = 0
      BY <1>0, <1>2, <3>1, BooksSame DEF FinishLaunch
    <3>2. CASE call.firstBuy # 0
      <4> DEFINE t == call.token
                 who == curves[t].creator
      <4>1. CurveBuy(t, who, call.firstBuy, who)
        BY <1>2, <3>2 DEF FinishLaunch
      <4>2. who \in Users
        BY <1>0, <2>1, <4>1 DEF CurveBuy, Launched, BooksOK, CurveRecord
      <4>3. who \in Holders /\ who \in Accounts
        BY <4>2, AccountsApart
      <4> HIDE DEF who
      <4> QED BY <1>0, <2>1, <4>1, <4>3, CurveBuyBooks
    <3> QED BY <3>1, <3>2
  <2>3. AdminOK' /\ CallOK'
    BY <1>0, <1>2, AdminSame, CallClosed DEF FinishLaunch
  <2> QED BY <2>2, <2>3 DEF IInv
<1> QED BY <1>1, <1>2 DEF Creation

(* Trading moves the books only. *)
LEMMA TradingInv ==
  ASSUME IInv, Trading
  PROVE  IInv'
<1>0. BooksOK /\ AdminOK /\ CallOK
  BY DEF IInv
<1>1. PICK t \in Tokens, who \in Holders, to \in Accounts :
        \/ \E usdcIn \in BuyAmounts : Buy(t, who, usdcIn, to) \/ RouterBuy(t, who, usdcIn, to)
        \/ \E tokensIn \in SellAmounts :
             Sell(t, who, tokensIn, to) \/ RouterSell(t, who, tokensIn, to)
  <2>1. \A who \in Holders : {who} \cup Recipients \subseteq Accounts
    BY AccountsApart, PoolAssumption
  <2> QED BY <2>1, Zenon DEF Trading
<1>3. ASSUME NEW usdcIn \in BuyAmounts, Buy(t, who, usdcIn, to)
      PROVE  BooksOK' /\ UNCHANGED <<admin, call, saved>>
  BY <1>0, <1>3, CurveBuyBooks, LaunchpadAssumption DEF Buy
<1>4. ASSUME NEW usdcIn \in BuyAmounts, RouterBuy(t, who, usdcIn, to)
      PROVE  BooksOK' /\ UNCHANGED <<admin, call, saved>>
  <2>1. BooksOK'
    BY <1>0, <1>4, RouterBuyBooks, LaunchpadAssumption
  <2> QED BY <1>4, <2>1 DEF RouterBuy
<1>5. ASSUME NEW tokensIn \in SellAmounts, Sell(t, who, tokensIn, to)
      PROVE  BooksOK' /\ UNCHANGED <<admin, call, saved>>
  <2>1. BooksOK'
    BY <1>0, <1>5, SellBooks, LaunchpadAssumption
  <2> QED BY <1>5, <2>1 DEF Sell
<1>6. ASSUME NEW tokensIn \in SellAmounts, RouterSell(t, who, tokensIn, to)
      PROVE  BooksOK' /\ UNCHANGED <<admin, call, saved>>
  <2>1. BooksOK'
    BY <1>0, <1>6, RouterSellBooks, LaunchpadAssumption
  <2> QED BY <1>6, <2>1 DEF RouterSell
<1>7. BooksOK' /\ UNCHANGED <<admin, call, saved>>
  BY <1>1, <1>3, <1>4, <1>5, <1>6
<1>8. AdminOK' /\ CallOK'
  BY <1>0, <1>7, AdminSame, CallSame
<1> QED BY <1>7, <1>8 DEF IInv

(* USDC leaving the launchpad or a holder, and accruals going down to       *)
(* natural numbers, leave the books as they should be.                     *)
LEMMA PaymentBooks ==
  ASSUME BooksOK, NEW from \in Accounts, from \notin Pairs, NEW to, NEW x \in Nat,
         x <= usdc[from], usdc' = Moved(usdc, from, to, x),
         UNCHANGED <<bal, graduated, reserves, lp, lpSupply, curves>>,
         pendingFees' \in Nat, pendingCreatorFees' \in [Tokens -> Nat]
  PROVE  BooksOK'
<1>1. PoolTypeOK' /\ ReservesBacked'
  BY UsdcMoved
<1>2. curves' \in [Tokens -> CurveRecord] /\ \A t \in Tokens : CurveFit(curves'[t])
  BY DEF BooksOK
<1> QED BY <1>1, <1>2 DEF BooksOK

(* Collections pay out of the launchpad, or open and close a call. *)
LEMMA CollectionInv ==
  ASSUME IInv, Collection
  PROVE  IInv'
<1>0. /\ BooksOK /\ AdminOK /\ CallOK
      /\ pendingFees \in Nat /\ pendingCreatorFees \in [Tokens -> Nat]
      /\ usdc \in [Accounts -> Nat]
      /\ Pad \in Accounts /\ Pad \notin Pairs
  BY AccountsApart, PoolAssumption DEF IInv, BooksOK, PoolTypeOK
<1>1. ASSUME CollectFees
      PROVE  IInv'
  <2>1. BooksOK'
    BY <1>0, <1>1, PaymentBooks DEF CollectFees
  <2> QED BY <1>0, <1>1, <2>1, AdminSame, CallSame DEF CollectFees, IInv
<1>2. ASSUME NEW t \in Tokens, CollectToPlain(t)
      PROVE  IInv'
  <2>1. pendingCreatorFees[t] \in Nat /\ pendingCreatorFees' \in [Tokens -> Nat]
    BY <1>0, <1>2 DEF CollectToPlain
  <2>2. BooksOK'
    BY <1>0, <1>2, <2>1, PaymentBooks DEF CollectToPlain
  <2> QED BY <1>0, <1>2, <2>2, AdminSame, CallSame DEF CollectToPlain, IInv
<1>3. ASSUME NEW t \in Tokens, CollectToPlugin(t)
      PROVE  IInv'
  <2>1. pendingCreatorFees[t] \in Nat /\ pendingCreatorFees' \in [Tokens -> Nat]
    BY <1>0, <1>3 DEF CollectToPlugin
  <2>2. BooksOK'
    BY <1>0, <1>3, <2>1 DEF CollectToPlugin, BooksOK, poolVars, PoolTypeOK, ReservesBacked
  <2>3. SavedOK'
    BY <1>0, <1>3, SnapshotSaved DEF CollectToPlugin
  <2>4. /\ call' \in [kind : {"none", "launch", "fees"}, token : Tokens \cup {NoOne},
                      allowance : Nat, before : Nat, firstBuy : Nat]
        /\ call'.token \in Tokens
    BY <1>0, <1>3, <2>1 DEF CollectToPlugin
  <2>5. AdminOK'
    BY <1>0, <1>3, AdminSame DEF CollectToPlugin
  <2> QED BY <2>2, <2>3, <2>4, <2>5 DEF IInv, CallOK
<1>4. ASSUME NEW amount \in 1..call.allowance, NEW to, PluginPull(amount, to)
      PROVE  IInv'
  <2>1. amount \in Nat /\ amount <= call.allowance /\ call.allowance \in Nat
    BY <1>0 DEF CallOK
  <2>2. BooksOK'
    BY <1>0, <1>4, <2>1, PaymentBooks DEF PluginPull, books
  <2>3. /\ call' \in [kind : {"none", "launch", "fees"}, token : Tokens \cup {NoOne},
                      allowance : Nat, before : Nat, firstBuy : Nat]
        /\ call'.token = call.token
    BY <1>0, <1>4, <2>1 DEF PluginPull, CallOK
  <2>4. call.token \in Tokens /\ SavedOK
    BY <1>0, <1>4 DEF PluginPull, CallOK, Entered
  <2>5. CallOK'
    BY <1>4, <2>3, <2>4 DEF PluginPull, CallOK, SavedOK
  <2> QED BY <1>0, <1>4, <2>2, <2>5, AdminSame DEF PluginPull, IInv
<1>5. ASSUME FinishFees
      PROVE  IInv'
  BY <1>0, <1>5, BooksSame, AdminSame, CallClosed DEF FinishFees, IInv
<1> QED BY <1>1, <1>2, <1>3, <1>4, <1>5 DEF Collection

(* Transfers and steps of the pairs move assets only. *)
LEMMA AssetsInv ==
  ASSUME IInv, Assets
  PROVE  IInv'
<1>0. BooksOK /\ AdminOK /\ CallOK /\ PoolTypeOK /\ ReservesBacked
  BY DEF IInv, BooksOK
<1>1. UNCHANGED <<books, admin, call, saved>>
  BY DEF Assets
<1>2. PoolTypeOK' /\ ReservesBacked'
  <2>1. ASSUME NEW from \in Holders, NEW to \in Recipients, NEW amount \in UsdcAmounts,
               TransferUsdc(from, to, amount)
        PROVE  PoolTypeOK' /\ ReservesBacked'
    <3>1. from \in Accounts /\ from \notin Pairs /\ amount \in Nat
      BY AccountsApart, PoolAssumption
    <3> QED BY <1>0, <2>1, <3>1, UsdcMoved DEF TransferUsdc
  <2>2. ASSUME NEW t \in Tokens, PoolStep(t)
        PROVE  PoolTypeOK' /\ ReservesBacked'
    BY <1>0, <2>2, PoolStepType, PoolStepBacked
  <2> QED BY <2>1, <2>2 DEF Assets
<1>3. BooksOK'
  BY <1>0, <1>1, <1>2 DEF BooksOK, books
<1> QED BY <1>0, <1>1, <1>3, AdminSame, CallSame DEF IInv

-----------------------------------------------------------------------------
(* The launchpad starts in order. *)
LEMMA InitInv == Init => IInv
<1> SUFFICES ASSUME Init PROVE IInv
  OBVIOUS
<1>1. Deployer \in Users /\ NoOne \notin Accounts
  BY LaunchpadAssumption, PoolAssumption
<1>2. PoolTypeOK
  <2>1. usdc \in [Accounts -> Nat]
    BY LaunchpadAssumption DEF Init
  <2> QED BY <2>1 DEF Init, PoolTypeOK
<1>3. \A t \in Tokens : /\ reserves[t].token = 0 /\ reserves[t].usdc = 0
                         /\ bal[t][Pair[t]] = 0 /\ usdc[Pair[t]] = 0
  <2>1. \A t \in Tokens : Pair[t] \in Accounts /\ Pair[t] \notin Holders
    BY AccountsApart
  <2> QED BY <2>1 DEF Init
<1>4. ReservesBacked
  BY <1>3 DEF ReservesBacked
<1>5. NoCurve \in CurveRecord
  BY LaunchpadAssumption DEF NoCurve, CurveRecord
<1>6. CurveFit(NoCurve)
  <2>1. /\ NoCurve.virtualTokens = VIRTUAL_TOKENS_0 /\ NoCurve.virtualUsdc = VIRTUAL_USDC_0
        /\ NoCurve.tokensSold = 0 /\ NoCurve.graduated = FALSE
        /\ NoCurve.creatorFeeBps = 0
    BY DEF NoCurve
  <2> QED BY <2>1, LaunchpadAssumption DEF CurveFit, CurveShape
<1>7. \A t \in Tokens : curves[t] = NoCurve
  BY DEF Init
<1>8. /\ curves \in [Tokens -> CurveRecord] /\ \A t \in Tokens : CurveFit(curves[t])
  BY <1>5, <1>6, <1>7 DEF Init
<1>9. BooksOK
  BY <1>2, <1>4, <1>8 DEF Init, BooksOK
<1>10. AdminOK
  BY <1>1, LaunchpadAssumption DEF Init, AdminOK
<1>11. CallOK
  BY DEF Init, CallOK, NoCall, Entered
<1> QED BY <1>9, <1>10, <1>11 DEF IInv

(* Every step keeps it in order. *)
LEMMA NextInv == IInv /\ [Next]_vars => IInv'
<1> SUFFICES ASSUME IInv, [Next]_vars PROVE IInv'
  OBVIOUS
<1>1. CASE Administration
  BY <1>1, AdministrationInv
<1>2. CASE Creation
  BY <1>2, CreationInv
<1>3. CASE Trading
  BY <1>3, TradingInv
<1>4. CASE Collection
  BY <1>4, CollectionInv
<1>5. CASE RevertCall
  BY <1>5, RevertInv
<1>6. CASE Assets
  BY <1>6, AssetsInv
<1>7. CASE UNCHANGED vars
  <2>1. UNCHANGED <<poolVars, books>> /\ UNCHANGED admin /\ UNCHANGED <<call, saved>>
    BY <1>7 DEF vars
  <2> QED BY <2>1, BooksSame, AdminSame, CallSame DEF IInv
<1> QED BY <1>1, <1>2, <1>3, <1>4, <1>5, <1>6, <1>7 DEF Next

(* The invariant, in every reachable state. *)
THEOREM Invariance == Spec => []IInv
<1>1. Init => IInv
  BY InitInv
<1>2. IInv /\ [Next]_vars => IInv'
  BY NextInv
<1> QED BY <1>1, <1>2, PTL DEF Spec

(* Every balance, reserve and accrual stays a natural number: none of the  *)
(* code's checked subtractions is ever asked for more than there is, and   *)
(* an open plugin call can always be reverted.                             *)
THEOREM TypeCorrect == Spec => []TypeOK
<1>1. IInv => TypeOK
  BY DEF IInv, BooksOK, AdminOK, CallOK, SavedOK, TypeOK
<1> QED BY <1>1, Invariance, PTL

(* Every curve keeps its shape through buys, sells, first buys inside a    *)
(* launch, reentrant plugins and reverts: in particular it has always      *)
(* raised enough to buy back all it has sold.                              *)
THEOREM CurvesKeepShape == Spec => []CurvesShaped
<1>1. IInv => CurvesShaped
  BY DEF IInv, BooksOK, CurveFit, CurvesShaped
<1> QED BY <1>1, Invariance, PTL

(* No pair ever records more than it holds, so that mint and skim never    *)
(* underflow, whatever is donated, skimmed, burned or swapped in between.  *)
THEOREM PairsBacked == Spec => []ReservesBacked
<1>1. IInv => ReservesBacked
  BY DEF IInv, BooksOK
<1> QED BY <1>1, Invariance, PTL

(* Together: the launchpad's numbers are what its code takes them for. *)
THEOREM BooksAreSound == Spec => []BooksSound
BY TypeCorrect, CurvesKeepShape, PairsBacked, PTL DEF BooksSound

-----------------------------------------------------------------------------
(***************************************************************************)
(* What the launchpad never does: pay out more than its books leave free,  *)
(* let a plugin in an open call at a curve or at the books, open a pool    *)
(* early, let anyone block its opening, let a share of it lose worth, or   *)
(* leave the course LaunchSale describes.                                  *)
(***************************************************************************)

(* What the launchpad owes is a number. *)
LEMMA OwedType ==
  ASSUME NEW fees \in Int, NEW creatorFees \in [Tokens -> Int],
         NEW cs \in [Tokens -> CurveRecord]
  PROVE  /\ Owed(fees, creatorFees, cs) \in Int
         /\ \A x \in Int : Owed(fees + x, creatorFees, cs) = Owed(fees, creatorFees, cs) + x
         /\ \A t \in Tokens : creatorFees[t] \in Int /\ Float(cs[t]) \in Int
<1> DEFINE v == [t \in Tokens |-> creatorFees[t] + Float(cs[t])]
<1>1. \A t \in Tokens : creatorFees[t] \in Int /\ Float(cs[t]) \in Int
  BY LaunchpadAssumption DEF Float, CurveRecord
<1>2. \A t \in Tokens : v[t] \in Int
  BY <1>1
<1> HIDE DEF v
<1>3. SumOver(Tokens, v) \in Int
  BY <1>2, SumInt, PoolAssumption
<1> DEFINE sum == SumOver(Tokens, v)
<1>4. /\ Owed(fees, creatorFees, cs) = fees + sum
      /\ \A x : Owed(fees + x, creatorFees, cs) = (fees + x) + sum
  BY DEF Owed, v
<1>5. sum \in Int
  BY <1>3
<1> HIDE DEF sum
<1>6. ASSUME NEW x \in Int
      PROVE  Owed(fees + x, creatorFees, cs) = Owed(fees, creatorFees, cs) + x
  <2> DEFINE more == Owed(fees + x, creatorFees, cs) less == Owed(fees, creatorFees, cs)
  <2>1. less = fees + sum /\ more = (fees + x) + sum
    BY <1>4
  <2> HIDE DEF more, less
  <2>2. more = less + x
    BY <1>5, <2>1
  <2> QED BY <2>2 DEF more, less
<1> QED BY <1>1, <1>4, <1>5, <1>6

(* And so are its books, *)
LEMMA BooksInt ==
  ASSUME BooksOK
  PROVE  Books \in Int /\ usdc[Pad] \in Nat
<1>1. /\ pendingFees \in Int /\ pendingCreatorFees \in [Tokens -> Int]
      /\ curves \in [Tokens -> CurveRecord]
  BY DEF BooksOK
<1>2. usdc[Pad] \in Nat
  BY BooksTypes, AccountsApart
<1> QED BY <1>1, <1>2, OwedType DEF Books

(* and what it holds beyond them. *)
LEMMA SurplusType ==
  ASSUME BooksOK, CallOK
  PROVE  /\ Books \in Int /\ Surplus \in Int
         /\ usdc[Pad] \in Nat /\ call.allowance \in Nat
         /\ Surplus = usdc[Pad] - Books - call.allowance
<1>1. call.allowance \in Nat
  BY DEF CallOK
<1> QED BY <1>1, BooksInt DEF Surplus

(* Curve t moves to d, and fees are accrued or paid. *)
LEMMA BooksMove ==
  ASSUME NEW t \in Tokens, BooksOK, NEW d \in CurveRecord, NEW pf \in Int, NEW cf \in Int,
         curves' = [curves EXCEPT ![t] = d],
         pendingFees' = pendingFees + pf,
         pendingCreatorFees' = [pendingCreatorFees EXCEPT ![t] = @ + cf]
  PROVE  /\ Books' = Books + pf + cf + Float(d) - Float(curves[t])
         /\ Float(d) \in Int /\ Float(curves[t]) \in Int
<1> DEFINE v == [s \in Tokens |-> pendingCreatorFees[s] + Float(curves[s])]
           w == [s \in Tokens |-> pendingCreatorFees'[s] + Float(curves'[s])]
<1>1. /\ pendingFees \in Int /\ pendingCreatorFees \in [Tokens -> Int]
      /\ curves \in [Tokens -> CurveRecord]
  BY DEF BooksOK
<1>2. /\ pendingCreatorFees' \in [Tokens -> Int] /\ curves' \in [Tokens -> CurveRecord]
      /\ pendingCreatorFees'[t] = pendingCreatorFees[t] + cf /\ curves'[t] = d
      /\ \A s \in Tokens : s # t => /\ pendingCreatorFees'[s] = pendingCreatorFees[s]
                                    /\ curves'[s] = curves[s]
  BY <1>1
<1>3. \A s \in Tokens : /\ pendingCreatorFees[s] \in Int /\ Float(curves[s]) \in Int
                         /\ pendingCreatorFees'[s] \in Int /\ Float(curves'[s]) \in Int
  BY <1>1, <1>2, OwedType
<1>4. \A s \in Tokens : v[s] \in Int /\ w[s] \in Int /\ (s # t => w[s] = v[s])
  BY <1>2, <1>3
<1>5. /\ v[t] = pendingCreatorFees[t] + Float(curves[t])
      /\ w[t] = pendingCreatorFees[t] + cf + Float(d)
  BY <1>2
<1>6. Books = pendingFees + SumOver(Tokens, v) /\ Books' = pendingFees' + SumOver(Tokens, w)
  BY DEF Books, Owed
<1>7. /\ Float(d) \in Int /\ Float(curves[t]) \in Int /\ pendingCreatorFees[t] \in Int
  BY <1>2, <1>3
<1> HIDE DEF v, w
<1>8. SumOver(Tokens, w) = SumOver(Tokens, v) + (w[t] - v[t])
  BY <1>4, SumChange, PoolAssumption
<1>9. SumOver(Tokens, v) \in Int
  BY <1>4, SumInt, PoolAssumption
<1> DEFINE before == Books after == Books' sumV == SumOver(Tokens, v) sumW == SumOver(Tokens, w)
           f == Float(d) g == Float(curves[t]) c == pendingCreatorFees[t]
<1>10. /\ before = pendingFees + sumV /\ after = pendingFees + pf + sumW
       /\ sumW = sumV + (w[t] - v[t]) /\ v[t] = c + g /\ w[t] = c + cf + f
       /\ sumV \in Int /\ f \in Int /\ g \in Int /\ c \in Int /\ pendingFees \in Int
  BY <1>1, <1>5, <1>6, <1>7, <1>8, <1>9
<1> HIDE DEF before, after, sumV, sumW, f, g, c
<1>11. after = before + pf + cf + f - g
  BY <1>10
<1> QED BY <1>7, <1>11 DEF before, after, f, g

(* The same, with every curve where it was. *)
LEMMA BooksAccrue ==
  ASSUME NEW t \in Tokens, BooksOK, NEW pf \in Int, NEW cf \in Int,
         curves' = curves,
         pendingFees' = pendingFees + pf,
         pendingCreatorFees' = [pendingCreatorFees EXCEPT ![t] = @ + cf]
  PROVE  Books' = Books + pf + cf
<1> DEFINE c == curves[t]
<1>1. c \in CurveRecord /\ curves' = [curves EXCEPT ![t] = c]
  BY DEF BooksOK
<1> HIDE DEF c
<1>2. /\ Books' = Books + pf + cf + Float(c) - Float(curves[t])
      /\ Float(c) \in Int
  BY <1>1, BooksMove
<1> QED BY <1>2, BooksInt DEF c

(* Books that are left alone stay the same. *)
LEMMA BooksStay ==
  ASSUME UNCHANGED books
  PROVE  Books' = Books
BY DEF books, Books, Owed

-----------------------------------------------------------------------------
(* Nothing is lost; and nothing is left over where nobody sends USDC to    *)
(* the launchpad unasked.                                                  *)
Keeps(a, b) == a >= b /\ (Pad \notin Recipients => a = b)

(* A surplus before and after, from what happens to its parts. *)
LEMMA SurplusFrom ==
  ASSUME BooksOK, CallOK, BooksOK', CallOK',
         Keeps(usdc'[Pad] - usdc[Pad], (Books' - Books) + (call'.allowance - call.allowance))
  PROVE  Keeps(Surplus', Surplus)
<1>1. /\ Books \in Int /\ usdc[Pad] \in Nat /\ call.allowance \in Nat
      /\ Surplus = usdc[Pad] - Books - call.allowance
  BY SurplusType
<1>2. /\ Books' \in Int /\ usdc'[Pad] \in Nat /\ call'.allowance \in Nat
      /\ Surplus' = usdc'[Pad] - Books' - call'.allowance
  <2>1. (BooksOK /\ CallOK => /\ Books \in Int /\ usdc[Pad] \in Nat /\ call.allowance \in Nat
                              /\ Surplus = usdc[Pad] - Books - call.allowance)'
    BY SurplusType, PTL
  <2> QED BY <2>1
<1> DEFINE b == Books b1 == Books' a == call.allowance a1 == call'.allowance
           u == usdc[Pad] u1 == usdc'[Pad] s == Surplus s1 == Surplus'
<1>3. /\ b \in Int /\ b1 \in Int /\ a \in Nat /\ a1 \in Nat /\ u \in Nat /\ u1 \in Nat
      /\ s = u - b - a /\ s1 = u1 - b1 - a1
      /\ u1 - u >= (b1 - b) + (a1 - a)
      /\ Pad \notin Recipients => u1 - u = (b1 - b) + (a1 - a)
  BY <1>1, <1>2 DEF Keeps
<1> HIDE DEF b, b1, a, a1, u, u1, s, s1
<1>4. s1 >= s /\ (Pad \notin Recipients => s1 = s)
  BY <1>3
<1> QED BY <1>4 DEF s, s1, Keeps

(* USDC that comes in and goes out. *)
LEMMA PadMoves ==
  ASSUME NEW ledger \in Ledger, NEW from, NEW to, NEW x \in Nat
  PROVE  /\ ledger[Pad] \in Nat
         /\ from # Pad => Moved(ledger, from, to, x)[Pad]
                            = ledger[Pad] + (IF to = Pad THEN x ELSE 0)
         /\ Moved(ledger, Pad, to, x)[Pad] = ledger[Pad] - (IF to = Pad THEN 0 ELSE x)
<1>1. Pad \in Accounts
  BY AccountsApart
<1> QED BY <1>1 DEF Moved, Ledger

(* A curve buy brings in what the books gain, to the unit: the net on the  *)
(* curve, or, when it graduates, what the curve held and the pair is paid. *)
LEMMA CurveBuyExact ==
  ASSUME NEW t \in Tokens, NEW payer \in Holders, NEW usdcIn \in Nat, NEW to \in Accounts,
         BooksOK, CurveBuy(t, payer, usdcIn, to)
  PROVE  usdc'[Pad] - usdc[Pad] = Books' - Books
<1> DEFINE c == curves[t]
           q == CalcBuy(c.virtualUsdc, c.virtualTokens, CURVE_SUPPLY - c.tokensSold,
                        usdcIn, c.creatorFeeBps)
           paid == Moved(usdc, payer, Pad, q.usdcSpent)
           sent == Moved(bal[t], Pad, to, q.tokensOut)
           d == Bought(c, q)
           raised == d.virtualUsdc - VIRTUAL_USDC_0
           spent == q.usdcSpent
           pf == q.platformFee
           cf == q.creatorFee
<1>1. /\ c.creator # NoOne /\ ~c.graduated /\ q.ok
      /\ curves' = [curves EXCEPT ![t] = d]
      /\ pendingFees' = pendingFees + q.platformFee
      /\ pendingCreatorFees' = [pendingCreatorFees EXCEPT ![t] = @ + q.creatorFee]
      /\ IF q.graduates
           THEN Graduation(t, raised, paid, sent)
           ELSE usdc' = paid
  BY Zenon DEF CurveBuy, Launched
<1>2. usdc \in Ledger /\ c \in CurveRecord /\ CurveFit(c)
  BY BooksTypes
<1>3. /\ pf \in Nat /\ cf \in Nat /\ spent \in Nat
      /\ d \in CurveRecord /\ CurveFit(d)
  BY <1>1, <1>2, BuyKeepsShape
<1>4. /\ d.virtualUsdc = c.virtualUsdc + (spent - pf - cf)
      /\ d.creator = c.creator /\ d.graduated = q.graduates
  BY <1>2 DEF CurveRecord, Bought
<1>5. /\ c.virtualUsdc \in Nat /\ d.virtualUsdc \in Nat /\ VIRTUAL_USDC_0 \in Nat
      /\ raised \in Nat
  BY <1>2, <1>3, LaunchpadAssumption DEF CurveRecord, CurveFit, CurveShape
<1>6. /\ Float(c) = c.virtualUsdc - VIRTUAL_USDC_0
      /\ Float(d) = IF q.graduates THEN 0 ELSE raised
  BY <1>1, <1>4 DEF Float
<1>7. Books' = Books + pf + cf + Float(d) - Float(c)
  <2> HIDE DEF d, q
  <2>1. pf \in Int /\ cf \in Int
    BY <1>3
  <2> QED BY <1>1, <1>3, <2>1, BooksMove
<1>8. paid[Pad] = usdc[Pad] + spent /\ usdc[Pad] \in Nat /\ paid \in Ledger
  <2>1. payer # Pad
    BY AccountsApart
  <2>2. paid[Pad] = usdc[Pad] + spent /\ usdc[Pad] \in Nat
    BY <1>2, <1>3, <2>1, PadMoves
  <2>3. usdc[payer] >= q.usdcSpent /\ bal[t][Pad] >= q.tokensOut
    BY Zenon DEF CurveBuy
  <2>4. q.tokensOut \in Nat
    BY <1>1, <1>2, BuyKeepsShape
  <2>5. paid \in Ledger
    BY <1>3, <2>3, <2>4, PaidAndSent
  <2> QED BY <2>2, <2>5
<1>9. Books \in Int
  BY BooksInt
<1>10. /\ q.graduates => usdc'[Pad] = usdc[Pad] + spent - raised
       /\ ~q.graduates => usdc'[Pad] = usdc[Pad] + spent
  <2> HIDE DEF raised, paid, sent, d, q
  <2>1. ASSUME q.graduates PROVE usdc'[Pad] = usdc[Pad] + spent - raised
    <3>1. usdc' = Moved(paid, Pad, Pair[t], raised)
      BY <1>1, <2>1 DEF Graduation
    <3>2. Pair[t] # Pad
      BY AccountsApart
    <3>3. usdc'[Pad] = paid[Pad] - raised
      BY <1>5, <1>8, <3>1, <3>2, PadMoves
    <3> QED BY <1>3, <1>5, <1>8, <3>3
  <2>2. ASSUME ~q.graduates PROVE usdc'[Pad] = usdc[Pad] + spent
    BY <1>1, <1>8, <2>2
  <2> QED BY <2>1, <2>2, Zenon
<1> DEFINE b == Books b1 == Books' u == usdc[Pad] u1 == usdc'[Pad] f == Float(d) g == Float(c)
           v == c.virtualUsdc v1 == d.virtualUsdc grad == q.graduates
<1>11. /\ b1 = b + pf + cf + f - g /\ b \in Int /\ u \in Nat
       /\ grad => u1 = u + spent - raised
       /\ ~grad => u1 = u + spent
       /\ g = v - VIRTUAL_USDC_0 /\ f = IF grad THEN 0 ELSE raised
       /\ v1 = v + (spent - pf - cf) /\ raised = v1 - VIRTUAL_USDC_0
       /\ v \in Nat /\ v1 \in Nat
  BY <1>4, <1>5, <1>6, <1>7, <1>8, <1>9, <1>10
<1> HIDE DEF b, b1, u, u1, f, g, v, v1, raised, spent, pf, cf, d, q, c, grad, paid, sent
<1>12. u1 - u = b1 - b
  BY <1>3, <1>5, <1>11
<1> QED BY <1>12 DEF b, b1, u, u1

(* A curve sell pays out what the books lose, or pays it to the launchpad. *)
LEMMA SellCovered ==
  ASSUME NEW t \in Tokens, NEW who \in Holders, NEW tokensIn \in Nat, NEW to \in Accounts,
         BooksOK, Sell(t, who, tokensIn, to), Pad \notin Recipients => to # Pad
  PROVE  Keeps(usdc'[Pad] - usdc[Pad], Books' - Books)
<1> DEFINE c == curves[t]
           q == CalcSell(c.virtualUsdc, c.virtualTokens, c.tokensSold, tokensIn,
                         c.creatorFeeBps)
           d == SoldBack(c, q, tokensIn)
           pf == q.platformFee
           cf == q.creatorFee
           gross == q.gross
           out == q.usdcOut
<1>1. /\ c.creator # NoOne /\ ~c.graduated /\ q.ok
      /\ curves' = [curves EXCEPT ![t] = d]
      /\ pendingFees' = pendingFees + q.platformFee
      /\ pendingCreatorFees' = [pendingCreatorFees EXCEPT ![t] = @ + q.creatorFee]
      /\ usdc' = Moved(usdc, Pad, to, q.usdcOut)
  BY Zenon DEF Sell, Launched
<1>2. usdc \in Ledger /\ c \in CurveRecord /\ CurveFit(c)
  BY BooksTypes
<1>3. d \in CurveRecord
  BY <1>1, <1>2, SellKeepsShape
<1>4. /\ gross \in Nat /\ pf \in Nat /\ cf \in Nat /\ out \in Nat
      /\ gross = pf + cf + out
  <2>1. /\ c.virtualUsdc \in Nat /\ c.virtualTokens \in Nat /\ c.tokensSold \in Nat
        /\ c.creatorFeeBps \in Nat /\ 0 < c.virtualTokens
    BY <1>2, LaunchpadAssumption DEF CurveRecord, CurveFit, CurveShape
  <2>2. SellFacts(q, c.virtualUsdc, c.virtualTokens, c.tokensSold, tokensIn)
    BY <1>1, <2>1, CalcSellFacts
  <2> QED BY <2>2 DEF SellFacts
<1>5. /\ d.virtualUsdc = c.virtualUsdc - gross
      /\ d.creator = c.creator /\ d.graduated = c.graduated
      /\ c.virtualUsdc \in Nat /\ d.virtualUsdc \in Nat /\ VIRTUAL_USDC_0 \in Nat
  BY <1>2, <1>3, LaunchpadAssumption DEF CurveRecord, SoldBack
<1>6. /\ Float(c) = c.virtualUsdc - VIRTUAL_USDC_0
      /\ Float(d) = d.virtualUsdc - VIRTUAL_USDC_0
  BY <1>1, <1>5 DEF Float
<1>7. Books' = Books + pf + cf + Float(d) - Float(c)
  <2> HIDE DEF d, q
  <2>1. pf \in Int /\ cf \in Int
    BY <1>4
  <2> QED BY <1>1, <1>3, <2>1, BooksMove
<1>8. usdc[Pad] \in Nat /\ Keeps(usdc'[Pad], usdc[Pad] - out)
  BY <1>1, <1>2, <1>4, PadMoves DEF Keeps
<1>9. Books \in Int /\ usdc'[Pad] \in Int
  BY <1>1, <1>2, <1>4, BooksInt, PadMoves
<1> DEFINE b == Books b1 == Books' u == usdc[Pad] u1 == usdc'[Pad] f == Float(d) g == Float(c)
           v == c.virtualUsdc v1 == d.virtualUsdc
<1>10. /\ b1 = b + pf + cf + f - g /\ b \in Int /\ u \in Nat /\ u1 \in Int
       /\ u1 >= u - out /\ (Pad \notin Recipients => u1 = u - out)
       /\ g = v - VIRTUAL_USDC_0 /\ f = v1 - VIRTUAL_USDC_0
       /\ v1 = v - gross /\ v \in Nat /\ v1 \in Nat
  BY <1>5, <1>6, <1>7, <1>8, <1>9 DEF Keeps
<1> HIDE DEF b, b1, u, u1, f, g, v, v1, pf, cf, gross, out, d, q, c
<1>11. u1 - u >= b1 - b /\ (Pad \notin Recipients => u1 - u = b1 - b)
  BY <1>4, <1>5, <1>10
<1> QED BY <1>11 DEF b, b1, u, u1, Keeps

(* A pool trade brings in the fees it accrues. *)
LEMMA RouterBuyCovered ==
  ASSUME NEW t \in Tokens, NEW who \in Holders, NEW usdcIn \in Nat, NEW to \in Accounts,
         BooksOK, RouterBuy(t, who, usdcIn, to)
  PROVE  usdc'[Pad] - usdc[Pad] = Books' - Books
<1> DEFINE q    == RouterBuyQuote(reserves[t].token, reserves[t].usdc, usdcIn,
                                  curves[t].creatorFeeBps)
           fees == q.platformFee + q.creatorFee
           half == Moved(usdc, who, Pad, fees)
           pf == q.platformFee
           cf == q.creatorFee
<1>1. /\ q.ok /\ usdc[who] >= usdcIn
      /\ pendingFees' = pendingFees + pf
      /\ pendingCreatorFees' = [pendingCreatorFees EXCEPT ![t] = @ + cf]
      /\ usdc' = Moved(half, who, Pair[t], q.net)
      /\ curves' = curves
  BY Zenon DEF RouterBuy, AccrueTradeFees
<1>2. /\ usdc \in Ledger /\ usdc[who] \in Nat
      /\ curves[t] \in CurveRecord /\ curves \in [Tokens -> CurveRecord]
      /\ reserves[t].token \in Nat /\ reserves[t].usdc \in Nat
  BY BooksTypes, AccountsApart DEF BooksOK
<1>3. pf \in Nat /\ cf \in Nat /\ q.net \in Nat /\ pf + cf + q.net = usdcIn
  <2>1. curves[t].creatorFeeBps \in Nat
    BY <1>2 DEF CurveRecord
  <2>2. PoolBuyFacts(q, usdcIn)
    BY <1>1, <1>2, <2>1, RouterBuyFacts
  <2> QED BY <2>2 DEF PoolBuyFacts
<1> HIDE DEF q
<1>4. /\ who \in Accounts /\ who # Pad /\ Pad \in Accounts /\ Pair[t] # Pad
  BY AccountsApart
<1>5. half \in Ledger /\ half[Pad] = usdc[Pad] + pf + cf /\ usdc[Pad] \in Nat
  <2>1. fees \in Nat /\ fees <= usdc[who]
    BY <1>1, <1>2, <1>3
  <2>2. half \in Ledger
    BY <1>2, <1>4, <2>1, MovedLedger
  <2>3. half[Pad] = usdc[Pad] + fees /\ usdc[Pad] \in Nat
    BY <1>2, <1>4, <2>1, PadMoves
  <2> QED BY <1>3, <2>2, <2>3
<1> HIDE DEF half
<1>6. usdc'[Pad] = usdc[Pad] + pf + cf
  BY <1>1, <1>3, <1>4, <1>5, PadMoves
<1>7. Books' = Books + pf + cf
  <2>1. pf \in Int /\ cf \in Int
    BY <1>3
  <2> QED BY <1>1, <2>1, BooksAccrue
<1> QED BY <1>3, <1>5, <1>6, <1>7, BooksInt

(* So does a sell, and more if it is paid out to the launchpad. *)
LEMMA RouterSellCovered ==
  ASSUME NEW t \in Tokens, NEW who \in Holders, NEW tokensIn \in Nat, NEW to \in Accounts,
         BooksOK, RouterSell(t, who, tokensIn, to), Pad \notin Recipients => to # Pad
  PROVE  Keeps(usdc'[Pad] - usdc[Pad], Books' - Books)
<1> DEFINE q      == RouterSellQuote(reserves[t].token, reserves[t].usdc, tokensIn,
                                     curves[t].creatorFeeBps)
           fees   == q.platformFee + q.creatorFee
           out    == Moved(usdc, Pair[t], Router, q.gross)
           half   == Moved(out, Router, Pad, fees)
           pf == q.platformFee
           cf == q.creatorFee
<1>1. /\ q.ok /\ usdc[Pair[t]] >= q.gross
      /\ pendingFees' = pendingFees + pf
      /\ pendingCreatorFees' = [pendingCreatorFees EXCEPT ![t] = @ + cf]
      /\ usdc' = Moved(half, Router, to, q.usdcOut)
      /\ curves' = curves
  BY Zenon DEF RouterSell, AccrueTradeFees
<1>2. /\ usdc \in Ledger
      /\ curves[t] \in CurveRecord /\ curves \in [Tokens -> CurveRecord]
      /\ reserves[t].token \in Nat /\ reserves[t].usdc \in Nat
  BY BooksTypes DEF BooksOK
<1>3. /\ pf \in Nat /\ cf \in Nat /\ q.usdcOut \in Nat /\ q.gross \in Nat
      /\ pf + cf + q.usdcOut = q.gross
  <2>1. curves[t].creatorFeeBps \in Nat
    BY <1>2 DEF CurveRecord
  <2>2. PoolSellFacts(q)
    BY <1>1, <1>2, <2>1, RouterSellFacts
  <2> QED BY <2>2 DEF PoolSellFacts
<1> HIDE DEF q
<1>4. /\ Pair[t] \in Accounts /\ Router \in Accounts /\ Pad \in Accounts
      /\ Router # Pad /\ Pair[t] # Pad /\ Pair[t] # Router
  BY AccountsApart
<1>5. out \in Ledger /\ out[Pad] = usdc[Pad] /\ out[Router] >= q.gross /\ usdc[Pad] \in Nat
  <2>1. out \in Ledger
    BY <1>1, <1>2, <1>3, <1>4, MovedLedger
  <2>2. out[Pad] = usdc[Pad] /\ usdc[Pad] \in Nat
    BY <1>2, <1>3, <1>4, PadMoves
  <2>3. out[Router] = usdc[Router] + q.gross
    BY <1>1, <1>2, <1>3, <1>4, MovedLedger
  <2> QED BY <1>2, <1>3, <1>4, <2>1, <2>2, <2>3 DEF Ledger
<1> HIDE DEF out
<1>6. half \in Ledger /\ half[Pad] = usdc[Pad] + pf + cf
  <2>1. fees \in Nat /\ fees <= out[Router]
    BY <1>3, <1>4, <1>5 DEF Ledger
  <2>2. half \in Ledger
    BY <1>4, <1>5, <2>1, MovedLedger
  <2>3. half[Pad] = out[Pad] + fees
    BY <1>4, <1>5, <2>1, PadMoves
  <2> QED BY <1>3, <1>5, <2>2, <2>3
<1> HIDE DEF half
<1>7. usdc'[Pad] \in Int /\ Keeps(usdc'[Pad], usdc[Pad] + pf + cf)
  BY <1>1, <1>3, <1>4, <1>5, <1>6, PadMoves DEF Keeps
<1>8. Books' = Books + pf + cf
  <2>1. pf \in Int /\ cf \in Int
    BY <1>3
  <2> QED BY <1>1, <2>1, BooksAccrue
<1> QED BY <1>3, <1>5, <1>7, <1>8, BooksInt DEF Keeps

(* A launch brings in its fee; its curve has raised nothing yet. *)
LEMMA CreateTokenExact ==
  ASSUME NEW t \in Tokens, NEW who \in Users, NEW fee \in Nat, NEW plugin \in Accounts,
         NEW firstBuy, NEW maxLaunchFee,
         BooksOK, AdminOK, CreateToken(t, who, fee, plugin, firstBuy, maxLaunchFee)
  PROVE  usdc'[Pad] - usdc[Pad] = Books' - Books
<1> DEFINE d == [NoCurve EXCEPT !.creator = who, !.creatorFeeBps = fee,
                                !.plugin = plugin,
                                !.pluginHooks = plugin \in HookPlugins]
<1>1. /\ ~Launched(t)
      /\ pendingFees' = pendingFees + launchFee
      /\ usdc' = Moved(usdc, who, Pad, launchFee)
      /\ curves' = [curves EXCEPT ![t] = d]
      /\ pendingCreatorFees' = pendingCreatorFees
  BY Zenon DEF CreateToken
<1>2. /\ usdc \in Ledger /\ curves \in [Tokens -> CurveRecord]
      /\ pendingCreatorFees \in [Tokens -> Nat] /\ launchFee \in Nat /\ who # Pad
  BY BooksTypes, AccountsApart DEF BooksOK, AdminOK
<1>3. d.virtualUsdc = VIRTUAL_USDC_0 /\ VIRTUAL_USDC_0 \in Int
  BY LaunchpadAssumption DEF NoCurve
<1>4. d \in CurveRecord
  <2>1. BooksOK'
    BY CreateTokenBooks
  <2>2. curves'[t] = d
    BY <1>1, <1>2
  <2> QED BY <2>1, <2>2 DEF BooksOK
<1> HIDE DEF d
<1>5. Float(d) = 0 /\ Float(curves[t]) = 0
  BY <1>1, <1>3 DEF Float, Launched
<1>6. Books' = Books + launchFee
  <2>1. pendingCreatorFees' = [pendingCreatorFees EXCEPT ![t] = @ + 0]
    BY <1>1, <1>2
  <2>2. launchFee \in Int /\ 0 \in Int
    BY <1>2
  <2>3. Books' = Books + launchFee + 0 + Float(d) - Float(curves[t])
    BY <1>1, <1>4, <2>1, <2>2, BooksMove
  <2> QED BY <1>2, <1>5, <2>3, BooksInt
<1>7. usdc'[Pad] = usdc[Pad] + launchFee
  BY <1>1, <1>2, PadMoves
<1> QED BY <1>2, <1>6, <1>7, BooksInt

-----------------------------------------------------------------------------
(* Only a plugin that is being paid has an allowance. *)
NoAllowance == call.kind # "fees" => call.allowance = 0

(* A step that leaves the books and the call alone and takes nothing. *)
LEMMA SurplusKept ==
  ASSUME IInv, IInv', UNCHANGED <<books, call>>, Keeps(usdc'[Pad], usdc[Pad])
  PROVE  Keeps(Surplus', Surplus)
<1>1. BooksOK /\ CallOK /\ BooksOK' /\ CallOK' /\ Books' = Books /\ call' = call
  BY BooksStay DEF IInv
<1>2. /\ Books \in Int /\ usdc[Pad] \in Nat /\ call.allowance \in Nat /\ usdc'[Pad] \in Nat
  <2>1. BooksOK' => usdc'[Pad] \in Nat
    BY AccountsApart DEF BooksOK, PoolTypeOK
  <2> QED BY <1>1, <2>1, SurplusType
<1>3. Keeps(usdc'[Pad] - usdc[Pad], (Books' - Books) + (call'.allowance - call.allowance))
  BY <1>1, <1>2 DEF Keeps
<1> QED BY <1>1, <1>3, SurplusFrom

(* A trade that covers what it books leaves the surplus. *)
LEMMA SurplusCovered ==
  ASSUME IInv, IInv', call'.allowance = call.allowance,
         Keeps(usdc'[Pad] - usdc[Pad], Books' - Books)
  PROVE  Keeps(Surplus', Surplus)
<1>1. BooksOK /\ CallOK /\ BooksOK' /\ CallOK' /\ call.allowance \in Nat
  BY SurplusType DEF IInv
<1>2. Books \in Int /\ Books' \in Int /\ usdc[Pad] \in Nat /\ usdc'[Pad] \in Nat
  <2>1. (BooksOK => Books \in Int /\ usdc[Pad] \in Nat)'
    BY BooksInt, PTL
  <2> QED BY <1>1, <2>1, BooksInt
<1> DEFINE b == Books b1 == Books' u == usdc[Pad] u1 == usdc'[Pad]
           a == call.allowance a1 == call'.allowance
<1>3. /\ b \in Int /\ b1 \in Int /\ u \in Nat /\ u1 \in Nat /\ a \in Nat /\ a1 = a
      /\ u1 - u >= b1 - b /\ (Pad \notin Recipients => u1 - u = b1 - b)
  BY <1>1, <1>2 DEF Keeps
<1> HIDE DEF b, b1, u, u1, a, a1
<1>4. /\ u1 - u >= (b1 - b) + (a1 - a)
      /\ Pad \notin Recipients => u1 - u = (b1 - b) + (a1 - a)
  BY <1>3
<1>5. Keeps(usdc'[Pad] - usdc[Pad], (Books' - Books) + (call'.allowance - call.allowance))
  BY <1>4 DEF Keeps, b, b1, u, u1, a, a1
<1> QED BY <1>1, <1>5, SurplusFrom

(* A trade covers what it books if it brings in exactly that. *)
LEMMA ExactCovers ==
  ASSUME IInv, IInv', usdc'[Pad] - usdc[Pad] = Books' - Books
  PROVE  Keeps(usdc'[Pad] - usdc[Pad], Books' - Books)
<1>1. usdc[Pad] \in Int /\ usdc'[Pad] \in Int
  BY AccountsApart DEF IInv, BooksOK, PoolTypeOK
<1> DEFINE d == Books' - Books
<1> HIDE DEF d
<1>2. usdc'[Pad] - usdc[Pad] = d
  BY DEF d
<1>3. Keeps(usdc'[Pad] - usdc[Pad], d)
  BY <1>1, <1>2 DEF Keeps
<1> QED BY <1>3 DEF d

(* Administration moves no USDC. *)
LEMMA AdministrationSurplus ==
  ASSUME IInv, IInv', Administration
  PROVE  Keeps(Surplus', Surplus)
<1>1. UNCHANGED <<poolVars, books, call, saved>>
  BY DEF Administration, Initialize, SetFeeTo, SetFeeToSetter, SetLaunchFee
<1>2. Keeps(usdc'[Pad], usdc[Pad]) /\ UNCHANGED <<books, call>>
  BY <1>1, BooksInt DEF IInv, poolVars, Keeps
<1> QED BY <1>2, SurplusKept

(* A launch costs its fee; what its first buy pays, the books gain. *)
LEMMA CreationSurplus ==
  ASSUME IInv, IInv', NoAllowance, Creation
  PROVE  Keeps(Surplus', Surplus)
<1>0. BooksOK /\ AdminOK /\ CallOK /\ Books \in Int /\ usdc[Pad] \in Nat
  BY BooksInt DEF IInv
<1>1. ASSUME NEW t \in Tokens, NEW who \in Users, NEW fee \in CreatorFees,
             NEW plugin \in Accounts, NEW firstBuy \in BuyAmounts \cup {0},
             NEW maxLaunchFee \in LaunchFees,
             CreateToken(t, who, fee, plugin, firstBuy, maxLaunchFee)
      PROVE  Keeps(Surplus', Surplus)
  <2>1. usdc'[Pad] - usdc[Pad] = Books' - Books
    <3>1. fee \in Nat
      BY LaunchpadAssumption
    <3> QED BY <1>0, <1>1, <3>1, CreateTokenExact
  <2>2. call.allowance = 0 /\ call'.allowance = 0
    BY <1>1 DEF CreateToken, Entered, NoAllowance
  <2> QED BY <2>1, <2>2, ExactCovers, SurplusCovered
<1>2. ASSUME FinishLaunch
      PROVE  Keeps(Surplus', Surplus)
  <2>1. /\ call.token \in Tokens /\ call.firstBuy \in Nat
        /\ call.allowance = 0 /\ call'.allowance = 0
    BY <1>0, <1>2 DEF FinishLaunch, CallOK, Entered, NoAllowance, NoCall
  <2>2. Keeps(usdc'[Pad] - usdc[Pad], Books' - Books)
    <3>1. CASE call.firstBuy = 0
      <4>1. usdc' = usdc /\ UNCHANGED books
        BY <1>2, <3>1 DEF FinishLaunch, poolVars
      <4> QED BY <1>0, <4>1, BooksStay DEF Keeps
    <3>2. CASE call.firstBuy # 0
      <4> DEFINE t == call.token
                 who == curves[t].creator
      <4>1. CurveBuy(t, who, call.firstBuy, who)
        BY <1>2, <3>2 DEF FinishLaunch
      <4>2. who \in Users
        BY <1>0, <2>1, <4>1 DEF CurveBuy, Launched, BooksOK, CurveRecord
      <4>3. who \in Holders /\ who \in Accounts
        BY <4>2, AccountsApart
      <4> HIDE DEF who
      <4>4. usdc'[Pad] - usdc[Pad] = Books' - Books
        BY <1>0, <2>1, <4>1, <4>3, CurveBuyExact
      <4> QED BY <4>4, ExactCovers
    <3> QED BY <3>1, <3>2
  <2> QED BY <2>1, <2>2, SurplusCovered
<1> QED BY <1>1, <1>2 DEF Creation

(* Trades cover what they book. *)
LEMMA TradingSurplus ==
  ASSUME IInv, IInv', Trading
  PROVE  Keeps(Surplus', Surplus)
<1>0. BooksOK
  BY DEF IInv
<1>1. PICK t \in Tokens, who \in Holders, to \in {a \in Accounts : Pad \notin Recipients => a # Pad} :
        \/ \E usdcIn \in BuyAmounts : Buy(t, who, usdcIn, to) \/ RouterBuy(t, who, usdcIn, to)
        \/ \E tokensIn \in SellAmounts :
             Sell(t, who, tokensIn, to) \/ RouterSell(t, who, tokensIn, to)
  <2>1. \A who \in Holders :
          {who} \cup Recipients \subseteq {a \in Accounts : Pad \notin Recipients => a # Pad}
    BY AccountsApart, PoolAssumption
  <2> QED BY <2>1, Zenon DEF Trading
<1>2. ASSUME NEW usdcIn \in BuyAmounts, Buy(t, who, usdcIn, to)
      PROVE  call' = call /\ Keeps(usdc'[Pad] - usdc[Pad], Books' - Books)
  <2>1. usdcIn \in Nat /\ CurveBuy(t, who, usdcIn, to) /\ call' = call
    BY <1>2, LaunchpadAssumption DEF Buy
  <2> QED BY <1>0, <2>1, CurveBuyExact, ExactCovers
<1>3. ASSUME NEW usdcIn \in BuyAmounts, RouterBuy(t, who, usdcIn, to)
      PROVE  call' = call /\ Keeps(usdc'[Pad] - usdc[Pad], Books' - Books)
  <2>1. usdcIn \in Nat /\ call' = call
    BY <1>3, LaunchpadAssumption DEF RouterBuy
  <2> QED BY <1>0, <1>3, <2>1, RouterBuyCovered, ExactCovers
<1>4. ASSUME NEW tokensIn \in SellAmounts, Sell(t, who, tokensIn, to)
      PROVE  call' = call /\ Keeps(usdc'[Pad] - usdc[Pad], Books' - Books)
  <2>1. tokensIn \in Nat /\ call' = call
    BY <1>4, LaunchpadAssumption DEF Sell
  <2> QED BY <1>0, <1>4, <2>1, SellCovered
<1>5. ASSUME NEW tokensIn \in SellAmounts, RouterSell(t, who, tokensIn, to)
      PROVE  call' = call /\ Keeps(usdc'[Pad] - usdc[Pad], Books' - Books)
  <2>1. tokensIn \in Nat /\ call' = call
    BY <1>5, LaunchpadAssumption DEF RouterSell
  <2> QED BY <1>0, <1>5, <2>1, RouterSellCovered
<1>6. call' = call /\ Keeps(usdc'[Pad] - usdc[Pad], Books' - Books)
  BY <1>1, <1>2, <1>3, <1>4, <1>5
<1> QED BY <1>6, SurplusCovered

(* A collection pays out what it takes off the books or off an allowance. *)
LEMMA CollectionSurplus ==
  ASSUME IInv, IInv', NoAllowance, Collection
  PROVE  Keeps(Surplus', Surplus)
<1>0. /\ BooksOK /\ CallOK /\ BooksOK' /\ CallOK' /\ usdc \in Ledger
      /\ pendingFees \in Nat /\ \A t \in Tokens : pendingCreatorFees[t] \in Nat
      /\ Books \in Int /\ usdc[Pad] \in Nat /\ call.allowance \in Nat
  BY BooksTypes, SurplusType DEF IInv, BooksOK
<1>1. ASSUME CollectFees
      PROVE  Keeps(Surplus', Surplus)
  <2>1. Books' = Books - pendingFees
    <3>1. /\ pendingFees' = 0 /\ pendingCreatorFees' = pendingCreatorFees
          /\ curves' = curves
      BY <1>1 DEF CollectFees
    <3>2. /\ pendingFees \in Int /\ 0 - pendingFees \in Int
          /\ pendingFees + (0 - pendingFees) = 0
          /\ pendingCreatorFees \in [Tokens -> Int] /\ curves \in [Tokens -> CurveRecord]
      BY <1>0 DEF BooksOK
    <3>3. Owed(pendingFees + (0 - pendingFees), pendingCreatorFees, curves)
            = Owed(pendingFees, pendingCreatorFees, curves) + (0 - pendingFees)
      BY <3>2, OwedType
    <3>4. Books' = Books + (0 - pendingFees)
      BY <3>1, <3>2, <3>3 DEF Books
    <3> QED BY <1>0, <3>4
  <2>2. feeTo # Pad /\ usdc' = Moved(usdc, Pad, feeTo, pendingFees) /\ call' = call
    BY <1>1, AccountsApart DEF CollectFees, IInv, AdminOK
  <2>3. usdc'[Pad] = usdc[Pad] - pendingFees
    BY <1>0, <2>2, PadMoves
  <2>4. Keeps(usdc'[Pad] - usdc[Pad], Books' - Books)
    BY <1>0, <2>1, <2>3 DEF Keeps
  <2> QED BY <2>2, <2>4, SurplusCovered
<1>2. ASSUME NEW t \in Tokens, CollectToPlain(t)
      PROVE  Keeps(Surplus', Surplus)
  <2> DEFINE due == pendingCreatorFees[t]
  <2>0. /\ curves' = curves /\ pendingFees' = pendingFees + 0
        /\ pendingCreatorFees' = [pendingCreatorFees EXCEPT ![t] = @ + (0 - due)]
    <3> DEFINE nothing == due + (0 - due)
    <3>1. nothing = 0 /\ pendingFees + 0 = pendingFees
      BY <1>0
    <3> HIDE DEF nothing
    <3>2. pendingCreatorFees' = [pendingCreatorFees EXCEPT ![t] = nothing]
      BY <3>1, <1>2 DEF CollectToPlain
    <3> QED BY <3>1, <3>2, <1>2 DEF CollectToPlain, nothing
  <2>1. /\ call' = call /\ due \in Nat
        /\ usdc' = Moved(usdc, Pad, curves[t].plugin, due)
        /\ curves[t].plugin # Pad
    BY <1>0, <1>2, AccountsApart, PoolAssumption DEF CollectToPlain, BooksOK, CurveRecord
  <2>2. 0 \in Int /\ 0 - due \in Int
    BY <2>1
  <2>3. Books' = Books + 0 + (0 - due)
    BY <1>0, <2>0, <2>2, BooksAccrue
  <2>4. usdc'[Pad] = usdc[Pad] - due /\ usdc'[Pad] \in Int
    BY <1>0, <2>1, PadMoves
  <2> HIDE DEF due
  <2>5. Keeps(usdc'[Pad] - usdc[Pad], Books' - Books)
    BY <1>0, <2>1, <2>3, <2>4 DEF Keeps
  <2> QED BY <2>1, <2>5, SurplusCovered
<1>3. ASSUME NEW t \in Tokens, CollectToPlugin(t)
      PROVE  Keeps(Surplus', Surplus)
  <2> DEFINE due == pendingCreatorFees[t]
  <2>0. /\ curves' = curves /\ pendingFees' = pendingFees + 0
        /\ pendingCreatorFees' = [pendingCreatorFees EXCEPT ![t] = @ + (0 - due)]
    <3> DEFINE nothing == due + (0 - due)
    <3>1. nothing = 0 /\ pendingFees + 0 = pendingFees
      BY <1>0
    <3> HIDE DEF nothing
    <3>2. pendingCreatorFees' = [pendingCreatorFees EXCEPT ![t] = nothing]
      BY <3>1, <1>3 DEF CollectToPlugin
    <3> QED BY <3>1, <3>2, <1>3 DEF CollectToPlugin, nothing
  <2>1. /\ call'.allowance = due /\ due \in Nat
        /\ usdc' = usdc
        /\ call.allowance = 0
    BY <1>0, <1>3 DEF CollectToPlugin, BooksOK, poolVars, NoAllowance, Entered
  <2>2. 0 \in Int /\ 0 - due \in Int
    BY <2>1
  <2>3. Books' = Books + 0 + (0 - due)
    BY <1>0, <2>0, <2>2, BooksAccrue
  <2> HIDE DEF due
  <2>4. Keeps(usdc'[Pad] - usdc[Pad], (Books' - Books) + (call'.allowance - call.allowance))
    BY <1>0, <2>1, <2>3 DEF Keeps
  <2> QED BY <1>0, <2>4, SurplusFrom
<1>4. ASSUME NEW amount \in 1..call.allowance, NEW to \in HookPlugins \cup Recipients,
             PluginPull(amount, to)
      PROVE  Keeps(Surplus', Surplus)
  <2>1. /\ amount \in Nat /\ usdc' = Moved(usdc, Pad, to, amount)
        /\ call'.allowance = call.allowance - amount
        /\ UNCHANGED books
    BY <1>0, <1>4 DEF PluginPull, CallOK
  <2>2. Keeps(usdc'[Pad], usdc[Pad] - amount) /\ usdc'[Pad] \in Int
    <3>1. Pad \notin Recipients => to # Pad
      BY AccountsApart DEF Holders
    <3> QED BY <1>0, <2>1, <3>1, PadMoves DEF Keeps
  <2>3. Books' = Books
    BY <2>1, BooksStay
  <2>4. Keeps(usdc'[Pad] - usdc[Pad], (Books' - Books) + (call'.allowance - call.allowance))
    BY <1>0, <2>1, <2>2, <2>3 DEF Keeps
  <2> QED BY <1>0, <2>4, SurplusFrom
<1>5. ASSUME FinishFees
      PROVE  Keeps(Surplus', Surplus)
  <2>1. usdc' = usdc /\ UNCHANGED books /\ call.allowance = 0 /\ call'.allowance = 0
    BY <1>5 DEF FinishFees, poolVars, NoCall
  <2>2. Keeps(usdc'[Pad] - usdc[Pad], Books' - Books)
    BY <1>0, <2>1, BooksStay DEF Keeps
  <2> QED BY <2>1, <2>2, SurplusCovered
<1> QED BY <1>1, <1>2, <1>3, <1>4, <1>5 DEF Collection

(* Whatever is done with the assets, nobody takes the launchpad's. *)
LEMMA AssetsSurplus ==
  ASSUME IInv, IInv', Assets
  PROVE  Keeps(Surplus', Surplus)
<1>0. usdc \in Ledger /\ BooksOK /\ usdc[Pad] \in Nat
  BY BooksTypes, AccountsApart DEF IInv
<1>1. ASSUME NEW from, from # Pad, NEW to \in Users \cup Recipients, NEW x \in Nat,
             usdc' = Moved(usdc, from, to, x)
      PROVE  Keeps(usdc'[Pad], usdc[Pad])
  <2>1. Pad \notin Recipients => to # Pad
    BY AccountsApart
  <2> QED BY <1>0, <1>1, <2>1, PadMoves DEF Keeps
<1>2. ASSUME NEW from \in Holders, NEW to \in Recipients, NEW amount \in UsdcAmounts,
             TransferUsdc(from, to, amount)
      PROVE  Keeps(usdc'[Pad], usdc[Pad])
  <2>1. from # Pad /\ amount \in Nat
    BY AccountsApart, PoolAssumption
  <2> QED BY <1>1, <1>2, <2>1 DEF TransferUsdc
<1>3. ASSUME NEW t \in Tokens, PoolStep(t)
      PROVE  Keeps(usdc'[Pad], usdc[Pad])
  <2>0. Pair[t] # Pad /\ Pair[t] \in Accounts /\ usdc[Pair[t]] \in Nat
    BY <1>0, AccountsApart, BooksTypes
  <2>1. CASE usdc' = usdc
    BY <1>0, <2>1 DEF Keeps
  <2>2. ASSUME NEW to \in Users \cup Recipients, PairBurn(t, to)
        PROVE  Keeps(usdc'[Pad], usdc[Pad])
    <3> DEFINE x == (lp[t][Pair[t]] * usdc[Pair[t]]) \div lpSupply[t]
    <3>1. x > 0 /\ x <= usdc[Pair[t]] /\ lpSupply[t] > 0 /\ usdc' = Moved(usdc, Pair[t], to, x)
      BY <2>2, Zenon DEF PairBurn
    <3>2. x \in Int
      <4>1. lp[t][Pair[t]] \in Nat /\ lpSupply[t] \in Int
        BY <1>0, <2>0 DEF BooksOK, PoolTypeOK
      <4> QED BY <2>0, <3>1, <4>1, DivType
    <3> HIDE DEF x
    <3> QED BY <1>1, <2>0, <3>1, <3>2
  <2>3. ASSUME NEW to \in Users \cup Recipients, PairSkim(t, to)
        PROVE  Keeps(usdc'[Pad], usdc[Pad])
    <3> DEFINE x == usdc[Pair[t]] - reserves[t].usdc
    <3>1. x >= 0 /\ usdc' = Moved(usdc, Pair[t], to, x)
      BY <2>3 DEF PairSkim
    <3>2. x \in Int
      BY <1>0, <2>0, BooksTypes
    <3> HIDE DEF x
    <3> QED BY <1>1, <2>0, <3>1, <3>2
  <2>4. ASSUME NEW to, PairMint(t, to) PROVE usdc' = usdc
    BY <2>4 DEF PairMint
  <2> QED BY <1>3, <2>1, <2>2, <2>3, <2>4 DEF PoolStep, TransferToken, BurnToken, TransferLp, PairSync
<1> QED BY <1>2, <1>3, SurplusKept DEF Assets

-----------------------------------------------------------------------------
(* The surplus is never paid out, so the launchpad can always pay what it  *)
(* owes.  That holds through a revert because it holds of the state the    *)
(* revert returns to.                                                      *)
SavedSolvent ==
  saved.usdc[Pad] >= Owed(saved.pendingFees, saved.pendingCreatorFees, saved.curves)

SolventInv ==
  /\ NoAllowance
  /\ Surplus >= 0
  /\ Entered => SavedSolvent

(* What a step may do to the open call: nothing, close it, open one, or    *)
(* spend a plugin's allowance.                                             *)
Launches ==
  \E t \in Tokens, who \in Users, fee \in CreatorFees, plugin \in Accounts,
     firstBuy \in BuyAmounts \cup {0}, maxLaunchFee \in LaunchFees :
    CreateToken(t, who, fee, plugin, firstBuy, maxLaunchFee)

CallsPlugin == \E t \in Tokens : CollectToPlugin(t)

Spends ==
  /\ call.kind = "fees" /\ call'.kind = "fees" /\ call'.token = call.token
  /\ saved' = saved

LEMMA CallSteps ==
  ASSUME CallOK, Next
  PROVE  UNCHANGED <<call, saved>> \/ call' = NoCall \/ Launches \/ CallsPlugin \/ Spends
<1>1. CASE Administration
  BY <1>1 DEF Administration, Initialize, SetFeeTo, SetFeeToSetter, SetLaunchFee
<1>2. CASE Creation
  <2>1. ASSUME FinishLaunch PROVE call' = NoCall
    BY <2>1 DEF FinishLaunch
  <2> QED BY <1>2, <2>1, Zenon DEF Creation, Launches
<1>3. CASE Trading
  <2>1. ASSUME NEW t, NEW who, NEW amount, NEW to,
               Buy(t, who, amount, to) \/ RouterBuy(t, who, amount, to)
                 \/ Sell(t, who, amount, to) \/ RouterSell(t, who, amount, to)
        PROVE  UNCHANGED <<call, saved>>
    BY <2>1, Zenon DEF Buy, RouterBuy, Sell, RouterSell
  <2> QED BY <1>3, <2>1 DEF Trading
<1>4. CASE Collection
  <2>1. ASSUME NEW amount, NEW to, PluginPull(amount, to)
        PROVE  Spends
    BY <2>1 DEF PluginPull, CallOK, Spends
  <2>2. ASSUME CollectFees PROVE UNCHANGED <<call, saved>>
    BY <2>2 DEF CollectFees
  <2>3. ASSUME NEW t \in Tokens, CollectToPlain(t) PROVE UNCHANGED <<call, saved>>
    BY <2>3 DEF CollectToPlain
  <2>4. ASSUME FinishFees PROVE call' = NoCall
    BY <2>4 DEF FinishFees
  <2> QED BY <1>4, <2>1, <2>2, <2>3, <2>4 DEF Collection, CallsPlugin
<1>5. CASE RevertCall
  BY <1>5 DEF RevertCall
<1>6. CASE Assets
  BY <1>6 DEF Assets
<1> QED BY <1>1, <1>2, <1>3, <1>4, <1>5, <1>6 DEF Next

(* A call is opened where none is open, and can be taken back. *)
LEMMA CallOpens ==
  ASSUME Launches \/ CallsPlugin
  PROVE  ~Entered /\ saved' = Snapshot /\ (call'.kind # "fees" => call'.allowance = 0)
<1>1. ASSUME NEW t, NEW who, NEW fee, NEW plugin, NEW firstBuy, NEW maxLaunchFee,
             CreateToken(t, who, fee, plugin, firstBuy, maxLaunchFee)
      PROVE  ~Entered /\ saved' = Snapshot /\ call'.allowance = 0
  BY <1>1 DEF CreateToken
<1>2. ASSUME NEW t, CollectToPlugin(t)
      PROVE  ~Entered /\ saved' = Snapshot /\ call'.kind = "fees"
  BY <1>2 DEF CollectToPlugin
<1> QED BY <1>1, <1>2 DEF Launches, CallsPlugin

(* No step but a revert makes the surplus smaller. *)
LEMMA SurplusSteps ==
  ASSUME IInv, IInv', NoAllowance, [Next]_vars
  PROVE  RevertCall \/ Keeps(Surplus', Surplus)
<1>1. CASE Administration
  BY <1>1, AdministrationSurplus
<1>2. CASE Creation
  BY <1>2, CreationSurplus
<1>3. CASE Trading
  BY <1>3, TradingSurplus
<1>4. CASE Collection
  BY <1>4, CollectionSurplus
<1>5. CASE Assets
  BY <1>5, AssetsSurplus
<1>6. CASE UNCHANGED vars
  <2>1. Keeps(usdc'[Pad], usdc[Pad]) /\ UNCHANGED <<books, call>>
    BY <1>6, BooksInt DEF IInv, vars, poolVars, books, Keeps
  <2> QED BY <2>1, SurplusKept
<1> QED BY <1>1, <1>2, <1>3, <1>4, <1>5, <1>6 DEF Next

(* A revert returns to books that were covered. *)
LEMMA RevertSolvent ==
  ASSUME IInv, IInv', SavedSolvent, RevertCall
  PROVE  Surplus' >= 0
<1>1. /\ usdc' = saved.usdc /\ call'.allowance = 0
      /\ Books' = Owed(saved.pendingFees, saved.pendingCreatorFees, saved.curves)
  BY DEF RevertCall, Books, NoCall
<1>2. (BooksOK /\ CallOK => /\ Books \in Int /\ usdc[Pad] \in Nat
                            /\ Surplus = usdc[Pad] - Books - call.allowance)'
  BY SurplusType, PTL
<1>3. /\ Books' \in Int /\ usdc'[Pad] \in Nat /\ usdc'[Pad] >= Books'
      /\ Surplus' = usdc'[Pad] - Books' - call'.allowance
  BY <1>1, <1>2 DEF IInv, SavedSolvent
<1> QED BY <1>1, <1>3

(* Every step keeps the launchpad solvent. *)
LEMMA SolventStep ==
  ASSUME IInv, IInv', SolventInv, [Next]_vars
  PROVE  SolventInv'
<1>0. BooksOK /\ CallOK /\ Surplus \in Int /\ Books \in Int /\ usdc[Pad] \in Nat
  BY SurplusType DEF IInv
<1>1. Surplus' >= 0
  <2>1. CASE RevertCall
    BY <2>1, RevertSolvent DEF SolventInv, RevertCall
  <2>2. CASE Surplus' >= Surplus
    <3>1. (BooksOK /\ CallOK => Surplus \in Int)'
      BY SurplusType, PTL
    <3> QED BY <1>0, <2>2, <3>1 DEF SolventInv, IInv
  <2> QED BY <2>1, <2>2, SurplusSteps DEF SolventInv, Keeps
<1>2. CASE UNCHANGED <<call, saved>>
  BY <1>1, <1>2 DEF SolventInv, NoAllowance, Entered, SavedSolvent
<1>3. CASE call' = NoCall
  BY <1>1, <1>3 DEF SolventInv, NoAllowance, Entered, NoCall
<1>4. CASE Launches \/ CallsPlugin
  <2>0. ~Entered /\ saved' = Snapshot /\ NoAllowance'
    BY <1>4, CallOpens DEF NoAllowance
  <2>1. call.allowance = 0
    BY <2>0 DEF SolventInv, NoAllowance, Entered
  <2>2. Surplus = usdc[Pad] - Books - call.allowance /\ Surplus >= 0
    BY <1>0, SurplusType DEF SolventInv
  <2>3. usdc[Pad] >= Books
    BY <1>0, <2>1, <2>2
  <2>4. SavedSolvent'
    BY <2>0, <2>3 DEF SavedSolvent, Snapshot, Books
  <2> QED BY <1>1, <2>0, <2>4 DEF SolventInv
<1>5. CASE Spends
  BY <1>1, <1>5 DEF Spends, SolventInv, NoAllowance, Entered, SavedSolvent
<1>6. CASE UNCHANGED vars
  BY <1>2, <1>6 DEF vars
<1> QED BY <1>0, <1>2, <1>3, <1>4, <1>5, <1>6, CallSteps

(* At first nothing is owed, *)
LEMMA NothingOwed ==
  ASSUME Init
  PROVE  Books = 0
<1> DEFINE v == [t \in Tokens |-> pendingCreatorFees[t] + Float(curves[t])]
<1>1. \A t \in Tokens : pendingCreatorFees[t] = 0 /\ curves[t].creator = NoOne
  BY DEF Init, NoCurve
<1>2. \A t \in Tokens : v[t] = 0
  BY <1>1 DEF Float
<1>3. Books = 0 + SumOver(Tokens, v)
  BY DEF Init, Books, Owed
<1> HIDE DEF v
<1>4. SumOver(Tokens, v) = 0
  BY <1>2, SumZero, PoolAssumption
<1> QED BY <1>3, <1>4

(* and nothing is held. *)
LEMMA SolventInit == Init => SolventInv
<1> SUFFICES ASSUME Init PROVE SolventInv
  OBVIOUS
<1>1. usdc[Pad] = 0 /\ call.allowance = 0 /\ ~Entered
  BY AccountsApart DEF Init, NoCall, Entered
<1>2. Books = 0
  BY NothingOwed
<1> QED BY <1>1, <1>2 DEF SolventInv, NoAllowance, Surplus

(* What the launchpad owes it holds, now and wherever an open call would   *)
(* return to, together with the inductive invariant of the launchpad.      *)
THEOREM SolventInvariance == Spec => [](IInv /\ SolventInv)
<1>1. Init => IInv /\ SolventInv
  BY InitInv, SolventInit
<1>2. IInv /\ SolventInv /\ [Next]_vars => IInv' /\ SolventInv'
  BY NextInv, SolventStep
<1> QED BY <1>1, <1>2, PTL DEF Spec

(* V13-SPEC 6.1 and 9: at every moment, also inside a plugin's call, the   *)
(* launchpad holds at least what it owes to feeTo, to the plugins and to   *)
(* everyone who may still sell back to a curve.                            *)
THEOREM Solvent == Spec => [](Surplus >= 0)
<1>1. SolventInv => Surplus >= 0
  BY DEF SolventInv
<1> QED BY <1>1, SolventInvariance, PTL

(* V13-SPEC 9: USDC sent to the launchpad unasked stays a surplus; no      *)
(* trade, launch, collection or plugin ever pays any of it out.            *)
THEOREM SurplusStays == Spec => SurplusNeverPaidOut
<1>1. IInv /\ SolventInv /\ IInv' /\ [Next]_vars
        => [RevertCall \/ Surplus' >= Surplus]_vars
  BY SurplusSteps DEF SolventInv, Keeps
<1> QED BY <1>1, SolventInvariance, PTL DEF Spec, SurplusNeverPaidOut

-----------------------------------------------------------------------------
(* A token is in order if both its flags agree; until its launch it has    *)
(* neither a trade nor a balance; until its graduation its pair has no LP  *)
(* and no tokens, and the launchpad holds what is left to sell and the     *)
(* pool's share.                                                           *)
PairUnopened(t) ==
  /\ lpSupply[t] = 0
  /\ reserves[t].token = 0
  /\ bal[t][Pair[t]] = 0

TokenInOrder(t) ==
  /\ graduated[t] = curves[t].graduated
  /\ ~Launched(t) => /\ curves[t].tokensSold = 0
                     /\ curves[t].virtualUsdc = VIRTUAL_USDC_0
                     /\ \A a \in Accounts : bal[t][a] = 0
  /\ ~graduated[t] => PairUnopened(t)
  /\ Launched(t) /\ ~graduated[t] => bal[t][Pad] >= TOTAL_SUPPLY - curves[t].tokensSold

(* The same of the state an open call would return to. *)
SavedInOrder(t) ==
  /\ saved.graduated[t] = saved.curves[t].graduated
  /\ saved.curves[t].creator = NoOne =>
       /\ saved.curves[t].tokensSold = 0
       /\ saved.curves[t].virtualUsdc = VIRTUAL_USDC_0
       /\ \A a \in Accounts : saved.bal[t][a] = 0
  /\ ~saved.graduated[t] =>
       /\ saved.lpSupply[t] = 0
       /\ saved.reserves[t].token = 0
       /\ saved.bal[t][Pair[t]] = 0
  /\ saved.curves[t].creator # NoOne /\ ~saved.graduated[t] =>
       saved.bal[t][Pad] >= TOTAL_SUPPLY - saved.curves[t].tokensSold

(* While createToken waits for a plugin, nobody has got at the new token,  *)
(* and a revert would take back that launch and nothing else.              *)
LaunchUntouched(t) ==
  /\ Launched(t)
  /\ curves[t].tokensSold = 0
  /\ curves[t].virtualUsdc = VIRTUAL_USDC_0
  /\ \A a \in Accounts : bal[t][a] = IF a = Pad THEN TOTAL_SUPPLY ELSE 0
  /\ saved.curves[t].creator = NoOne
  /\ \A s \in Tokens : s # t => saved.curves[s] = curves[s]

CallInOrder ==
  /\ call.kind = "launch" => LaunchUntouched(call.token)
  /\ BooksFrozenInCollection
  /\ Entered => \A t \in Tokens : SavedInOrder(t)

TokensInOrder == \A t \in Tokens : TokenInOrder(t)

OrderInv == TokensInOrder /\ CallInOrder

-----------------------------------------------------------------------------
(* Before its graduation nothing opens a pair: mint would create no LP,    *)
(* burn and skim find nothing, and the token refuses to be sent there.     *)
LEMMA UnopenedPool ==
  ASSUME NEW t \in Tokens, BooksOK, ~graduated[t], PairUnopened(t), PoolStep(t)
  PROVE  /\ PairUnopened(t)'
         /\ graduated' = graduated
         /\ \A a \in Accounts \ Holders : bal'[t][a] \in Nat /\ bal'[t][a] >= bal[t][a]
         /\ (\A a \in Holders : bal[t][a] = 0) =>
              \A a \in Accounts : bal'[t][a] = bal[t][a]
<1> DEFINE pair == Pair[t]
           Goal == /\ PairUnopened(t)'
                   /\ graduated' = graduated
                   /\ \A a \in Accounts \ Holders : bal'[t][a] \in Nat /\ bal'[t][a] >= bal[t][a]
                   /\ (\A a \in Holders : bal[t][a] = 0) =>
                        \A a \in Accounts : bal'[t][a] = bal[t][a]
<1>1. /\ pair \in Accounts /\ pair \notin Holders /\ Holders \subseteq Accounts
      /\ NoOne \notin Accounts
  BY AccountsApart, PoolAssumption
<1>2. /\ bal \in [Tokens -> Ledger] /\ \A a \in Accounts : bal[t][a] \in Nat
      /\ lpSupply[t] = 0 /\ reserves[t].token = 0 /\ bal[t][pair] = 0
      /\ lpSupply \in [Tokens -> Int] /\ reserves \in [Tokens -> [token : Nat, usdc : Nat]]
      /\ usdc[pair] \in Nat /\ reserves[t].usdc \in Nat
  BY <1>1, BooksTypes DEF PairUnopened, BooksOK, PoolTypeOK
<1>3. CASE bal' = bal /\ graduated' = graduated /\ PairUnopened(t)'
  BY <1>1, <1>2, <1>3
<1>4. ASSUME NEW from \in Holders, NEW to, to # pair, NEW amount \in Nat, amount > 0,
             bal[t][from] >= amount,
             bal' = [bal EXCEPT ![t] = Moved(@, from, to, amount)],
             UNCHANGED <<graduated, reserves, lpSupply>>
      PROVE  Goal
  <2>1. bal'[t] = Moved(bal[t], from, to, amount)
    BY <1>2, <1>4
  <2>2. \A a \in Accounts : a # from =>
          bal'[t][a] = bal[t][a] + (IF a = to THEN amount ELSE 0)
    BY <1>1, <1>2, <1>4, <2>1, MovedLedger
  <2>3. bal'[t][pair] = 0
    BY <1>1, <1>2, <1>4, <2>2
  <2>4. ~(\A a \in Holders : bal[t][a] = 0)
    BY <1>4
  <2> QED BY <1>1, <1>2, <1>4, <2>2, <2>3, <2>4 DEF PairUnopened
<1>5. ASSUME NEW from \in Holders, NEW to \in Recipients, NEW amount \in TokenAmounts,
             TransferToken(t, from, to, amount)
      PROVE  Goal
  <2>1. to # pair /\ amount \in Nat /\ amount > 0
    BY <1>5, PoolAssumption DEF TransferToken, MayReceive
  <2>2. /\ bal[t][from] >= amount
        /\ bal' = [bal EXCEPT ![t] = Moved(@, from, to, amount)]
        /\ UNCHANGED <<graduated, reserves, lpSupply>>
    BY <1>5 DEF TransferToken
  <2> HIDE DEF Goal
  <2> QED BY <1>4, <2>1, <2>2
<1>6. ASSUME NEW from \in Holders, NEW amount \in TokenAmounts, BurnToken(t, from, amount)
      PROVE  Goal
  <2>1. NoOne # pair /\ amount \in Nat /\ amount > 0
    BY <1>1, PoolAssumption
  <2>2. /\ bal[t][from] >= amount
        /\ bal' = [bal EXCEPT ![t] = Moved(@, from, NoOne, amount)]
        /\ UNCHANGED <<graduated, reserves, lpSupply>>
    BY <1>6 DEF BurnToken
  <2> HIDE DEF Goal
  <2> QED BY <1>4, <2>1, <2>2
<1>7. ASSUME NEW from, NEW to, NEW amount, TransferLp(t, from, to, amount)
      PROVE  Goal
  BY <1>2, <1>3, <1>7 DEF TransferLp, PairUnopened
<1>8. ASSUME NEW to, PairMint(t, to)
      PROVE  Goal
  <2> DEFINE u == usdc[pair] - reserves[t].usdc
  <2>1. MintTo(t, to, 0, usdc[pair])
    BY <1>2, <1>8 DEF PairMint
  <2>2. PICK liquidity \in LiquidityFor(t, 0, usdc[pair]) : liquidity > 0
    BY <2>1 DEF MintTo
  <2>3. u \in Int /\ (0 - reserves[t].token) * u = 0
    BY <1>2
  <2>4. PICK root \in Roots(0) : liquidity = root - MINIMUM_LIQUIDITY
    BY <1>2, <2>2, <2>3 DEF LiquidityFor
  <2>5. root = 0
    BY <2>4 DEF Roots
  <2> QED BY <2>2, <2>4, <2>5, PoolAssumption
<1>9. ASSUME NEW to, PairBurn(t, to)
      PROVE  Goal
  BY <1>2, <1>9 DEF PairBurn
<1>10. ASSUME NEW to, PairSkim(t, to)
       PROVE  Goal
  <2>1. /\ bal' = [bal EXCEPT ![t] = Moved(@, pair, to, 0)]
        /\ UNCHANGED <<graduated, reserves, lpSupply>>
    BY <1>2, <1>10 DEF PairSkim
  <2>2. \A a \in Accounts : bal'[t][a] = bal[t][a]
    <3>1. bal'[t] = Moved(bal[t], pair, to, 0) /\ bal[t] \in Ledger
      BY <1>2, <2>1
    <3> QED BY <1>2, <3>1 DEF Moved, Ledger
  <2> QED BY <1>1, <1>2, <2>1, <2>2 DEF PairUnopened
<1>11. ASSUME PairSync(t)
       PROVE  Goal
  <2>1. /\ reserves' = Synced(t, 0, usdc[pair])
        /\ UNCHANGED <<bal, graduated, lpSupply>>
    BY <1>2, <1>11 DEF PairSync
  <2>2. reserves'[t].token = 0
    BY <1>2, <2>1 DEF Synced
  <2> QED BY <1>2, <1>3, <2>1, <2>2 DEF PairUnopened
<1> QED BY <1>5, <1>6, <1>7, <1>8, <1>9, <1>10, <1>11 DEF PoolStep

-----------------------------------------------------------------------------
(* A token nothing happens to stays in order. *)
LEMMA TokenSame ==
  ASSUME NEW t \in Tokens, TokenInOrder(t),
         curves'[t] = curves[t], graduated'[t] = graduated[t], bal'[t] = bal[t],
         reserves'[t] = reserves[t], lpSupply'[t] = lpSupply[t]
  PROVE  TokenInOrder(t)'
BY DEF TokenInOrder, PairUnopened, Launched

(* All do in a step that leaves tokens, pairs and curves alone. *)
LEMMA TokensSame ==
  ASSUME TokensInOrder, UNCHANGED <<curves, graduated, bal, reserves, lpSupply>>
  PROVE  TokensInOrder'
BY TokenSame DEF TokensInOrder

(* A curve buy sends its tokens anywhere but into the pair; the sell-out   *)
(* buy graduates token and curve together.                                 *)
LEMMA CurveBuyOrder ==
  ASSUME NEW t \in Tokens, NEW payer \in Holders, NEW usdcIn \in Nat, NEW to \in Accounts,
         BooksOK, TokensInOrder, CurveBuy(t, payer, usdcIn, to)
  PROVE  TokensInOrder'
<1> DEFINE c == curves[t]
           q == CalcBuy(c.virtualUsdc, c.virtualTokens, CURVE_SUPPLY - c.tokensSold,
                        usdcIn, c.creatorFeeBps)
           paid == Moved(usdc, payer, Pad, q.usdcSpent)
           sent == Moved(bal[t], Pad, to, q.tokensOut)
           d == Bought(c, q)
           raised == d.virtualUsdc - VIRTUAL_USDC_0
           out == q.tokensOut
<1>1. /\ c.creator # NoOne /\ ~c.graduated /\ q.ok
      /\ bal[t][Pad] >= out /\ MayReceive(t, to)
      /\ curves' = [curves EXCEPT ![t] = d]
      /\ IF q.graduates
           THEN Graduation(t, raised, paid, sent)
           ELSE /\ usdc' = paid
                /\ bal' = [bal EXCEPT ![t] = sent]
                /\ UNCHANGED <<graduated, reserves, lp, lpSupply>>
  BY Zenon DEF CurveBuy, Launched
<1>2. /\ bal \in [Tokens -> Ledger] /\ bal[t] \in Ledger
      /\ \A a \in Accounts : bal[t][a] \in Nat
      /\ c \in CurveRecord /\ CurveFit(c) /\ curves \in [Tokens -> CurveRecord]
      /\ graduated \in [Tokens -> BOOLEAN] /\ lpSupply \in [Tokens -> Int]
      /\ reserves \in [Tokens -> [token : Nat, usdc : Nat]]
  BY BooksTypes DEF BooksOK, PoolTypeOK
<1>3. out \in Nat /\ q.graduates \in BOOLEAN
  BY <1>1, <1>2, BuyKeepsShape
<1>4. /\ d.creator = c.creator /\ d.graduated = q.graduates
      /\ d.tokensSold = c.tokensSold + out /\ c.tokensSold \in Nat
  BY <1>2 DEF CurveRecord, Bought
<1>5. /\ ~graduated[t] /\ PairUnopened(t) /\ bal[t][Pad] >= TOTAL_SUPPLY - c.tokensSold
  BY <1>1 DEF TokensInOrder, TokenInOrder, Launched
<1> HIDE DEF d, q, raised, paid
<1>6. curves'[t] = d /\ \A s \in Tokens : s # t => curves'[s] = curves[s]
  BY <1>1, <1>2
<1>7. CASE ~q.graduates
  <2>1. bal' = [bal EXCEPT ![t] = sent] /\ UNCHANGED <<graduated, reserves, lpSupply>>
    BY <1>1, <1>7
  <2>2. \A s \in Tokens : s # t => TokenInOrder(s)'
    BY <1>2, <1>6, <2>1, TokenSame DEF TokensInOrder
  <2>3. Pad \in Accounts /\ Pair[t] \in Accounts /\ Pair[t] # Pad /\ to # Pair[t]
    BY <1>1, <1>5, AccountsApart DEF MayReceive
  <2>4. bal'[t] = sent
    BY <1>2, <2>1
  <2>5. bal'[t][Pair[t]] = bal[t][Pair[t]] /\ bal'[t][Pad] >= bal[t][Pad] - out
        /\ bal'[t][Pad] \in Int
    BY <1>2, <1>3, <2>3, <2>4 DEF Moved, Ledger
  <2>6. graduated'[t] = FALSE /\ curves'[t].graduated = FALSE
    BY <1>2, <1>3, <1>4, <1>5, <1>6, <1>7, <2>1
  <2>7. PairUnopened(t)'
    BY <1>5, <2>1, <2>5 DEF PairUnopened
  <2>8. bal'[t][Pad] >= TOTAL_SUPPLY - curves'[t].tokensSold
    <3>1. TOTAL_SUPPLY \in Nat
      BY LaunchpadAssumption DEF TOTAL_SUPPLY
    <3>2. curves'[t].tokensSold = c.tokensSold + out
      BY <1>4, <1>6
    <3>3. bal[t][Pad] \in Nat
      BY <1>2, <2>3
    <3> DEFINE x == bal[t][Pad] y == bal'[t][Pad] k == c.tokensSold k1 == curves'[t].tokensSold
    <3>4. /\ x \in Nat /\ y \in Int /\ k \in Nat /\ k1 = k + out
          /\ x >= TOTAL_SUPPLY - k /\ y >= x - out
      BY <1>4, <1>5, <2>5, <3>2, <3>3
    <3> HIDE DEF x, y, k, k1, out
    <3>5. y >= TOTAL_SUPPLY - k1
      BY <1>3, <3>1, <3>4
    <3> QED BY <3>5 DEF y, k1
  <2>9. curves'[t].creator # NoOne
    BY <1>1, <1>4, <1>6
  <2>10. TokenInOrder(t)'
    BY <2>6, <2>7, <2>8, <2>9 DEF TokenInOrder, Launched
  <2> QED BY <2>2, <2>10 DEF TokensInOrder
<1>8. CASE q.graduates
  <2> DEFINE balAfter == Moved(sent, Pad, Pair[t], POOL_SUPPLY)
             usdcAfter == Moved(paid, Pad, Pair[t], raised)
  <2>1. /\ graduated' = [graduated EXCEPT ![t] = TRUE]
        /\ bal' = [bal EXCEPT ![t] = balAfter]
        /\ MintTo(t, Dead, balAfter[Pair[t]], usdcAfter[Pair[t]])
    BY <1>1, <1>8 DEF Graduation
  <2> HIDE DEF balAfter, usdcAfter, sent
  <2>2. \A s \in Tokens : s # t => /\ reserves'[s] = reserves[s] /\ lpSupply'[s] = lpSupply[s]
                                   /\ graduated'[s] = graduated[s] /\ bal'[s] = bal[s]
    <3>1. ASSUME NEW s \in Tokens, s # t
          PROVE  reserves'[s] = reserves[s] /\ lpSupply'[s] = lpSupply[s]
      BY <1>2, <2>1, <3>1 DEF MintTo, Synced
    <3> QED BY <1>2, <2>1, <3>1
  <2>3. \A s \in Tokens : s # t => TokenInOrder(s)'
    BY <1>6, <2>2, TokenSame DEF TokensInOrder
  <2>4. graduated'[t] = TRUE /\ curves'[t].graduated = TRUE /\ curves'[t].creator # NoOne
    BY <1>1, <1>2, <1>3, <1>4, <1>6, <1>8, <2>1
  <2>5. TokenInOrder(t)'
    BY <2>4 DEF TokenInOrder, Launched
  <2> QED BY <2>3, <2>5 DEF TokensInOrder
<1> QED BY <1>7, <1>8

(* A sell returns its tokens to what is left to sell. *)
LEMMA SellOrder ==
  ASSUME NEW t \in Tokens, NEW who \in Holders, NEW tokensIn \in Nat, NEW to,
         BooksOK, TokensInOrder, Sell(t, who, tokensIn, to)
  PROVE  TokensInOrder'
<1> DEFINE c == curves[t]
           q == CalcSell(c.virtualUsdc, c.virtualTokens, c.tokensSold, tokensIn,
                         c.creatorFeeBps)
           d == SoldBack(c, q, tokensIn)
<1>1. /\ c.creator # NoOne /\ ~c.graduated
      /\ curves' = [curves EXCEPT ![t] = d]
      /\ bal' = [bal EXCEPT ![t] = Moved(@, who, Pad, tokensIn)]
      /\ UNCHANGED <<graduated, reserves, lp, lpSupply>>
  BY Zenon DEF Sell, Launched
<1>2. /\ bal \in [Tokens -> Ledger] /\ bal[t] \in Ledger
      /\ \A a \in Accounts : bal[t][a] \in Nat
      /\ c \in CurveRecord /\ curves \in [Tokens -> CurveRecord]
  BY BooksTypes DEF BooksOK
<1>3. /\ d.creator = c.creator /\ d.graduated = c.graduated
      /\ d.tokensSold = c.tokensSold - tokensIn /\ c.tokensSold \in Nat
  BY <1>2 DEF CurveRecord, SoldBack
<1>4. /\ graduated[t] = c.graduated /\ PairUnopened(t)
      /\ bal[t][Pad] >= TOTAL_SUPPLY - c.tokensSold
  BY <1>1 DEF TokensInOrder, TokenInOrder, Launched
<1> HIDE DEF d, q
<1>5. curves'[t] = d /\ \A s \in Tokens : s # t => curves'[s] = curves[s]
  BY <1>1, <1>2
<1>6. \A s \in Tokens : s # t => TokenInOrder(s)'
  BY <1>1, <1>2, <1>5, TokenSame DEF TokensInOrder
<1>7. /\ Pad \in Accounts /\ Pair[t] \in Accounts /\ Pair[t] # Pad
      /\ who # Pair[t] /\ who # Pad
  BY AccountsApart
<1>8. bal'[t][Pair[t]] = bal[t][Pair[t]] /\ bal'[t][Pad] = bal[t][Pad] + tokensIn
  <2>1. bal'[t] = Moved(bal[t], who, Pad, tokensIn)
    BY <1>1, <1>2
  <2> QED BY <1>2, <1>7, <2>1 DEF Moved, Ledger
<1>9. PairUnopened(t)'
  BY <1>1, <1>4, <1>8 DEF PairUnopened
<1>10. bal'[t][Pad] >= TOTAL_SUPPLY - curves'[t].tokensSold
  <2>1. TOTAL_SUPPLY \in Nat
    BY LaunchpadAssumption DEF TOTAL_SUPPLY
  <2>2. curves'[t].tokensSold = c.tokensSold - tokensIn /\ bal[t][Pad] \in Nat
    BY <1>2, <1>3, <1>5, <1>7
  <2> DEFINE x == bal[t][Pad] y == bal'[t][Pad] k == c.tokensSold k1 == curves'[t].tokensSold
  <2>3. /\ x \in Nat /\ k \in Nat /\ k1 = k - tokensIn
        /\ x >= TOTAL_SUPPLY - k /\ y = x + tokensIn
    BY <1>3, <1>4, <1>8, <2>2
  <2> HIDE DEF x, y, k, k1
  <2>4. y >= TOTAL_SUPPLY - k1
    BY <2>1, <2>3
  <2> QED BY <2>4 DEF y, k1
<1>11. graduated'[t] = curves'[t].graduated /\ curves'[t].creator # NoOne
  BY <1>1, <1>3, <1>4, <1>5
<1>12. TokenInOrder(t)'
  BY <1>9, <1>10, <1>11 DEF TokenInOrder, Launched
<1> QED BY <1>6, <1>12 DEF TokensInOrder

(* A step in a pool that is open. *)
LEMMA OpenPoolOrder ==
  ASSUME NEW t \in Tokens, TokensInOrder, Launched(t), graduated[t] = TRUE,
         UNCHANGED <<curves, graduated>>,
         \A s \in Tokens : s # t => /\ bal'[s] = bal[s] /\ reserves'[s] = reserves[s]
                                    /\ lpSupply'[s] = lpSupply[s]
  PROVE  TokensInOrder'
<1>1. \A s \in Tokens : s # t => TokenInOrder(s)'
  BY TokenSame DEF TokensInOrder
<1>2. TokenInOrder(t)'
  BY DEF TokensInOrder, TokenInOrder, Launched
<1> QED BY <1>1, <1>2 DEF TokensInOrder

(* Trades in a pool are. *)
LEMMA RouterOrder ==
  ASSUME NEW t \in Tokens, NEW who, NEW amount, NEW to, BooksOK, TokensInOrder,
         RouterBuy(t, who, amount, to) \/ RouterSell(t, who, amount, to)
  PROVE  TokensInOrder'
<1>1. /\ Launched(t) /\ curves[t].graduated
      /\ UNCHANGED <<curves, graduated, lpSupply>>
  BY Zenon DEF RouterBuy, RouterSell
<1>2. \E x, y : reserves' = Synced(t, x, y)
  BY Zenon DEF RouterBuy, RouterSell, SwapTo
<1>3. \E x : bal' = [bal EXCEPT ![t] = x]
  BY Zenon DEF RouterBuy, RouterSell
<1>4. /\ bal \in [Tokens -> Ledger] /\ reserves \in [Tokens -> [token : Nat, usdc : Nat]]
      /\ graduated \in [Tokens -> BOOLEAN]
  BY BooksTypes DEF BooksOK, PoolTypeOK
<1>5. \A s \in Tokens : s # t => bal'[s] = bal[s] /\ reserves'[s] = reserves[s]
  BY <1>2, <1>3, <1>4 DEF Synced
<1>6. graduated[t] = TRUE
  BY <1>1, <1>4 DEF TokensInOrder, TokenInOrder
<1> QED BY <1>1, <1>5, <1>6, OpenPoolOrder

(* A launch mints the supply to the launchpad and nothing to anyone else. *)
LEMMA CreateTokenOrder ==
  ASSUME NEW t \in Tokens, NEW who \in Users, NEW fee, NEW plugin \in Accounts,
         NEW firstBuy, NEW maxLaunchFee, BooksOK, TokensInOrder,
         CreateToken(t, who, fee, plugin, firstBuy, maxLaunchFee)
  PROVE  /\ TokensInOrder'
         /\ Launched(t)'
         /\ curves'[t].tokensSold = 0 /\ curves'[t].virtualUsdc = VIRTUAL_USDC_0
         /\ \A a \in Accounts : bal'[t][a] = IF a = Pad THEN TOTAL_SUPPLY ELSE 0
         /\ ~Launched(t)
         /\ \A s \in Tokens : s # t => curves'[s] = curves[s]
<1> DEFINE d == [NoCurve EXCEPT !.creator = who, !.creatorFeeBps = fee,
                                !.plugin = plugin,
                                !.pluginHooks = plugin \in HookPlugins]
<1>1. /\ ~Launched(t)
      /\ bal' = [bal EXCEPT ![t] = Credited(@, Pad, TOTAL_SUPPLY)]
      /\ curves' = [curves EXCEPT ![t] = d]
      /\ UNCHANGED <<graduated, reserves, lp, lpSupply>>
  BY Zenon DEF CreateToken
<1>2. /\ bal \in [Tokens -> Ledger] /\ bal[t] \in Ledger
      /\ curves \in [Tokens -> CurveRecord] /\ curves[t] \in CurveRecord
      /\ CurveFit(curves[t])
  BY BooksTypes DEF BooksOK
<1>3. /\ d.creator = who /\ d.graduated = FALSE /\ d.tokensSold = 0
      /\ d.virtualUsdc = VIRTUAL_USDC_0
  BY DEF NoCurve
<1> HIDE DEF d
<1>4. who # NoOne /\ Pad \in Accounts /\ Pair[t] \in Accounts /\ Pair[t] # Pad
  BY AccountsApart, PoolAssumption DEF Accounts, Holders
<1>5. curves'[t] = d /\ \A s \in Tokens : s # t => curves'[s] = curves[s]
  BY <1>1, <1>2
<1>6. \A s \in Tokens : s # t => TokenInOrder(s)'
  BY <1>1, <1>2, <1>5, TokenSame DEF TokensInOrder
<1>7. /\ curves[t].tokensSold = 0 /\ graduated[t] = curves[t].graduated
      /\ \A a \in Accounts : bal[t][a] = 0
      /\ ~graduated[t] => PairUnopened(t)
  BY <1>1 DEF TokensInOrder, TokenInOrder
<1>8. graduated[t] = FALSE
  <2>1. curves[t].graduated \in BOOLEAN
    BY <1>2 DEF CurveRecord
  <2>2. ~curves[t].graduated
    BY <1>2, <1>7, LaunchpadAssumption DEF CurveFit, CurveShape
  <2> QED BY <1>7, <2>1, <2>2
<1>9. TOTAL_SUPPLY \in Nat
  BY LaunchpadAssumption DEF TOTAL_SUPPLY
<1>10. \A a \in Accounts : bal'[t][a] = IF a = Pad THEN TOTAL_SUPPLY ELSE 0
  <2>1. bal'[t] = [bal[t] EXCEPT ![Pad] = @ + TOTAL_SUPPLY]
    BY <1>1, <1>2 DEF Credited
  <2> QED BY <1>2, <1>4, <1>7, <1>9, <2>1 DEF Ledger
<1>11. PairUnopened(t)'
  BY <1>1, <1>4, <1>7, <1>8, <1>10 DEF PairUnopened
<1>12. TokenInOrder(t)'
  <2>1. graduated'[t] = curves'[t].graduated /\ curves'[t].creator # NoOne
    BY <1>1, <1>3, <1>4, <1>5, <1>8
  <2>2. bal'[t][Pad] >= TOTAL_SUPPLY - curves'[t].tokensSold
    BY <1>3, <1>4, <1>5, <1>9, <1>10
  <2> QED BY <1>11, <2>1, <2>2 DEF TokenInOrder, Launched
<1> QED BY <1>1, <1>3, <1>4, <1>5, <1>6, <1>10, <1>12 DEF TokensInOrder, Launched

(* Whatever is done with a launched token and its pair. *)
LEMMA PoolStepOrder ==
  ASSUME NEW t \in Tokens, BooksOK, BooksOK', TokensInOrder, Launched(t), PoolStep(t),
         curves' = curves
  PROVE  TokensInOrder'
<1>1. graduated' = graduated
  BY DEF PoolStep, TransferToken, BurnToken, TransferLp, PairMint, PairBurn, PairSkim, PairSync
<1>2. \A s \in Tokens : s # t => /\ bal'[s] = bal[s] /\ reserves'[s] = reserves[s]
                                 /\ lpSupply'[s] = lpSupply[s]
  <2>1. /\ bal \in [Tokens -> Ledger] /\ reserves \in [Tokens -> [token : Nat, usdc : Nat]]
        /\ lpSupply \in [Tokens -> Int]
    BY BooksTypes DEF BooksOK, PoolTypeOK
  <2>2. bal' = bal \/ \E x : bal' = [bal EXCEPT ![t] = x]
    BY Zenon DEF PoolStep, TransferToken, BurnToken, TransferLp, PairMint, PairBurn, PairSkim,
                 PairSync
  <2>3. reserves' = reserves \/ \E x, y : reserves' = Synced(t, x, y)
    BY Zenon DEF PoolStep, TransferToken, BurnToken, TransferLp, PairMint, MintTo, PairBurn,
                 PairSkim, PairSync
  <2>4. lpSupply' = lpSupply \/ \E x : lpSupply' = [lpSupply EXCEPT ![t] = x]
    BY Zenon DEF PoolStep, TransferToken, BurnToken, TransferLp, PairMint, MintTo, PairBurn,
                 PairSkim, PairSync
  <2> QED BY <2>1, <2>2, <2>3, <2>4 DEF Synced
<1>3. graduated[t] \in BOOLEAN
  BY DEF BooksOK, PoolTypeOK
<1>4. CASE graduated[t] = TRUE
  BY <1>1, <1>2, <1>4, OpenPoolOrder
<1>5. CASE graduated[t] = FALSE
  <2>1. PairUnopened(t) /\ bal[t][Pad] >= TOTAL_SUPPLY - curves[t].tokensSold
    BY <1>5 DEF TokensInOrder, TokenInOrder
  <2>2. /\ PairUnopened(t)' /\ bal'[t][Pad] \in Nat /\ bal'[t][Pad] >= bal[t][Pad]
    BY <1>5, <2>1, AccountsApart, UnopenedPool
  <2>3. bal'[t][Pad] >= TOTAL_SUPPLY - curves[t].tokensSold
    <3>1. TOTAL_SUPPLY \in Nat /\ curves[t].tokensSold \in Nat /\ bal[t][Pad] \in Nat
      BY LaunchpadAssumption, AccountsApart, BooksTypes DEF TOTAL_SUPPLY, CurveRecord
    <3> QED BY <2>1, <2>2, <3>1
  <2>4. TokenInOrder(t)'
    <3>1. graduated'[t] = curves'[t].graduated
      BY <1>1 DEF TokensInOrder, TokenInOrder
    <3>2. curves'[t].creator # NoOne /\ bal'[t][Pad] >= TOTAL_SUPPLY - curves'[t].tokensSold
      BY <2>3 DEF Launched
    <3> QED BY <2>2, <3>1, <3>2, Zenon DEF TokenInOrder, Launched
  <2>5. \A s \in Tokens : s # t => TokenInOrder(s)'
    BY <1>1, <1>2, TokenSame DEF TokensInOrder
  <2> QED BY <2>4, <2>5 DEF TokensInOrder
<1> QED BY <1>3, <1>4, <1>5

(* What a revert returns to is in order. *)
LEMMA RevertOrder ==
  ASSUME \A t \in Tokens : SavedInOrder(t), RevertCall
  PROVE  TokensInOrder'
BY DEF RevertCall, TokensInOrder, TokenInOrder, SavedInOrder, PairUnopened, Launched

(* Every step keeps the tokens in order. *)
LEMMA TokensStep ==
  ASSUME IInv, IInv', TokensInOrder, CallInOrder, [Next]_vars
  PROVE  TokensInOrder'
<1>0. BooksOK /\ BooksOK' /\ CallOK
  BY DEF IInv
<1>1. CASE Administration
  <2>1. UNCHANGED <<poolVars, books>>
    BY <1>1 DEF Administration, Initialize, SetFeeTo, SetFeeToSetter, SetLaunchFee
  <2> QED BY <2>1, TokensSame DEF poolVars, books
<1>2. CASE Creation
  <2>1. ASSUME Launches PROVE TokensInOrder'
    BY <1>0, <2>1, CreateTokenOrder DEF Launches
  <2>2. ASSUME FinishLaunch PROVE TokensInOrder'
    <3>1. CASE call.firstBuy = 0
      <4>1. UNCHANGED <<poolVars, books>>
        BY <2>2, <3>1 DEF FinishLaunch
      <4> QED BY <4>1, TokensSame DEF poolVars, books
    <3>2. CASE call.firstBuy # 0
      <4> DEFINE t == call.token
                 who == curves[t].creator
      <4>1. CurveBuy(t, who, call.firstBuy, who)
        BY <2>2, <3>2 DEF FinishLaunch
      <4>2. t \in Tokens /\ call.firstBuy \in Nat
        BY <1>0, <2>2 DEF FinishLaunch, CallOK, Entered
      <4>3. who \in Users
        BY <1>0, <4>1, <4>2 DEF CurveBuy, Launched, BooksOK, CurveRecord
      <4>4. who \in Holders /\ who \in Accounts
        BY <4>3, AccountsApart
      <4> HIDE DEF who
      <4> QED BY <1>0, <4>1, <4>2, <4>4, CurveBuyOrder
    <3> QED BY <3>1, <3>2
  <2> QED BY <1>2, <2>1, <2>2, Zenon DEF Creation, Launches
<1>3. CASE Trading
  <2>1. PICK t \in Tokens, who \in Holders, to \in Accounts :
          \/ \E usdcIn \in BuyAmounts : Buy(t, who, usdcIn, to) \/ RouterBuy(t, who, usdcIn, to)
          \/ \E tokensIn \in SellAmounts :
               Sell(t, who, tokensIn, to) \/ RouterSell(t, who, tokensIn, to)
    <3>1. \A who \in Holders : {who} \cup Recipients \subseteq Accounts
      BY AccountsApart, PoolAssumption
    <3> QED BY <1>3, <3>1, Zenon DEF Trading
  <2>2. ASSUME NEW usdcIn \in BuyAmounts, Buy(t, who, usdcIn, to) PROVE TokensInOrder'
    BY <1>0, <2>2, CurveBuyOrder, LaunchpadAssumption DEF Buy
  <2>3. ASSUME NEW tokensIn \in SellAmounts, Sell(t, who, tokensIn, to) PROVE TokensInOrder'
    BY <1>0, <2>3, SellOrder, LaunchpadAssumption
  <2> QED BY <1>0, <2>1, <2>2, <2>3, RouterOrder
<1>4. CASE Collection
  <2>1. UNCHANGED <<curves, graduated, bal, reserves, lpSupply>>
    BY <1>4 DEF Collection, CollectFees, CollectToPlain, CollectToPlugin, PluginPull,
                FinishFees, books, poolVars
  <2> QED BY <2>1, TokensSame
<1>5. CASE RevertCall
  BY <1>5, RevertOrder DEF CallInOrder, RevertCall
<1>6. CASE Assets
  <2>1. ASSUME NEW from, NEW to, NEW amount, TransferUsdc(from, to, amount), UNCHANGED books
        PROVE  TokensInOrder'
    BY <2>1, TokensSame DEF TransferUsdc, books
  <2>2. ASSUME NEW t \in Tokens, Launched(t), PoolStep(t), UNCHANGED books
        PROVE  TokensInOrder'
    BY <1>0, <2>2, PoolStepOrder DEF books
  <2> QED BY <1>6, <2>1, <2>2 DEF Assets
<1>7. CASE UNCHANGED vars
  BY <1>7, TokensSame DEF vars, poolVars, books
<1> QED BY <1>1, <1>2, <1>3, <1>4, <1>5, <1>6, <1>7 DEF Next

-----------------------------------------------------------------------------
(* While a call is open, the books stand still until it ends. *)
LEMMA BooksHeld ==
  ASSUME CallOK, Entered, Next
  PROVE  UNCHANGED books \/ call' = NoCall
<1>1. CASE Administration
  BY <1>1 DEF Administration, Initialize, SetFeeTo, SetFeeToSetter, SetLaunchFee
<1>2. CASE Creation
  <2>1. ASSUME FinishLaunch PROVE call' = NoCall
    BY <2>1 DEF FinishLaunch
  <2>2. ASSUME Launches PROVE FALSE
    BY <2>2 DEF Launches, CreateToken
  <2> QED BY <1>2, <2>1, <2>2, Zenon DEF Creation, Launches
<1>3. CASE Trading
  <2>1. ASSUME NEW t, NEW who, NEW amount, NEW to,
               Buy(t, who, amount, to) \/ RouterBuy(t, who, amount, to)
                 \/ Sell(t, who, amount, to) \/ RouterSell(t, who, amount, to)
        PROVE  ~Entered
    BY <2>1, Zenon DEF Buy, RouterBuy, Sell, RouterSell, AccrueTradeFees
  <2> QED BY <1>3, <2>1 DEF Trading
<1>4. CASE Collection
  BY <1>4 DEF Collection, CollectFees, CollectToPlain, CollectToPlugin, PluginPull, FinishFees
<1>5. CASE RevertCall
  BY <1>5 DEF RevertCall
<1>6. CASE Assets
  BY <1>6 DEF Assets
<1> QED BY <1>1, <1>2, <1>3, <1>4, <1>5, <1>6 DEF Next

(* Nobody gets at a token before its launch has ended: there is nobody to  *)
(* send any of it, and nothing in its pair to take out.                    *)
LEMMA UntouchedBalances ==
  ASSUME IInv, TokensInOrder, NEW t \in Tokens, LaunchUntouched(t), Entered, Next,
         call' # NoCall
  PROVE  \A a \in Accounts : bal'[t][a] = bal[t][a]
<1>0. BooksOK /\ CallOK /\ bal \in [Tokens -> Ledger]
  BY BooksTypes DEF IInv
<1>1. CASE bal' = bal
  BY <1>1
<1>2. CASE Administration
  BY <1>1, <1>2 DEF Administration, Initialize, SetFeeTo, SetFeeToSetter, SetLaunchFee, poolVars
<1>3. CASE Creation
  <2>1. ASSUME FinishLaunch PROVE FALSE
    BY <2>1 DEF FinishLaunch
  <2>2. ASSUME Launches PROVE FALSE
    BY <2>2 DEF Launches, CreateToken
  <2> QED BY <1>3, <2>1, <2>2, Zenon DEF Creation, Launches
<1>4. CASE Trading
  <2>1. ASSUME NEW s, NEW who, NEW amount, NEW to,
               Buy(s, who, amount, to) \/ RouterBuy(s, who, amount, to)
                 \/ Sell(s, who, amount, to) \/ RouterSell(s, who, amount, to)
        PROVE  ~Entered
    BY <2>1, Zenon DEF Buy, RouterBuy, Sell, RouterSell, AccrueTradeFees
  <2> QED BY <1>4, <2>1 DEF Trading
<1>5. CASE Collection
  BY <1>1, <1>5 DEF Collection, CollectFees, CollectToPlain, CollectToPlugin, PluginPull,
                    FinishFees, poolVars
<1>6. CASE RevertCall
  BY <1>6 DEF RevertCall
<1>7. CASE Assets
  <2>1. ASSUME NEW from, NEW to, NEW amount, TransferUsdc(from, to, amount)
        PROVE  bal' = bal
    BY <2>1 DEF TransferUsdc
  <2>2. ASSUME NEW s \in Tokens, s # t, PoolStep(s)
        PROVE  bal'[t] = bal[t]
    <3>1. bal' = bal \/ \E x : bal' = [bal EXCEPT ![s] = x]
      BY <2>2, Zenon DEF PoolStep, TransferToken, BurnToken, TransferLp, PairMint, PairBurn,
                         PairSkim, PairSync
    <3> QED BY <1>0, <2>2, <3>1
  <2>3. ASSUME PoolStep(t)
        PROVE  \A a \in Accounts : bal'[t][a] = bal[t][a]
    <3>1. curves[t].graduated = FALSE
      <4>1. curves[t] \in CurveRecord /\ CurveFit(curves[t]) /\ curves[t].tokensSold = 0
        BY <1>0, BooksTypes DEF LaunchUntouched
      <4> QED BY <4>1, LaunchpadAssumption DEF CurveRecord, CurveFit, CurveShape
    <3>2. ~graduated[t] /\ PairUnopened(t)
      BY <3>1 DEF TokensInOrder, TokenInOrder
    <3>3. \A a \in Holders : bal[t][a] = 0
      BY AccountsApart DEF LaunchUntouched
    <3> QED BY <1>0, <2>3, <3>2, <3>3, UnopenedPool
  <2> QED BY <1>1, <1>7, <2>1, <2>2, <2>3 DEF Assets
<1> QED BY <1>2, <1>3, <1>4, <1>5, <1>6, <1>7 DEF Next

(* The open call stays in order. *)
LEMMA CallStep ==
  ASSUME IInv, IInv', OrderInv, [Next]_vars
  PROVE  CallInOrder'
<1>0. BooksOK /\ CallOK /\ TokensInOrder /\ CallInOrder
  BY DEF IInv, OrderInv
<1>1. CASE call' = NoCall
  BY <1>1 DEF CallInOrder, BooksFrozenInCollection, NoCall, Entered
<1>2. ASSUME UNCHANGED <<call, saved>>, UNCHANGED books,
             \A t \in Tokens : LaunchUntouched(t) /\ Entered =>
               \A a \in Accounts : bal'[t][a] = bal[t][a]
      PROVE  CallInOrder'
  <2>1. Entered => \A t \in Tokens : SavedInOrder(t)'
    BY <1>0, <1>2 DEF CallInOrder, SavedInOrder
  <2>2. BooksFrozenInCollection'
    BY <1>0, <1>2 DEF CallInOrder, BooksFrozenInCollection, books
  <2>3. ASSUME call.kind = "launch" PROVE LaunchUntouched(call.token)'
    <3>1. Entered /\ call.token \in Tokens /\ LaunchUntouched(call.token)
      BY <1>0, <2>3 DEF CallOK, CallInOrder, Entered
    <3> QED BY <1>2, <3>1 DEF LaunchUntouched, Launched, books
  <2> QED BY <1>2, <2>1, <2>2, <2>3 DEF CallInOrder, Entered
<1>3. CASE UNCHANGED vars
  BY <1>2, <1>3 DEF vars, poolVars
<1>4. ASSUME Next, UNCHANGED <<call, saved>>, call' # NoCall
      PROVE  CallInOrder'
  <2>1. CASE Entered
    <3>1. UNCHANGED books
      BY <1>0, <1>4, <2>1, BooksHeld
    <3>2. \A t \in Tokens : LaunchUntouched(t) => \A a \in Accounts : bal'[t][a] = bal[t][a]
      BY <1>0, <1>4, <2>1, UntouchedBalances
    <3> QED BY <1>2, <1>4, <3>1, <3>2
  <2>2. CASE ~Entered
    BY <1>4, <2>2 DEF CallInOrder, BooksFrozenInCollection, Entered
  <2> QED BY <2>1, <2>2
<1>5. ASSUME Launches PROVE CallInOrder'
  <2>1. PICK t \in Tokens, who \in Users, fee \in CreatorFees, plugin \in Accounts,
             firstBuy \in BuyAmounts \cup {0}, maxLaunchFee \in LaunchFees :
          CreateToken(t, who, fee, plugin, firstBuy, maxLaunchFee)
    BY <1>5, Zenon DEF Launches
  <2>2. call'.kind = "launch" /\ call'.token = t /\ saved' = Snapshot
    BY <2>1 DEF CreateToken
  <2>3. LaunchUntouched(t)'
    <3>1. /\ Launched(t)'
          /\ curves'[t].tokensSold = 0 /\ curves'[t].virtualUsdc = VIRTUAL_USDC_0
          /\ \A a \in Accounts : bal'[t][a] = IF a = Pad THEN TOTAL_SUPPLY ELSE 0
          /\ ~Launched(t)
          /\ \A s \in Tokens : s # t => curves'[s] = curves[s]
      BY <1>0, <2>1, CreateTokenOrder
    <3>2. saved'.curves = curves
      BY <2>2 DEF Snapshot
    <3> QED BY <3>1, <3>2 DEF LaunchUntouched, Launched
  <2>4. \A s \in Tokens : SavedInOrder(s)'
    BY <1>0, <2>2 DEF Snapshot, TokensInOrder, TokenInOrder, SavedInOrder, PairUnopened, Launched
  <2> QED BY <2>2, <2>3, <2>4 DEF CallInOrder, BooksFrozenInCollection
<1>6. ASSUME CallsPlugin PROVE CallInOrder'
  <2>1. PICK t \in Tokens : CollectToPlugin(t)
    BY <1>6 DEF CallsPlugin
  <2>2. /\ call'.kind = "fees" /\ call'.token = t /\ saved' = Snapshot
        /\ pendingCreatorFees' = [pendingCreatorFees EXCEPT ![t] = 0]
        /\ UNCHANGED <<curves, pendingFees>>
    BY <2>1 DEF CollectToPlugin
  <2>3. BooksFrozenInCollection'
    BY <2>2 DEF BooksFrozenInCollection, Snapshot
  <2>4. \A s \in Tokens : SavedInOrder(s)'
    BY <1>0, <2>2 DEF Snapshot, TokensInOrder, TokenInOrder, SavedInOrder, PairUnopened, Launched
  <2> QED BY <2>2, <2>3, <2>4 DEF CallInOrder
<1>7. ASSUME Next, Spends PROVE CallInOrder'
  <2>1. Entered /\ call' # NoCall
    BY <1>7 DEF Spends, Entered, NoCall
  <2>2. UNCHANGED books
    BY <1>0, <1>7, <2>1, BooksHeld
  <2>3. BooksFrozenInCollection'
    BY <1>0, <1>7, <2>2 DEF CallInOrder, BooksFrozenInCollection, Spends, books
  <2>4. \A t \in Tokens : SavedInOrder(t)'
    BY <1>0, <1>7, <2>1 DEF CallInOrder, SavedInOrder, Spends
  <2> QED BY <1>7, <2>3, <2>4 DEF CallInOrder, Spends
<1> QED BY <1>0, <1>1, <1>3, <1>4, <1>5, <1>6, <1>7, CallSteps

(* The launchpad starts with every token in order and no open call. *)
LEMMA OrderInit == Init => OrderInv
<1> SUFFICES ASSUME Init PROVE OrderInv
  OBVIOUS
<1>1. ASSUME NEW t \in Tokens PROVE TokenInOrder(t)
  <2>1. /\ graduated[t] = FALSE /\ curves[t] = NoCurve /\ lpSupply[t] = 0
        /\ reserves[t].token = 0 /\ \A a \in Accounts : bal[t][a] = 0
    BY DEF Init
  <2>2. Pair[t] \in Accounts
    BY AccountsApart
  <2>3. /\ curves[t].creator = NoOne /\ curves[t].graduated = FALSE
        /\ curves[t].tokensSold = 0 /\ curves[t].virtualUsdc = VIRTUAL_USDC_0
    BY <2>1 DEF NoCurve
  <2>4. PairUnopened(t) /\ ~Launched(t)
    BY <2>1, <2>2, <2>3 DEF PairUnopened, Launched
  <2> QED BY <2>1, <2>3, <2>4 DEF TokenInOrder
<1>2. CallInOrder
  BY DEF Init, CallInOrder, BooksFrozenInCollection, NoCall, Entered
<1> QED BY <1>1, <1>2 DEF OrderInv, TokensInOrder

(* Tokens and open calls are in order in every state, together with the    *)
(* inductive invariant of the launchpad.                                   *)
THEOREM OrderInvariance == Spec => [](IInv /\ OrderInv)
<1>1. Init => IInv /\ OrderInv
  BY InitInv, OrderInit
<1>2. IInv /\ OrderInv /\ [Next]_vars => IInv' /\ OrderInv'
  BY NextInv, TokensStep, CallStep DEF OrderInv
<1> QED BY <1>1, <1>2, PTL DEF Spec

(* A plugin the launchpad calls, whatever it does before it returns, finds *)
(* a new curve untouched, so that the creator's first buy is the first,    *)
(* and the books of a collection closed.                                   *)
THEOREM CallsSafe == Spec => []CallsKeepTheBooks
<1>1. IInv /\ OrderInv => CallsKeepTheBooks
  <2> SUFFICES ASSUME IInv, OrderInv PROVE CallsKeepTheBooks
    OBVIOUS
  <2>1. FirstBuyUnsniped
    <3>1. call.kind = "launch" => call.token \in Tokens /\ LaunchUntouched(call.token)
      BY DEF IInv, CallOK, Entered, OrderInv, CallInOrder
    <3> QED BY <3>1, AccountsApart DEF LaunchUntouched, FirstBuyUnsniped
  <2> QED BY <2>1 DEF OrderInv, CallInOrder, CallsKeepTheBooks
<1> QED BY <1>1, OrderInvariance, PTL

(* The launchpad holds, of every live token, what its curve has left to    *)
(* sell and the pool's share; token and curve graduate together.           *)
THEOREM Inventory == Spec => []InventoryCovered
<1>1. OrderInv => InventoryCovered
  BY DEF OrderInv, TokensInOrder, TokenInOrder, InventoryCovered
<1> QED BY <1>1, OrderInvariance, PTL

(* Nobody can open a pool before its curve has sold out: until then its    *)
(* pair has no LP, no tokens recorded and none held, whatever is donated,  *)
(* minted, burned, skimmed, synced or sent.                                *)
THEOREM PoolsOpenLast == Spec => [](\A t \in Tokens : ~curves[t].graduated => PairUnopened(t))
<1>1. OrderInv => \A t \in Tokens : ~curves[t].graduated => PairUnopened(t)
  BY DEF OrderInv, TokensInOrder, TokenInOrder
<1> QED BY <1>1, OrderInvariance, PTL
-----------------------------------------------------------------------------
(* The launchpad implements LaunchSale.                                    *)

(* A curve that trades, or opens, moves its sale and no other. *)
LEMMA SaleMoves ==
  ASSUME NEW t \in Tokens, NEW cs \in [Tokens -> CurveRecord],
         curves \in [Tokens -> CurveRecord], curves' = cs,
         CurveFit(curves[t]), CurveFit(cs[t]),
         \A s \in Tokens : s # t => cs[s] = curves[s] /\ SalePhase(s)' = SalePhase(s),
         cs[t].virtualUsdc * cs[t].virtualTokens
           >= curves[t].virtualUsdc * curves[t].virtualTokens,
         SalePhase(t) \in {"unopened", "open"},
         cs[t].creator # NoOne, ~(call'.kind = "launch" /\ call'.token = t)
  PROVE  Sale!Next
<1> DEFINE c == curves[t]
           d == cs[t]
           out == d.tokensSold
           usd == d.virtualUsdc - VIRTUAL_USDC_0
           Ph == [s \in Tokens |-> SalePhase(s)]
           So == [s \in Tokens |-> curves[s].tokensSold]
           Ra == [s \in Tokens |-> curves[s].virtualUsdc - VIRTUAL_USDC_0]
           PhNext == [s \in Tokens |-> SalePhase(s)]'
           SoNext == [s \in Tokens |-> curves[s].tokensSold]'
           RaNext == [s \in Tokens |-> curves[s].virtualUsdc - VIRTUAL_USDC_0]'
<1>1. /\ c \in CurveRecord /\ d \in CurveRecord
      /\ VIRTUAL_USDC_0 \in Nat /\ VIRTUAL_TOKENS_0 \in Nat /\ CURVE_SUPPLY \in Nat
  BY LaunchpadAssumption
<1>2. /\ c.tokensSold \in Nat /\ c.virtualUsdc \in Nat /\ c.virtualTokens \in Nat
      /\ d.tokensSold \in Nat /\ d.virtualUsdc \in Nat /\ d.virtualTokens \in Nat
      /\ d.graduated \in BOOLEAN
  BY <1>1 DEF CurveRecord
<1>3. /\ c.virtualTokens + c.tokensSold = VIRTUAL_TOKENS_0
      /\ d.virtualTokens + d.tokensSold = VIRTUAL_TOKENS_0
      /\ d.tokensSold <= CURVE_SUPPLY /\ d.virtualUsdc >= VIRTUAL_USDC_0
      /\ d.graduated <=> d.tokensSold = CURVE_SUPPLY
  BY DEF CurveFit, CurveShape
<1>4. out \in 0..CURVE_SUPPLY /\ usd \in Nat
  BY <1>1, <1>2, <1>3
<1>5. /\ VIRTUAL_USDC_0 + usd = d.virtualUsdc
      /\ VIRTUAL_TOKENS_0 - out = d.virtualTokens
      /\ VIRTUAL_USDC_0 + Ra[t] = c.virtualUsdc
      /\ VIRTUAL_TOKENS_0 - So[t] = c.virtualTokens
  BY <1>1, <1>2, <1>3
<1>6. Sale!Product(usd, out) >= Sale!Product(Ra[t], So[t])
  BY <1>5 DEF Sale!Product
<1>7. SoNext = [So EXCEPT ![t] = out] /\ SoNext[t] = out
  <2>1. \A s \in Tokens : curves'[s].tokensSold = IF s = t THEN out ELSE curves[s].tokensSold
    OBVIOUS
  <2> QED BY <2>1
<1>8. RaNext = [Ra EXCEPT ![t] = usd] /\ RaNext[t] = usd
  <2>1. \A s \in Tokens : curves'[s].virtualUsdc - VIRTUAL_USDC_0
                            = IF s = t THEN usd ELSE curves[s].virtualUsdc - VIRTUAL_USDC_0
    OBVIOUS
  <2> QED BY <2>1
<1>9. PhNext = [Ph EXCEPT ![t] = IF out = CURVE_SUPPLY THEN "pool" ELSE "open"]
  <2>1. SalePhase(t)' = IF out = CURVE_SUPPLY THEN "pool" ELSE "open"
    BY <1>2, <1>3 DEF SalePhase, Launched
  <2>2. \A s \in Tokens :
          SalePhase(s)' = IF s = t THEN IF out = CURVE_SUPPLY THEN "pool" ELSE "open"
                                   ELSE SalePhase(s)
    BY <2>1
  <2> QED BY <2>2
<1>10. Ph[t] \in {"unopened", "open"}
  OBVIOUS
<1> HIDE DEF c, d, out, usd, Ph, So, Ra, PhNext, SoNext, RaNext
<1>11. /\ out \in 0..CURVE_SUPPLY /\ usd \in Nat
       /\ Sale!Product(usd, out) >= Sale!Product(Ra[t], So[t])
       /\ SoNext = [So EXCEPT ![t] = SoNext[t]]
       /\ RaNext = [Ra EXCEPT ![t] = RaNext[t]]
       /\ PhNext = [Ph EXCEPT ![t] = IF SoNext[t] = CURVE_SUPPLY THEN "pool" ELSE "open"]
       /\ SoNext[t] = out /\ RaNext[t] = usd
  BY <1>4, <1>6, <1>7, <1>8, <1>9
<1>12. Sale!OpenSale(t) \/ Sale!Trade(t)
  BY <1>10, <1>11 DEF Sale!OpenSale, Sale!Trade, Sale!MoveTo, Ph, So, Ra,
                      PhNext, SoNext, RaNext
<1> QED BY <1>12 DEF Sale!Next

(* A step that moves no token sold, no USDC raised and no phase. *)
LEMMA SaleStays ==
  ASSUME \A t \in Tokens : /\ curves'[t].tokensSold = curves[t].tokensSold
                           /\ curves'[t].virtualUsdc = curves[t].virtualUsdc
                           /\ SalePhase(t)' = SalePhase(t)
  PROVE  UNCHANGED Sale!saleVars
<1>1. /\ [t \in Tokens |-> SalePhase(t)]' = [t \in Tokens |-> SalePhase(t)]
      /\ [t \in Tokens |-> curves[t].tokensSold]' = [t \in Tokens |-> curves[t].tokensSold]
      /\ [t \in Tokens |-> curves[t].virtualUsdc - VIRTUAL_USDC_0]'
           = [t \in Tokens |-> curves[t].virtualUsdc - VIRTUAL_USDC_0]
  OBVIOUS
<1> QED BY <1>1 DEF Sale!saleVars

(* The same when the curves stay and no launch begins or ends. *)
LEMMA SaleSame ==
  ASSUME UNCHANGED curves,
         call' = call \/ (call.kind # "launch" /\ call'.kind # "launch")
  PROVE  UNCHANGED Sale!saleVars
BY SaleStays DEF SalePhase, Launched

(* A buy on a curve that is on sale, or opens with it. *)
LEMMA CurveBuySale ==
  ASSUME NEW t \in Tokens, NEW payer \in Holders, NEW usdcIn \in Nat, NEW to \in Accounts,
         BooksOK, CurveBuy(t, payer, usdcIn, to),
         \/ call' = call /\ ~(call.kind = "launch")
         \/ call.kind = "launch" /\ call.token = t /\ call' = NoCall
  PROVE  Sale!Next
<1> DEFINE c == curves[t]
           q == CalcBuy(c.virtualUsdc, c.virtualTokens, CURVE_SUPPLY - c.tokensSold,
                        usdcIn, c.creatorFeeBps)
           d == Bought(c, q)
           cs == [curves EXCEPT ![t] = d]
<1>1. /\ c.creator # NoOne /\ ~c.graduated /\ q.ok
      /\ curves' = cs
  BY Zenon DEF CurveBuy, Launched
<1>2. c \in CurveRecord /\ CurveFit(c) /\ curves \in [Tokens -> CurveRecord]
  BY BooksTypes DEF BooksOK
<1>3. /\ d \in CurveRecord /\ CurveFit(d)
      /\ d.virtualUsdc * d.virtualTokens >= c.virtualUsdc * c.virtualTokens
  BY <1>1, <1>2, BuyKeepsShape
<1>4. d.creator = c.creator
  BY <1>2 DEF CurveRecord, Bought
<1> HIDE DEF d, q
<1>5. cs \in [Tokens -> CurveRecord] /\ cs[t] = d /\ \A s \in Tokens : s # t => cs[s] = curves[s]
  BY <1>2, <1>3
<1>6. \A s \in Tokens : s # t => SalePhase(s)' = SalePhase(s)
  BY <1>1, <1>5 DEF SalePhase, Launched, NoCall
<1>7. SalePhase(t) \in {"unopened", "open"} /\ ~(call'.kind = "launch" /\ call'.token = t)
  BY <1>1 DEF SalePhase, Launched, NoCall
<1> HIDE DEF cs
<1> QED BY <1>1, <1>2, <1>3, <1>4, <1>5, <1>6, <1>7, SaleMoves

(* A sell to a curve that is on sale. *)
LEMMA SellSale ==
  ASSUME NEW t \in Tokens, NEW who, NEW tokensIn \in Nat, NEW to,
         BooksOK, Sell(t, who, tokensIn, to)
  PROVE  Sale!Next
<1> DEFINE c == curves[t]
           q == CalcSell(c.virtualUsdc, c.virtualTokens, c.tokensSold, tokensIn,
                         c.creatorFeeBps)
           d == SoldBack(c, q, tokensIn)
           cs == [curves EXCEPT ![t] = d]
<1>1. /\ c.creator # NoOne /\ ~c.graduated /\ q.ok
      /\ curves' = cs /\ call' = call /\ ~Entered
  BY Zenon DEF Sell, Launched
<1>2. c \in CurveRecord /\ CurveFit(c) /\ curves \in [Tokens -> CurveRecord]
  BY BooksTypes DEF BooksOK
<1>3. /\ d \in CurveRecord /\ CurveFit(d)
      /\ d.virtualUsdc * d.virtualTokens >= c.virtualUsdc * c.virtualTokens
  BY <1>1, <1>2, SellKeepsShape
<1>4. d.creator = c.creator
  BY <1>2 DEF CurveRecord, SoldBack
<1> HIDE DEF d, q
<1>5. cs \in [Tokens -> CurveRecord] /\ cs[t] = d /\ \A s \in Tokens : s # t => cs[s] = curves[s]
  BY <1>2, <1>3
<1>6. \A s \in Tokens : s # t => SalePhase(s)' = SalePhase(s)
  BY <1>1, <1>5 DEF SalePhase, Launched
<1>7. SalePhase(t) \in {"unopened", "open"} /\ ~(call'.kind = "launch" /\ call'.token = t)
  BY <1>1 DEF SalePhase, Launched, Entered
<1> HIDE DEF cs
<1> QED BY <1>1, <1>2, <1>3, <1>4, <1>5, <1>6, <1>7, SaleMoves

(* createToken up to onLaunch puts nothing on sale. *)
LEMMA CreateTokenSale ==
  ASSUME NEW t \in Tokens, NEW who, NEW fee, NEW plugin, NEW firstBuy, NEW maxLaunchFee,
         BooksOK, TokensInOrder,
         CreateToken(t, who, fee, plugin, firstBuy, maxLaunchFee)
  PROVE  UNCHANGED Sale!saleVars
<1> DEFINE d == [NoCurve EXCEPT !.creator = who, !.creatorFeeBps = fee,
                                !.plugin = plugin,
                                !.pluginHooks = plugin \in HookPlugins]
<1>1. /\ ~Launched(t) /\ ~Entered
      /\ curves' = [curves EXCEPT ![t] = d]
      /\ call'.kind = "launch" /\ call'.token = t
  BY DEF CreateToken
<1>2. curves \in [Tokens -> CurveRecord]
  BY DEF BooksOK
<1>3. d.tokensSold = 0 /\ d.virtualUsdc = VIRTUAL_USDC_0
  BY DEF NoCurve
<1> HIDE DEF d
<1>4. curves'[t] = d /\ \A s \in Tokens : s # t => curves'[s] = curves[s]
  BY <1>1, <1>2
<1>5. curves[t].tokensSold = 0 /\ curves[t].virtualUsdc = VIRTUAL_USDC_0
  BY <1>1 DEF TokensInOrder, TokenInOrder
<1>6. \A s \in Tokens : SalePhase(s)' = SalePhase(s)
  BY <1>1, <1>4 DEF SalePhase, Launched, Entered
<1> QED BY <1>3, <1>4, <1>5, <1>6, SaleStays

(* The end of createToken opens the sale, with the first buy if there is one. *)
LEMMA FinishLaunchSale ==
  ASSUME IInv, CallInOrder, FinishLaunch
  PROVE  Sale!Next
<1> DEFINE t == call.token
<1>1. /\ call.kind = "launch" /\ call' = NoCall /\ t \in Tokens
      /\ LaunchUntouched(t) /\ BooksOK
      /\ IF call.firstBuy = 0
           THEN UNCHANGED <<poolVars, books>>
           ELSE CurveBuy(t, curves[t].creator, call.firstBuy, curves[t].creator)
  BY DEF FinishLaunch, IInv, CallOK, Entered, CallInOrder
<1>2. /\ call.firstBuy \in Nat /\ curves \in [Tokens -> CurveRecord]
      /\ curves[t] \in CurveRecord /\ CurveFit(curves[t])
  BY <1>1, BooksTypes DEF IInv, CallOK, BooksOK
<1>3. curves[t].creator # NoOne /\ curves[t].creator \in Users
  BY <1>1, <1>2 DEF LaunchUntouched, Launched, CurveRecord
<1>4. CASE call.firstBuy = 0
  <2>1. curves' = curves
    BY <1>1, <1>4 DEF books
  <2>2. \A s \in Tokens : s # t => SalePhase(s)' = SalePhase(s)
    BY <1>1, <2>1 DEF SalePhase, Launched, NoCall
  <2>3. SalePhase(t) \in {"unopened", "open"} /\ ~(call'.kind = "launch" /\ call'.token = t)
    BY <1>1 DEF SalePhase, NoCall
  <2>4. curves[t].virtualUsdc * curves[t].virtualTokens \in Int
    BY <1>2 DEF CurveRecord
  <2>5. curves[t].virtualUsdc * curves[t].virtualTokens
          >= curves[t].virtualUsdc * curves[t].virtualTokens
    BY <2>4
  <2> HIDE DEF t
  <2> QED BY <1>1, <1>2, <1>3, <2>1, <2>2, <2>3, <2>5, SaleMoves
<1>5. CASE call.firstBuy # 0
  <2>1. curves[t].creator \in Holders /\ curves[t].creator \in Accounts
    BY <1>3, AccountsApart
  <2> HIDE DEF t
  <2> QED BY <1>1, <1>2, <1>5, <2>1, CurveBuySale DEF t
<1> QED BY <1>4, <1>5

(* A reverted launch was not on sale, a reverted collection has moved none. *)
LEMMA RevertSale ==
  ASSUME IInv, OrderInv, RevertCall
  PROVE  UNCHANGED Sale!saleVars
<1> DEFINE t == call.token
<1>1. /\ curves' = saved.curves /\ call' = NoCall /\ Entered /\ t \in Tokens
      /\ call.kind \in {"launch", "fees"}
  BY DEF RevertCall, IInv, CallOK, Entered
<1>2. CASE call.kind = "fees"
  BY <1>1, <1>2, SaleSame DEF OrderInv, CallInOrder, BooksFrozenInCollection, NoCall
<1>3. CASE call.kind = "launch"
  <2>1. LaunchUntouched(t) /\ SavedInOrder(t)
    BY <1>1, <1>3 DEF OrderInv, CallInOrder
  <2>2. /\ curves'[t].creator = NoOne
        /\ curves'[t].tokensSold = curves[t].tokensSold
        /\ curves'[t].virtualUsdc = curves[t].virtualUsdc
        /\ \A s \in Tokens : s # t => curves'[s] = curves[s]
    BY <1>1, <2>1 DEF LaunchUntouched, SavedInOrder
  <2>3. \A s \in Tokens : SalePhase(s)' = SalePhase(s)
    BY <1>1, <1>3, <2>2 DEF SalePhase, Launched, NoCall
  <2> QED BY <2>2, <2>3, SaleStays
<1> QED BY <1>1, <1>2, <1>3

(* Every step of the launchpad. *)
LEMMA SaleStep ==
  ASSUME IInv, OrderInv, [Next]_vars
  PROVE  Sale!Next \/ UNCHANGED Sale!saleVars
<1>0. BooksOK /\ TokensInOrder /\ CallInOrder /\ Users \subseteq Holders /\ Holders \subseteq Accounts
  BY AccountsApart DEF IInv, OrderInv
<1>1. CASE Administration
  <2>1. UNCHANGED curves /\ call' = call
    BY <1>1 DEF Administration, Initialize, SetFeeTo, SetFeeToSetter, SetLaunchFee, books
  <2> QED BY <2>1, SaleSame
<1>2. CASE Creation
  <2>1. CASE FinishLaunch
    BY <1>0, <2>1, FinishLaunchSale
  <2>2. CASE Launches
    BY <1>0, <2>2, CreateTokenSale DEF Launches
  <2> QED BY <1>2, <2>1, <2>2, Zenon DEF Creation, Launches
<1>3. CASE Trading
  <2>9. PICK t \in Tokens, who \in Holders : \E to \in {who} \cup Recipients :
          \/ \E usdcIn \in BuyAmounts : Buy(t, who, usdcIn, to) \/ RouterBuy(t, who, usdcIn, to)
          \/ \E tokensIn \in SellAmounts :
               Sell(t, who, tokensIn, to) \/ RouterSell(t, who, tokensIn, to)
    BY <1>3, Zenon DEF Trading
  <2>1. PICK to \in {who} \cup Recipients :
          \/ \E usdcIn \in BuyAmounts : Buy(t, who, usdcIn, to) \/ RouterBuy(t, who, usdcIn, to)
          \/ \E tokensIn \in SellAmounts :
               Sell(t, who, tokensIn, to) \/ RouterSell(t, who, tokensIn, to)
    BY <2>9
  <2>2. to \in Accounts /\ BuyAmounts \subseteq Nat /\ SellAmounts \subseteq Nat
    BY <1>0, PoolAssumption, LaunchpadAssumption
  <2>3. ASSUME NEW usdcIn \in BuyAmounts, Buy(t, who, usdcIn, to)
        PROVE  Sale!Next
    <3>1. CurveBuy(t, who, usdcIn, to) /\ call' = call /\ call.kind # "launch"
      BY <2>3 DEF Buy, Entered
    <3> QED BY <1>0, <2>2, <3>1, CurveBuySale
  <2>4. ASSUME NEW amount, RouterBuy(t, who, amount, to) \/ RouterSell(t, who, amount, to)
        PROVE  UNCHANGED Sale!saleVars
    <3>1. UNCHANGED curves /\ call' = call
      BY <2>4, Zenon DEF RouterBuy, RouterSell
    <3> QED BY <3>1, SaleSame
  <2>5. ASSUME NEW tokensIn \in SellAmounts, Sell(t, who, tokensIn, to)
        PROVE  Sale!Next
    BY <1>0, <2>2, <2>5, SellSale
  <2> QED BY <2>1, <2>3, <2>4, <2>5
<1>4. CASE Collection
  <2>1. ASSUME CollectFees \/ \E t \in Tokens : CollectToPlain(t)
        PROVE  UNCHANGED curves /\ call' = call
    BY <2>1 DEF CollectFees, CollectToPlain
  <2>2. ASSUME NEW t \in Tokens, CollectToPlugin(t)
        PROVE  UNCHANGED curves /\ call.kind # "launch" /\ call'.kind # "launch"
    BY <2>2 DEF CollectToPlugin, Entered
  <2>3. ASSUME NEW amount, NEW to, PluginPull(amount, to)
        PROVE  UNCHANGED curves /\ call.kind # "launch" /\ call'.kind # "launch"
    BY <2>3 DEF PluginPull, books, IInv, CallOK
  <2>4. ASSUME FinishFees
        PROVE  UNCHANGED curves /\ call.kind # "launch" /\ call'.kind # "launch"
    BY <2>4 DEF FinishFees, books, NoCall
  <2> QED BY <1>4, <2>1, <2>2, <2>3, <2>4, SaleSame DEF Collection
<1>5. CASE RevertCall
  BY <1>5, RevertSale
<1>6. CASE Assets
  <2>1. UNCHANGED curves /\ call' = call
    BY <1>6 DEF Assets, books
  <2> QED BY <2>1, SaleSame
<1>7. CASE UNCHANGED vars
  <2>1. UNCHANGED curves /\ call' = call
    BY <1>7 DEF vars, books
  <2> QED BY <2>1, SaleSame
<1> QED BY <1>1, <1>2, <1>3, <1>4, <1>5, <1>6, <1>7 DEF Next

(* At the start no sale is open and nothing is sold. *)
LEMMA SaleInit == Init => Sale!Init
<1> SUFFICES ASSUME Init PROVE Sale!Init
  OBVIOUS
<1>1. \A t \in Tokens : /\ curves[t].creator = NoOne /\ curves[t].tokensSold = 0
                        /\ curves[t].virtualUsdc = VIRTUAL_USDC_0
  BY DEF Init, NoCurve
<1>2. \A t \in Tokens : /\ SalePhase(t) = "unopened"
                        /\ curves[t].virtualUsdc - VIRTUAL_USDC_0 = 0
  BY <1>1, LaunchpadAssumption DEF SalePhase, Launched
<1> QED BY <1>1, <1>2 DEF Sale!Init

(* The launchpad implements the abstract sale: whatever plugins, donors,   *)
(* pool traders and the admin do, a token's sale opens once, moves only by *)
(* trades on its curve, never at a loss to its product, and ends with the  *)
(* last token.                                                             *)
THEOREM Implementation == Spec => SaleRefined
<1>1. Init => Sale!Init
  BY SaleInit
<1>2. IInv /\ OrderInv /\ [Next]_vars => [Sale!Next]_Sale!saleVars
  BY SaleStep
<1> QED BY <1>1, <1>2, OrderInvariance, PTL DEF Spec, SaleRefined, Sale!Spec

-----------------------------------------------------------------------------
(* The launch pools, now and in the state an open call would return to:    *)
(* the shares of all holders make up the supply, the minimum stays locked, *)
(* and a pool that has shares has both assets.                             *)
SavedLiquid ==
  \A t \in Tokens : SharesOK(saved.lpSupply[t], saved.lp[t], saved.reserves[t])

LiquidInv == LiquidPools /\ (Entered => SavedLiquid)

LEMMA MintedPools ==
  ASSUME NEW t \in Tokens, BooksOK, BooksOK', LiquidPools,
         NEW token, NEW usd, NEW to \in Accounts, MintTo(t, to, token, usd)
  PROVE  LiquidPools' /\ SharesNotDiluted
<1>1. PoolTypeOK /\ SharesOK(lpSupply[t], lp[t], reserves[t])
  BY DEF BooksOK, LiquidPools
<1>2. token \in Nat /\ usd \in Nat
  <2>1. /\ reserves \in [Tokens -> [token : Nat, usdc : Nat]]
        /\ reserves' \in [Tokens -> [token : Nat, usdc : Nat]]
    BY DEF BooksOK, PoolTypeOK
  <2>2. reserves'[t] = [token |-> token, usdc |-> usd]
    BY <2>1 DEF MintTo, Synced
  <2>3. reserves'[t].token \in Nat /\ reserves'[t].usdc \in Nat
    BY <2>1
  <2> QED BY <2>2, <2>3
<1> QED BY <1>1, <1>2, MintToShares, SharesAt

LEMMA SwappedPools ==
  ASSUME NEW t \in Tokens, BooksOK, BooksOK', LiquidPools,
         NEW tokenOut, NEW usdcOut, NEW token, NEW usd,
         SwapTo(t, tokenOut, usdcOut, token, usd), UNCHANGED <<lp, lpSupply>>
  PROVE  LiquidPools' /\ SharesNotDiluted
<1>1. PoolTypeOK /\ SharesOK(lpSupply[t], lp[t], reserves[t])
  BY DEF BooksOK, LiquidPools
<1>2. token \in Nat /\ usd \in Nat
  <2>1. /\ reserves \in [Tokens -> [token : Nat, usdc : Nat]]
        /\ reserves' \in [Tokens -> [token : Nat, usdc : Nat]]
    BY DEF BooksOK, PoolTypeOK
  <2>2. reserves'[t] = [token |-> token, usdc |-> usd]
    BY <2>1 DEF SwapTo, Synced
  <2>3. reserves'[t].token \in Nat /\ reserves'[t].usdc \in Nat
    BY <2>1
  <2> QED BY <2>2, <2>3
<1> QED BY <1>1, <1>2, SwapShares, SharesAt

(* A curve buy touches no pool, or it opens its own. *)
LEMMA CurveBuyPools ==
  ASSUME NEW t \in Tokens, BooksOK, BooksOK', LiquidPools,
         NEW payer, NEW usdcIn, NEW to, CurveBuy(t, payer, usdcIn, to)
  PROVE  LiquidPools' /\ SharesNotDiluted
<1>1. \/ UNCHANGED <<lp, lpSupply, reserves>>
      \/ \E raised, paid, sent : Graduation(t, raised, paid, sent)
  BY Zenon DEF CurveBuy
<1>2. ASSUME NEW raised, NEW paid, NEW sent, Graduation(t, raised, paid, sent)
      PROVE  LiquidPools' /\ SharesNotDiluted
  <2>1. \E token, usd : MintTo(t, Dead, token, usd)
    BY <1>2, Zenon DEF Graduation
  <2>2. Dead \in Accounts
    BY DEF Accounts
  <2> QED BY <2>1, <2>2, MintedPools
<1> QED BY <1>1, <1>2, SharesStay DEF BooksOK

(* Every step but a revert keeps every pool's shares and their worth. *)
LEMMA PoolsKept ==
  ASSUME IInv, IInv', LiquidPools, [Next]_vars
  PROVE  RevertCall \/ (LiquidPools' /\ SharesNotDiluted)
<1>0. BooksOK /\ BooksOK' /\ PoolTypeOK /\ ReservesBacked
  BY DEF IInv, BooksOK
<1>1. ASSUME UNCHANGED <<lp, lpSupply, reserves>>
      PROVE  LiquidPools' /\ SharesNotDiluted
  BY <1>0, <1>1, SharesStay
<1>2. ASSUME Administration \/ UNCHANGED vars PROVE UNCHANGED <<lp, lpSupply, reserves>>
  BY <1>2 DEF Administration, Initialize, SetFeeTo, SetFeeToSetter, SetLaunchFee,
              vars, poolVars
<1>3. ASSUME NEW t \in Tokens, NEW payer, NEW usdcIn, NEW to, CurveBuy(t, payer, usdcIn, to)
      PROVE  LiquidPools' /\ SharesNotDiluted
  BY <1>0, <1>3, CurveBuyPools
<1>4. CASE Creation
  <2>1. ASSUME NEW t, NEW who, NEW fee, NEW plugin, NEW firstBuy, NEW maxLaunchFee,
               CreateToken(t, who, fee, plugin, firstBuy, maxLaunchFee)
        PROVE  UNCHANGED <<lp, lpSupply, reserves>>
    BY <2>1, Zenon DEF CreateToken
  <2>2. ASSUME FinishLaunch
        PROVE  LiquidPools' /\ SharesNotDiluted
    <3>1. call.token \in Tokens
      BY <2>2 DEF IInv, CallOK, FinishLaunch, Entered
    <3>2. \/ UNCHANGED poolVars
          \/ CurveBuy(call.token, curves[call.token].creator, call.firstBuy,
                      curves[call.token].creator)
      BY <2>2, Zenon DEF FinishLaunch
    <3>3. UNCHANGED poolVars => UNCHANGED <<lp, lpSupply, reserves>>
      BY DEF poolVars
    <3> QED BY <1>1, <1>3, <3>1, <3>2, <3>3
  <2> QED BY <1>1, <1>4, <2>1, <2>2, Zenon DEF Creation
<1>5. CASE Trading
  <2>1. ASSUME NEW t \in Tokens, NEW who, NEW amount, NEW to,
               Buy(t, who, amount, to) \/ RouterBuy(t, who, amount, to)
                 \/ Sell(t, who, amount, to) \/ RouterSell(t, who, amount, to)
        PROVE  LiquidPools' /\ SharesNotDiluted
    <3>1. CASE Buy(t, who, amount, to)
      BY <1>3, <3>1 DEF Buy
    <3>2. CASE Sell(t, who, amount, to)
      BY <1>1, <3>2, Zenon DEF Sell
    <3>3. CASE RouterBuy(t, who, amount, to) \/ RouterSell(t, who, amount, to)
      <4>1. /\ \E out1, out2, x, y : SwapTo(t, out1, out2, x, y)
            /\ UNCHANGED <<lp, lpSupply>>
        BY <3>3, Zenon DEF RouterBuy, RouterSell
      <4> QED BY <1>0, <4>1, SwappedPools
    <3> QED BY <2>1, <3>1, <3>2, <3>3
  <2> QED BY <1>5, <2>1, Zenon DEF Trading
<1>6. CASE Collection
  <2>1. ASSUME NEW t, CollectToPlain(t) \/ CollectToPlugin(t)
        PROVE  UNCHANGED <<lp, lpSupply, reserves>>
    BY <2>1 DEF CollectToPlain, CollectToPlugin, poolVars
  <2>2. ASSUME NEW amount, NEW to, PluginPull(amount, to)
        PROVE  UNCHANGED <<lp, lpSupply, reserves>>
    BY <2>2 DEF PluginPull
  <2>3. ASSUME CollectFees \/ FinishFees PROVE UNCHANGED <<lp, lpSupply, reserves>>
    BY <2>3 DEF CollectFees, FinishFees, poolVars
  <2> QED BY <1>1, <1>6, <2>1, <2>2, <2>3, Zenon DEF Collection
<1>7. CASE Assets
  <2>1. ASSUME NEW from, NEW to, NEW amount, TransferUsdc(from, to, amount)
        PROVE  UNCHANGED <<lp, lpSupply, reserves>>
    BY <2>1 DEF TransferUsdc
  <2>2. ASSUME NEW t \in Tokens, PoolStep(t)
        PROVE  LiquidPools' /\ SharesNotDiluted
    BY <1>0, <2>2, PoolStepShares
  <2> QED BY <1>1, <1>7, <2>1, <2>2, Zenon DEF Assets
<1> HIDE DEF vars
<1> QED BY <1>1, <1>2, <1>4, <1>5, <1>6, <1>7, Zenon DEF Next

LEMMA LiquidStep ==
  ASSUME IInv, IInv', LiquidInv, [Next]_vars
  PROVE  LiquidInv'
<1>0. CallOK /\ LiquidPools
  BY DEF IInv, LiquidInv
<1>1. CASE RevertCall
  <2>1. /\ Entered /\ ~Entered' /\ lp' = saved.lp /\ lpSupply' = saved.lpSupply
        /\ reserves' = saved.reserves
    BY <1>1 DEF RevertCall, Entered, NoCall
  <2> QED BY <2>1 DEF LiquidInv, SavedLiquid, LiquidPools
<1>2. CASE LiquidPools'
  <2>1. CASE UNCHANGED <<call, saved>>
    BY <1>2, <2>1 DEF LiquidInv, Entered, SavedLiquid
  <2>2. CASE call' = NoCall
    BY <1>2, <2>2 DEF LiquidInv, Entered, NoCall
  <2>3. CASE Launches \/ CallsPlugin
    <3>1. saved' = Snapshot
      BY <2>3, CallOpens
    <3>2. SavedLiquid'
      BY <1>0, <3>1 DEF SavedLiquid, Snapshot, LiquidPools
    <3> QED BY <1>2, <3>2 DEF LiquidInv
  <2>4. CASE Spends
    BY <1>2, <2>4 DEF Spends, LiquidInv, Entered, SavedLiquid
  <2>5. CASE UNCHANGED vars
    BY <2>1, <2>5 DEF vars
  <2> QED BY <1>0, <2>1, <2>2, <2>3, <2>4, <2>5, CallSteps
<1> QED BY <1>0, <1>1, <1>2, PoolsKept

LEMMA LiquidInit == Init => LiquidInv
<1> SUFFICES ASSUME Init PROVE LiquidInv
  OBVIOUS
<1>1. ASSUME NEW t \in Tokens PROVE SharesOK(lpSupply[t], lp[t], reserves[t])
  <2>1. lpSupply[t] = 0 /\ \A a \in Accounts : lp[t][a] = 0
    BY DEF Init
  <2> DEFINE shares == lp[t]
  <2>2. \A a \in Accounts : shares[a] = 0
    BY <2>1
  <2> HIDE DEF shares
  <2>3. SumOver(Accounts, shares) = 0
    BY <2>2, AccountsFinite, SumZero
  <2> QED BY <2>1, <2>3 DEF SharesOK, shares
<1>2. ~Entered
  BY DEF Init, Entered, NoCall
<1> QED BY <1>1, <1>2 DEF LiquidInv, LiquidPools

(* In every pool, now and wherever an open call would return to, the       *)
(* shares of all holders make up the supply.                               *)
THEOREM LiquidInvariance == Spec => [](IInv /\ LiquidInv)
<1>1. Init => IInv /\ LiquidInv
  BY InitInv, LiquidInit
<1>2. IInv /\ LiquidInv /\ [Next]_vars => IInv' /\ LiquidInv'
  BY NextInv, LiquidStep
<1> QED BY <1>1, <1>2, PTL DEF Spec

(* LaunchPair's checks: no trade, mint, burn, gift or sync in any order    *)
(* ever makes a share of a launch pool worth less.                         *)
THEOREM SharesKeepWorth == Spec => PoolSharesNotDiluted
<1>1. IInv /\ LiquidInv /\ IInv' /\ [Next]_vars => [RevertCall \/ SharesNotDiluted]_vars
  BY PoolsKept DEF LiquidInv
<1> QED BY <1>1, LiquidInvariance, PTL DEF Spec, PoolSharesNotDiluted

(* A pool that has been opened never runs dry, and its supply never falls  *)
(* below the minimum the first mint locks.                                 *)
THEOREM PoolsLast == Spec => []PoolNeverEmpties
<1>1. IInv /\ LiquidInv => PoolNeverEmpties
  <2> SUFFICES ASSUME IInv, LiquidInv, NEW t \in Tokens, lpSupply[t] > 0
               PROVE  /\ lpSupply[t] >= MINIMUM_LIQUIDITY
                      /\ reserves[t].token > 0 /\ reserves[t].usdc > 0
    BY DEF PoolNeverEmpties
  <2>1. SharesOK(lpSupply[t], lp[t], reserves[t])
    BY DEF LiquidInv, LiquidPools
  <2>2. lp[t] \in Ledger /\ Dead \in Accounts
    BY PoolParts DEF IInv, BooksOK
  <2> DEFINE s == lpSupply[t]  locked == lp[t][Dead]
  <2>3. locked \in Nat /\ locked <= s /\ s \in Nat /\ locked >= MINIMUM_LIQUIDITY
    BY <2>1, <2>2, SupplyType DEF SharesOK
  <2>4. s >= MINIMUM_LIQUIDITY
    <3> HIDE DEF s, locked
    <3> QED BY <2>3, PoolAssumption
  <2> QED BY <2>1, <2>4 DEF SharesOK
<1> QED BY <1>1, LiquidInvariance, PTL

-----------------------------------------------------------------------------
(* Graduation cannot be blocked: the sell-out raises at least what the     *)
(* first product asks for, and with the pool's share that opens a pool.    *)
LEMMA RaisedEnough ==
  ASSUME NEW k \in Nat, k >= VIRTUAL_USDC_0 * VIRTUAL_TOKENS_0
  PROVE  /\ DivCeil(k, VIRTUAL_TOKENS_0 - CURVE_SUPPLY) \in Int
         /\ DivCeil(k, VIRTUAL_TOKENS_0 - CURVE_SUPPLY)
              >= DivCeil(VIRTUAL_USDC_0 * VIRTUAL_TOKENS_0, VIRTUAL_TOKENS_0 - CURVE_SUPPLY)
<1> DEFINE left == VIRTUAL_TOKENS_0 - CURVE_SUPPLY
           k0 == VIRTUAL_USDC_0 * VIRTUAL_TOKENS_0
           d == DivCeil(k, left)
<1>1. left \in Nat /\ left > 0 /\ k0 \in Nat /\ k0 <= k
  BY LaunchpadAssumption
<1> HIDE DEF left, k0
<1>2. d \in Int /\ k <= d * left
  BY <1>1, DivCeilBounds
<1> HIDE DEF d
<1>3. d * left \in Int
  BY <1>1, <1>2
<1>4. k0 <= d * left
  BY <1>1, <1>2, <1>3
<1>5. DivCeil(k0, left) <= d /\ DivCeil(k0, left) \in Int
  BY <1>1, <1>2, <1>4, DivCeilLeast, DivCeilBounds
<1> QED BY <1>2, <1>5 DEF d, left, k0

(* A first mint of two sides whose product is large enough creates LP. *)
LEMMA FirstMintOpens ==
  ASSUME NEW x \in Nat, x >= (MINIMUM_LIQUIDITY + 1) * (MINIMUM_LIQUIDITY + 1)
  PROVE  \E root \in Roots(x) : root - MINIMUM_LIQUIDITY \in Nat \ {0}
<1> DEFINE n == MINIMUM_LIQUIDITY + 1
<1>1. MINIMUM_LIQUIDITY \in Nat /\ n \in Nat
  BY PoolAssumption
<1>2. PICK root \in 0..x : IsRoot(root, x)
  BY RootExists
<1>3. root \in Nat /\ root + 1 \in Nat
  OBVIOUS
<1> DEFINE up == (root + 1) * (root + 1)
           sq == n * n
<1>4. up \in Nat /\ sq \in Nat /\ x < up /\ sq <= x
  BY <1>1, <1>2, <1>3 DEF IsRoot
<1>5. ~(root + 1 <= n)
  <2> SUFFICES ASSUME root + 1 <= n PROVE FALSE
    OBVIOUS
  <2>1. up <= sq
    BY <1>1, <1>3, Squares
  <2> HIDE DEF up, sq
  <2> QED BY <1>4, <2>1
<1>6. root - MINIMUM_LIQUIDITY \in Nat \ {0}
  BY <1>1, <1>3, <1>5
<1>7. root \in Roots(x)
  BY <1>2 DEF Roots, IsRoot
<1> QED BY <1>6, <1>7

(* Whatever is donated to the pair or synced, its opening mint goes        *)
(* through.                                                                *)
LEMMA OpensFromOrder ==
  ASSUME BooksOK, TokensInOrder
  PROVE  GraduationOpen
<1> SUFFICES ASSUME NEW t \in Tokens, Launched(t), ~graduated[t]
             PROVE  LET k      == curves[t].virtualUsdc * curves[t].virtualTokens
                        raised == DivCeil(k, VIRTUAL_TOKENS_0 - CURVE_SUPPLY) - VIRTUAL_USDC_0
                    IN  /\ lpSupply[t] = 0
                        /\ LiquidityFor(t, bal[t][Pair[t]] + POOL_SUPPLY, usdc[Pair[t]] + raised)
                              \cap (Nat \ {0}) # {}
  BY DEF GraduationOpen
<1> DEFINE k == curves[t].virtualUsdc * curves[t].virtualTokens
           d == DivCeil(k, VIRTUAL_TOKENS_0 - CURVE_SUPPLY)
           d0 == DivCeil(VIRTUAL_USDC_0 * VIRTUAL_TOKENS_0, VIRTUAL_TOKENS_0 - CURVE_SUPPLY)
           raised == d - VIRTUAL_USDC_0
           token == bal[t][Pair[t]] + POOL_SUPPLY
           usd == usdc[Pair[t]] + raised
           tokenIn == token - reserves[t].token
           usdcIn == usd - reserves[t].usdc
           least == (MINIMUM_LIQUIDITY + 1) * (MINIMUM_LIQUIDITY + 1)
<1>1. PairUnopened(t)
  BY DEF TokensInOrder, TokenInOrder
<1>2. /\ curves[t].virtualUsdc \in Nat /\ curves[t].virtualTokens \in Nat
      /\ curves[t].virtualUsdc * curves[t].virtualTokens >= VIRTUAL_USDC_0 * VIRTUAL_TOKENS_0
  BY DEF BooksOK, CurveFit, CurveShape, CurveRecord
<1>3. k \in Nat /\ k >= VIRTUAL_USDC_0 * VIRTUAL_TOKENS_0
  BY <1>2
<1> HIDE DEF k
<1>4. d \in Int /\ d >= d0
  BY <1>3, RaisedEnough
<1>5. d0 \in Int
  <2> DEFINE left == VIRTUAL_TOKENS_0 - CURVE_SUPPLY
             k0 == VIRTUAL_USDC_0 * VIRTUAL_TOKENS_0
  <2>1. left \in Nat /\ left > 0 /\ k0 \in Int
    BY LaunchpadAssumption
  <2> HIDE DEF left, k0
  <2>2. DivCeil(k0, left) \in Int
    BY <2>1, DivCeilBounds
  <2> QED BY <2>2 DEF left, k0
<1>6. POOL_SUPPLY * (d0 - VIRTUAL_USDC_0) >= least /\ least \in Nat /\ least > 0
  <2>1. POOL_SUPPLY * (d0 - VIRTUAL_USDC_0) >= least
    BY OpeningAssumption
  <2>2. least \in Nat /\ least > 0
    BY PoolAssumption, SMT
  <2> QED BY <2>1, <2>2
<1> HIDE DEF d, d0, least
<1>7. /\ VIRTUAL_USDC_0 \in Nat /\ POOL_SUPPLY \in Nat
  BY LaunchpadAssumption
<1>8. /\ reserves[t].usdc \in Nat /\ usdc[Pair[t]] \in Nat /\ reserves[t].usdc <= usdc[Pair[t]]
      /\ reserves[t].token = 0 /\ bal[t][Pair[t]] = 0 /\ lpSupply[t] = 0
  BY <1>1, PoolAssumption DEF Accounts, Pairs, BooksOK, PoolTypeOK, ReservesBacked, PairUnopened
<1>9. tokenIn = POOL_SUPPLY /\ usdcIn \in Int /\ usdcIn >= d0 - VIRTUAL_USDC_0
  BY <1>4, <1>5, <1>7, <1>8
<1> HIDE DEF token, usd
<1>10. tokenIn * usdcIn \in Nat /\ tokenIn * usdcIn >= least
  <2> DEFINE e == d0 - VIRTUAL_USDC_0
             u == usdcIn
  <2>1. e \in Int /\ u \in Int /\ e <= u /\ POOL_SUPPLY * e >= least
    BY <1>5, <1>6, <1>7, <1>9
  <2> HIDE DEF e, u
  <2>2. e * POOL_SUPPLY <= u * POOL_SUPPLY
    BY <2>1, <1>7, MulMono
  <2>3. POOL_SUPPLY * u \in Int /\ POOL_SUPPLY * u >= least
    BY <2>1, <2>2, <1>6, <1>7
  <2>4. tokenIn * usdcIn = POOL_SUPPLY * u
    BY <1>9 DEF u
  <2> QED BY <2>3, <2>4, <1>6
<1>11. PICK root \in Roots(tokenIn * usdcIn) : root - MINIMUM_LIQUIDITY \in Nat \ {0}
  BY <1>10, FirstMintOpens DEF least
<1>12. LiquidityFor(t, token, usd)
         = {r - MINIMUM_LIQUIDITY : r \in Roots(tokenIn * usdcIn)}
  BY <1>8 DEF LiquidityFor
<1>13. LiquidityFor(t, token, usd) \cap (Nat \ {0}) # {}
  BY <1>11, <1>12
<1> QED BY <1>8, <1>13 DEF token, usd, d, k

(* At every moment the sell-out buy of every live curve can open its pool. *)
THEOREM NeverBlocked == Spec => []GraduationOpen
<1>1. IInv /\ OrderInv => GraduationOpen
  BY OpensFromOrder DEF IInv, OrderInv
<1> QED BY <1>1, OrderInvariance, PTL

-----------------------------------------------------------------------------
(* Where nobody sends the launchpad USDC unasked, its books are exact, now *)
(* and in the state an open call would return to.                          *)
SavedExact ==
  saved.usdc[Pad] = Owed(saved.pendingFees, saved.pendingCreatorFees, saved.curves)

UnitInv == Pad \notin Recipients => SolventToTheUnit /\ (Entered => SavedExact)

LEMMA RevertUnit ==
  ASSUME IInv, IInv', SavedExact, RevertCall
  PROVE  Surplus' = 0
<1>1. /\ usdc' = saved.usdc /\ call'.allowance = 0
      /\ Books' = Owed(saved.pendingFees, saved.pendingCreatorFees, saved.curves)
  BY DEF RevertCall, Books, NoCall
<1>2. (BooksOK /\ CallOK => /\ Books \in Int /\ usdc[Pad] \in Nat
                            /\ Surplus = usdc[Pad] - Books - call.allowance)'
  BY SurplusType, PTL
<1>3. /\ Books' \in Int /\ usdc'[Pad] = Books'
      /\ Surplus' = usdc'[Pad] - Books' - call'.allowance
  BY <1>1, <1>2 DEF IInv, SavedExact
<1> QED BY <1>1, <1>3

LEMMA UnitStep ==
  ASSUME IInv, IInv', SolventInv, UnitInv, [Next]_vars
  PROVE  UnitInv'
<1> SUFFICES ASSUME Pad \notin Recipients
             PROVE  Surplus' = 0 /\ (Entered => SavedExact)'
  BY DEF UnitInv, SolventToTheUnit
<1>0. /\ BooksOK /\ CallOK /\ Books \in Int /\ usdc[Pad] \in Nat
      /\ Surplus = 0 /\ (Entered => SavedExact)
  BY SurplusType DEF IInv, UnitInv, SolventToTheUnit
<1>1. Surplus' = 0
  <2>1. CASE RevertCall
    BY <1>0, <2>1, RevertUnit DEF RevertCall
  <2>2. CASE Keeps(Surplus', Surplus)
    BY <1>0, <2>2 DEF Keeps
  <2> QED BY <2>1, <2>2, SurplusSteps DEF SolventInv
<1>2. CASE UNCHANGED <<call, saved>>
  BY <1>0, <1>1, <1>2 DEF Entered, SavedExact
<1>3. CASE call' = NoCall
  BY <1>1, <1>3 DEF Entered, NoCall
<1>4. CASE Launches \/ CallsPlugin
  <2>0. ~Entered /\ saved' = Snapshot
    BY <1>4, CallOpens
  <2>1. call.allowance = 0
    BY <2>0 DEF SolventInv, NoAllowance, Entered
  <2>2. Surplus = usdc[Pad] - Books - call.allowance
    BY <1>0, SurplusType
  <2>3. usdc[Pad] = Books
    BY <1>0, <2>1, <2>2
  <2>4. SavedExact'
    BY <2>0, <2>3 DEF SavedExact, Snapshot, Books
  <2> QED BY <1>1, <2>4
<1>5. CASE Spends
  BY <1>0, <1>1, <1>5 DEF Spends, Entered, SavedExact
<1>6. CASE UNCHANGED vars
  BY <1>2, <1>6 DEF vars
<1> QED BY <1>0, <1>2, <1>3, <1>4, <1>5, <1>6, CallSteps

LEMMA UnitInit == Init => UnitInv
<1> SUFFICES ASSUME Init PROVE Surplus = 0 /\ ~Entered
  BY DEF UnitInv, SolventToTheUnit
<1>1. usdc[Pad] = 0 /\ call.allowance = 0 /\ ~Entered
  BY AccountsApart DEF Init, NoCall, Entered
<1>2. Books = 0
  BY NothingOwed
<1> QED BY <1>1, <1>2 DEF Surplus

(* V13-SPEC 6.1: the launchpad holds what its books say, to the unit, at   *)
(* every moment a plugin can look, if nobody sends it USDC unasked.        *)
THEOREM ExactBooks == Spec => []((Pad \notin Recipients) => SolventToTheUnit)
<1>1. Init => IInv /\ SolventInv /\ UnitInv
  BY InitInv, SolventInit, UnitInit
<1>2. IInv /\ SolventInv /\ UnitInv /\ [Next]_vars => IInv' /\ SolventInv' /\ UnitInv'
  BY NextInv, SolventStep, UnitStep
<1>3. UnitInv => ((Pad \notin Recipients) => SolventToTheUnit)
  BY DEF UnitInv
<1> QED BY <1>1, <1>2, <1>3, PTL DEF Spec

(* A curve always reaches a pool that lasts: the books are exact, the      *)
(* tokens are there, nobody can block the mint of a sell-out, and the pool *)
(* it opens never runs dry.                                                *)
THEOREM GraduationSafe == Spec => []((Pad \notin Recipients) => GraduationIsSafe)
<1>1. /\ (Pad \notin Recipients) => SolventToTheUnit
      /\ InventoryCovered /\ GraduationOpen /\ PoolNeverEmpties
      => ((Pad \notin Recipients) => GraduationIsSafe)
  BY DEF GraduationIsSafe
<1> QED BY <1>1, ExactBooks, Inventory, NeverBlocked, PoolsLast, PTL
=============================================================================
