------------------------ MODULE ArchitexRouterProofs ------------------------
(***************************************************************************)
(* What holds of the router for every number of tokens and users, every    *)
(* path and amount, and whatever outsiders send to the pairs: nothing      *)
(* stays with it, no pair it swaps in loses product, permits stay good,    *)
(* and what it quotes it can carry out.                                    *)
(***************************************************************************)
EXTENDS AmmQuotes, ArithmeticProofs

-----------------------------------------------------------------------------
(* The two sides of a pair. *)

(* a is token0 of the pair and b token1. *)
Sides(p, a, b) ==
  /\ a \in Tokens /\ b \in Tokens /\ a # b /\ p = {a, b}
  /\ IsToken0(a, p) /\ ~IsToken0(b, p)

LEMMA PairHasTwo ==
  ASSUME NEW p \in Pairs
  PROVE  \E a, b \in Tokens : a # b /\ p = {a, b}
<1>1. p \subseteq Tokens /\ IsFiniteSet(p) /\ Cardinality(p) = 2
  BY RouterAssumption, FS_Subset DEF Pairs
<1>2. p # {}
  BY <1>1, FS_EmptySet
<1>3. PICK a \in p : TRUE
  BY <1>2
<1>4. IsFiniteSet(p \ {a}) /\ Cardinality(p \ {a}) = 1
  BY <1>1, FS_RemoveElement
<1>5. p \ {a} # {}
  BY <1>4, FS_EmptySet
<1>6. PICK b \in p \ {a} : TRUE
  BY <1>5
<1>7. (p \ {a}) \ {b} = {}
  <2> DEFINE rest == p \ {a}
  <2>1. IsFiniteSet(rest) /\ Cardinality(rest) = 1 /\ b \in rest
    BY <1>4
  <2> HIDE DEF rest
  <2>2. IsFiniteSet(rest \ {b}) /\ Cardinality(rest \ {b}) = 1 - 1
    BY <2>1, FS_RemoveElement
  <2>3. rest \ {b} = {}
    BY <2>2, FS_EmptySet
  <2> QED BY <2>3 DEF rest
<1> QED BY <1>1, <1>7

LEMMA TwoArePair ==
  ASSUME NEW a \in Tokens, NEW b \in Tokens, a # b
  PROVE  {a, b} \in Pairs
<1>1. IsFiniteSet({}) /\ Cardinality({}) = 0
  BY FS_EmptySet
<1>2. IsFiniteSet({a}) /\ Cardinality({a}) = 1
  BY FS_Singleton
<1>3. Cardinality({a} \cup {b}) = 2
  BY <1>2, FS_AddElement
<1>4. {a} \cup {b} = {a, b}
  OBVIOUS
<1> QED BY <1>3, <1>4 DEF Pairs

LEMMA PairSides ==
  ASSUME NEW p \in Pairs
  PROVE  \E a, b : Sides(p, a, b)
<1>1. PICK a, b \in Tokens : a # b /\ p = {a, b}
  BY PairHasTwo
<1>2. Address[a] \in Nat /\ Address[b] \in Nat /\ Address[a] # Address[b]
  BY <1>1, RouterAssumption
<1>3. CASE Address[a] < Address[b]
  BY <1>1, <1>2, <1>3 DEF Sides, IsToken0
<1>4. CASE Address[b] < Address[a]
  BY <1>1, <1>2, <1>4 DEF Sides, IsToken0
<1> QED BY <1>2, <1>3, <1>4

LEMMA SidesAre ==
  ASSUME NEW p, NEW a, NEW b, Sides(p, a, b)
  PROVE  /\ Other(a, p) = b /\ Other(b, p) = a
         /\ (CHOOSE t \in p : IsToken0(t, p)) = a
BY DEF Sides, Other

(* Which records of a pool are whose. *)
LEMMA SideRecords ==
  ASSUME NEW p, NEW a, NEW b, Sides(p, a, b), NEW q
  PROVE  /\ BalanceOf(q, p, a) = q.balance0 /\ BalanceOf(q, p, b) = q.balance1
         /\ \A t : t # a /\ t # b => BalanceOf(q, p, t) = 0
         /\ ReserveOf(q, p, a) = q.reserve0 /\ ReserveOf(q, p, b) = q.reserve1
BY DEF Sides, BalanceOf, ReserveOf

-----------------------------------------------------------------------------
(* Pools. *)

(* A pool whose records are covered by its balances. *)
GoodPool(q) ==
  /\ q \in PoolShape
  /\ q.reserve0 <= q.balance0 /\ q.reserve1 <= q.balance1

LEMMA BalanceType ==
  ASSUME NEW p \in Pairs, NEW q \in PoolShape, NEW t
  PROVE  BalanceOf(q, p, t) \in Nat
BY DEF BalanceOf, PoolShape

LEMMA ReserveType ==
  ASSUME NEW p \in Pairs, NEW q \in PoolShape, NEW t
  PROVE  ReserveOf(q, p, t) \in Nat
BY DEF ReserveOf, PoolShape

(* A pool with other balances. *)
LEMMA WithBalancesPool ==
  ASSUME NEW q \in PoolShape, NEW balance0 \in Nat, NEW balance1 \in Nat
  PROVE  LET w == WithBalances(q, balance0, balance1)
         IN  /\ w \in PoolShape
             /\ w.balance0 = balance0 /\ w.balance1 = balance1
             /\ w.reserve0 = q.reserve0 /\ w.reserve1 = q.reserve1
             /\ w.supply = q.supply /\ Product(w) = Product(q)
BY DEF WithBalances, PoolShape, Product

(* Tokens sent to a pair. *)
LEMMA GivenPool ==
  ASSUME NEW p \in Pairs, NEW t \in p, NEW q \in PoolShape, NEW amount \in Nat
  PROVE  LET w == Given(q, p, t, amount)
         IN  /\ w \in PoolShape
             /\ w.reserve0 = q.reserve0 /\ w.reserve1 = q.reserve1
             /\ q.balance0 <= w.balance0 /\ q.balance1 <= w.balance1
             /\ w.supply = q.supply /\ Product(w) = Product(q)
             /\ GoodPool(q) => GoodPool(w)
             /\ \A x : BalanceOf(w, p, x) = BalanceOf(q, p, x) + (IF x = t THEN amount ELSE 0)
<1> DEFINE w == Given(q, p, t, amount)
<1>1. q.balance0 \in Nat /\ q.balance1 \in Nat /\ q.reserve0 \in Nat /\ q.reserve1 \in Nat
  BY DEF PoolShape
<1>2. PICK a, b : Sides(p, a, b)
  BY PairSides
<1>3. CASE t = a
  <2>0. q.balance0 + amount \in Nat /\ q.balance1 \in Nat
    BY <1>1
  <2>1. w = WithBalances(q, q.balance0 + amount, q.balance1)
    BY <1>2, <1>3 DEF Given, Sides
  <2> HIDE DEF w
  <2>2. /\ w \in PoolShape
        /\ w.balance0 = q.balance0 + amount /\ w.balance1 = q.balance1
        /\ w.reserve0 = q.reserve0 /\ w.reserve1 = q.reserve1
        /\ w.supply = q.supply /\ Product(w) = Product(q)
    BY <2>0, <2>1 DEF WithBalances, PoolShape, Product
  <2>3. \A x : BalanceOf(w, p, x) = BalanceOf(q, p, x) + (IF x = t THEN amount ELSE 0)
    BY <1>1, <1>2, <1>3, <2>2, SideRecords DEF Sides
  <2> QED BY <1>1, <2>2, <2>3 DEF GoodPool, w
<1>4. CASE t = b
  <2>0. q.balance0 \in Nat /\ q.balance1 + amount \in Nat
    BY <1>1
  <2>1. w = WithBalances(q, q.balance0, q.balance1 + amount)
    BY <1>2, <1>4 DEF Given, Sides
  <2> HIDE DEF w
  <2>2. /\ w \in PoolShape
        /\ w.balance0 = q.balance0 /\ w.balance1 = q.balance1 + amount
        /\ w.reserve0 = q.reserve0 /\ w.reserve1 = q.reserve1
        /\ w.supply = q.supply /\ Product(w) = Product(q)
    BY <2>0, <2>1 DEF WithBalances, PoolShape, Product
  <2>3. \A x : BalanceOf(w, p, x) = BalanceOf(q, p, x) + (IF x = t THEN amount ELSE 0)
    BY <1>1, <1>2, <1>4, <2>2, SideRecords DEF Sides
  <2> QED BY <1>1, <2>2, <2>3 DEF GoodPool, w
<1> QED BY <1>2, <1>3, <1>4 DEF Sides

(* What a hop takes out of a pair is on one side of it. *)
OutOf0(p, t, out) == IF IsToken0(t, p) THEN out ELSE 0
OutOf1(p, t, out) == out - OutOf0(p, t, out)

LEMMA PaidPool ==
  ASSUME NEW p \in Pairs, NEW t \in p, NEW q, GoodPool(q), NEW out \in Nat,
         Payable(q, OutOf0(p, t, out), OutOf1(p, t, out))
  PROVE  LET out0 == OutOf0(p, t, out)
             out1 == OutOf1(p, t, out)
             w == Paid(q, out0, out1)
         IN  /\ out0 \in Nat /\ out1 \in Nat /\ out0 <= q.reserve0 /\ out1 <= q.reserve1
             /\ w \in PoolShape
             /\ w.reserve0 = q.reserve0 /\ w.reserve1 = q.reserve1
             /\ w.supply = q.supply /\ Product(w) = Product(q)
             /\ \A x : BalanceOf(w, p, x) = BalanceOf(q, p, x) - (IF x = t THEN out ELSE 0)
<1> DEFINE out0 == OutOf0(p, t, out)
           out1 == OutOf1(p, t, out)
           w == Paid(q, out0, out1)
<1>1. q \in PoolShape /\ q.balance0 \in Nat /\ q.balance1 \in Nat /\ q.reserve0 \in Nat /\ q.reserve1 \in Nat
      /\ q.reserve0 <= q.balance0 /\ q.reserve1 <= q.balance1
  BY DEF PoolShape, GoodPool
<1>2. PICK a, b : Sides(p, a, b)
  BY PairSides
<1>3. \/ t = a /\ out0 = out /\ out1 = 0
      \/ t = b /\ out0 = 0 /\ out1 = out
  BY <1>2 DEF Sides, OutOf0, OutOf1
<1>4. out0 < q.reserve0 /\ out1 < q.reserve1
  BY DEF Payable
<1> HIDE DEF out0, out1
<1>5. out0 \in Nat /\ out1 \in Nat /\ q.balance0 - out0 \in Nat /\ q.balance1 - out1 \in Nat
  BY <1>1, <1>3, <1>4
<1>6. /\ w \in PoolShape
      /\ w.balance0 = q.balance0 - out0 /\ w.balance1 = q.balance1 - out1
      /\ w.reserve0 = q.reserve0 /\ w.reserve1 = q.reserve1
      /\ w.supply = q.supply /\ Product(w) = Product(q)
  BY <1>1, <1>5, WithBalancesPool DEF Paid
<1> HIDE DEF w
<1>7. \A x : BalanceOf(w, p, x) = BalanceOf(q, p, x) - (IF x = t THEN out ELSE 0)
  <2> TAKE x
  <2>1. CASE x = a
    BY <1>1, <1>2, <1>3, <1>6, <2>1, SideRecords DEF Sides
  <2>2. CASE x = b
    BY <1>1, <1>2, <1>3, <1>6, <2>2, SideRecords DEF Sides
  <2>3. CASE x # a /\ x # b
    BY <1>2, <1>3, <2>3, SideRecords
  <2> QED BY <2>1, <2>2, <2>3
<1> QED BY <1>1, <1>4, <1>5, <1>6, <1>7 DEF w, out0, out1

(* A swap that settles leaves a pool that lost no product. *)
LEMMA SettledPool ==
  ASSUME NEW q \in PoolShape, NEW out0 \in Nat, NEW out1 \in Nat,
         out0 <= q.reserve0, out1 <= q.reserve1, Settles(q, out0, out1)
  PROVE  Product(q) <= q.balance0 * q.balance1
<1> DEFINE in0 == AmountPaidIn(q.balance0, q.reserve0 - out0)
           in1 == AmountPaidIn(q.balance1, q.reserve1 - out1)
<1>1. /\ q.balance0 \in Nat /\ q.balance1 \in Nat
      /\ q.reserve0 \in Nat /\ q.reserve1 \in Nat
      /\ q.reserve0 - out0 \in Nat /\ q.reserve1 - out1 \in Nat
  BY DEF PoolShape
<1>2. q.reserve0 * q.reserve1 \in Nat
  BY <1>1, Products
<1>3. in0 \in 0..q.balance0 /\ in1 \in 0..q.balance1
  BY <1>1 DEF AmountPaidIn
<1>4. (q.balance0 * FEE_BASE - in0 * FEE) * (q.balance1 * FEE_BASE - in1 * FEE)
        >= (q.reserve0 * q.reserve1) * FEE_BASE * FEE_BASE
  BY DEF Settles, Product
<1>5. FEE \in Nat /\ FEE_BASE \in Nat /\ FEE < FEE_BASE
  BY PairMathAssumption
<1> HIDE DEF in0, in1
<1>6. q.reserve0 * q.reserve1 <= q.balance0 * q.balance1
  BY <1>1, <1>2, <1>3, <1>4, <1>5, FeeKeepsProduct
<1> QED BY <1>6 DEF Product

(* Recording the balances. *)
LEMMA SyncedPool ==
  ASSUME NEW q \in PoolShape
  PROVE  /\ GoodPool(Synced(q))
         /\ Synced(q).supply = q.supply
         /\ Product(Synced(q)) = q.balance0 * q.balance1
         /\ \A p, t : BalanceOf(Synced(q), p, t) = BalanceOf(q, p, t)
BY DEF Synced, PoolShape, GoodPool, Product, BalanceOf

-----------------------------------------------------------------------------
(* Tokens, added up over wallets and over pairs. *)

LEMMA PairsFinite == IsFiniteSet(Pairs)
<1>1. IsFiniteSet(SUBSET Tokens)
  BY RouterAssumption, FS_SUBSET
<1> QED BY <1>1, FS_Subset DEF Pairs

LEMMA InPairsType ==
  ASSUME NEW ps \in [Pairs -> PoolShape], NEW t
  PROVE  InPairs(ps, t) \in Int
<1> DEFINE v == [p \in Pairs |-> BalanceOf(ps[p], p, t)]
<1>1. \A p \in Pairs : v[p] \in Int
  BY BalanceType
<1> HIDE DEF v
<1>2. SumOver(Pairs, v) \in Int
  BY <1>1, PairsFinite, SumInt
<1> QED BY <1>2 DEF InPairs, v

(* One pair's balance changes. *)
LEMMA InPairsMoves ==
  ASSUME NEW ps \in [Pairs -> PoolShape], NEW qs \in [Pairs -> PoolShape],
         NEW p \in Pairs, \A o \in Pairs : o # p => qs[o] = ps[o],
         NEW t, NEW d \in Int, BalanceOf(qs[p], p, t) = BalanceOf(ps[p], p, t) + d
  PROVE  InPairs(qs, t) = InPairs(ps, t) + d
<1> DEFINE v == [o \in Pairs |-> BalanceOf(ps[o], o, t)]
           w == [o \in Pairs |-> BalanceOf(qs[o], o, t)]
<1>1. \A o \in Pairs : v[o] \in Int /\ w[o] \in Int /\ (o # p => w[o] = v[o])
  BY BalanceType
<1>2. w[p] = v[p] + d
  OBVIOUS
<1>3. InPairs(ps, t) = SumOver(Pairs, v) /\ InPairs(qs, t) = SumOver(Pairs, w)
  BY DEF InPairs
<1> HIDE DEF v, w
<1>4. SumOver(Pairs, w) = SumOver(Pairs, v) + (w[p] - v[p])
  BY <1>1, PairsFinite, SumChange
<1>5. SumOver(Pairs, v) \in Int
  BY <1>1, PairsFinite, SumInt
<1>6. w[p] - v[p] = d
  BY <1>1, <1>2
<1> QED BY <1>3, <1>4, <1>5, <1>6

Wallets == [Users -> [Tokens -> Nat]]

LEMMA InWalletsType ==
  ASSUME NEW held \in Wallets, NEW t \in Tokens
  PROVE  InWallets(held, t) \in Int
<1> DEFINE v == [u \in Users |-> held[u][t]]
<1>1. \A u \in Users : v[u] \in Int
  BY DEF Wallets
<1> HIDE DEF v
<1>2. SumOver(Users, v) \in Int
  BY <1>1, RouterAssumption, SumInt
<1> QED BY <1>2 DEF InWallets, v

(* One user's wallet changes. *)
LEMMA InWalletsMoves ==
  ASSUME NEW held \in Wallets, NEW next \in Wallets,
         NEW u \in Users, \A x \in Users : x # u => next[x] = held[x],
         NEW t \in Tokens, NEW d \in Int, next[u][t] = held[u][t] + d
  PROVE  InWallets(next, t) = InWallets(held, t) + d
<1> DEFINE v == [x \in Users |-> held[x][t]]
           w == [x \in Users |-> next[x][t]]
<1>1. \A x \in Users : v[x] \in Int /\ w[x] \in Int /\ (x # u => w[x] = v[x])
  BY DEF Wallets
<1>2. w[u] = v[u] + d
  OBVIOUS
<1>3. InWallets(held, t) = SumOver(Users, v) /\ InWallets(next, t) = SumOver(Users, w)
  BY DEF InWallets
<1> HIDE DEF v, w
<1>4. SumOver(Users, w) = SumOver(Users, v) + (w[u] - v[u])
  BY <1>1, RouterAssumption, SumChange
<1>5. SumOver(Users, v) \in Int
  BY <1>1, RouterAssumption, SumInt
<1>6. w[u] - v[u] = d
  BY <1>1, <1>2
<1> QED BY <1>3, <1>4, <1>5, <1>6

-----------------------------------------------------------------------------
(* Hops. *)

IsPath(path) ==
  /\ path \in Seq(Tokens) /\ Len(path) \in Nat /\ Len(path) >= 2
  /\ \A i \in 1..(Len(path) - 1) : path[i] # path[i + 1]

LEMMA PathsArePaths == \A path \in Paths : IsPath(path)
BY RouterAssumption DEF IsPath

LEMMA HopTokens ==
  ASSUME NEW path, IsPath(path), NEW i \in Hops(path)
  PROVE  /\ path[i] \in Tokens /\ path[i + 1] \in Tokens /\ path[i] # path[i + 1]
         /\ HopPair(path, i) \in Pairs
         /\ path[i] \in HopPair(path, i) /\ path[i + 1] \in HopPair(path, i)
<1>1. i \in 1..Len(path) /\ i + 1 \in 1..Len(path)
  BY DEF Hops, IsPath
<1>2. path[i] \in Tokens /\ path[i + 1] \in Tokens
  BY <1>1 DEF IsPath
<1>3. path[i] # path[i + 1]
  BY DEF Hops, IsPath
<1> QED BY <1>2, <1>3, TwoArePair DEF HopPair

(* Pools whose records are covered, and which lost nothing but balances to *)
(* those they come from.                                                   *)
Pools == [Pairs -> PoolShape]

AllGood(ps) == ps \in Pools /\ \A p \in Pairs : GoodPool(ps[p])

Gain(ps, qs) ==
  \A p \in Pairs : qs[p].supply = ps[p].supply /\ Product(ps[p]) <= Product(qs[p])

LEMMA ProductType == \A q \in PoolShape : Product(q) \in Nat
<1> TAKE q \in PoolShape
<1>1. q.reserve0 \in Nat /\ q.reserve1 \in Nat
  BY DEF PoolShape
<1> QED BY <1>1, Products DEF Product

(* What the first and the last amount of a path mean for a token. *)
CameIn(path, amounts, t) == IF t = path[1] THEN amounts[1] ELSE 0
WentOut(path, amounts, t) == IF t = path[Len(path)] THEN amounts[Len(path)] ELSE 0
WentOutBy(path, amounts, i, t) == IF i + 1 = Len(path) THEN WentOut(path, amounts, t) ELSE 0

(* What a hop does when it is done: the pools are good, none has lost      *)
(* product, and nothing has left them but what the last hop pays.          *)
LEMMA HopKeeps ==
  ASSUME NEW path, IsPath(path), NEW amounts \in [1..Len(path) -> Nat],
         NEW i \in Hops(path), NEW run, AllGood(run.pools),
         Hop(run, path, amounts, i).ok
  PROVE  LET qs == Hop(run, path, amounts, i).pools
         IN  /\ AllGood(qs) /\ Gain(run.pools, qs)
             /\ \A t : InPairs(qs, t) = InPairs(run.pools, t) - WentOutBy(path, amounts, i, t)
<1> DEFINE n    == Len(path)
           ps   == run.pools
           p    == HopPair(path, i)
           next == HopPair(path, i + 1)
           t1   == path[i + 1]
           out  == amounts[i + 1]
           out0 == OutOf0(p, t1, out)
           out1 == OutOf1(p, t1, out)
           paid == [ps EXCEPT ![p] = Paid(@, out0, out1)]
           passed == IF i + 1 = n THEN paid
                     ELSE [paid EXCEPT ![next] = Given(@, next, t1, out)]
           qs   == [passed EXCEPT ![p] = Synced(@)]
<1>1. /\ p \in Pairs /\ t1 \in p
      /\ (i + 1 # n => next \in Pairs /\ t1 \in next)
  <2>1. p \in Pairs /\ t1 \in p
    BY HopTokens
  <2>2. ASSUME i + 1 # n PROVE next \in Pairs /\ t1 \in next
    <3>1. i + 1 \in Hops(path)
      BY <2>2 DEF Hops, IsPath
    <3> QED BY <3>1, HopTokens
  <2> QED BY <2>1, <2>2
<1>2. out \in Nat
  BY DEF Hops, IsPath
<1>3. /\ Payable(ps[p], out0, out1)
      /\ Settles(passed[p], out0, out1)
      /\ Hop(run, path, amounts, i).pools = qs
  BY DEF Hop, OutOf0, OutOf1
<1>4. ps \in Pools /\ \A o \in Pairs : GoodPool(ps[o])
  BY DEF AllGood
<1> HIDE DEF n, ps, p, next, t1, out
<1>5. /\ out0 \in Nat /\ out1 \in Nat
      /\ out0 <= ps[p].reserve0 /\ out1 <= ps[p].reserve1
      /\ Paid(ps[p], out0, out1) \in PoolShape
      /\ Paid(ps[p], out0, out1).reserve0 = ps[p].reserve0
      /\ Paid(ps[p], out0, out1).reserve1 = ps[p].reserve1
      /\ Paid(ps[p], out0, out1).supply = ps[p].supply
      /\ Product(Paid(ps[p], out0, out1)) = Product(ps[p])
      /\ \A x : BalanceOf(Paid(ps[p], out0, out1), p, x)
                  = BalanceOf(ps[p], p, x) - (IF x = t1 THEN out ELSE 0)
  BY <1>1, <1>2, <1>3, <1>4, PaidPool
<1> HIDE DEF out0, out1
<1>6. /\ paid \in Pools /\ paid[p] = Paid(ps[p], out0, out1)
      /\ \A o \in Pairs : o # p => paid[o] = ps[o]
  BY <1>1, <1>4, <1>5 DEF Pools
<1>7. \A t : InPairs(paid, t) = InPairs(ps, t) - (IF t = t1 THEN out ELSE 0)
  <2> TAKE t
  <2> DEFINE d == 0 - (IF t = t1 THEN out ELSE 0)
  <2>1. d \in Int /\ BalanceOf(paid[p], p, t) = BalanceOf(ps[p], p, t) + d
    BY <1>1, <1>2, <1>4, <1>5, <1>6, BalanceType DEF Pools
  <2> HIDE DEF d, paid
  <2>2. InPairs(paid, t) = InPairs(ps, t) + d
    BY <1>1, <1>4, <1>6, <2>1, InPairsMoves DEF Pools
  <2> USE DEF d
  <2>3. InPairs(ps, t) \in Int
    BY <1>4, InPairsType DEF Pools
  <2> QED BY <1>2, <2>2, <2>3
<1> HIDE DEF paid
(* What is passed on changes balances only, and goes up in them. *)
<1>8. /\ passed \in Pools
      /\ passed[p].reserve0 = ps[p].reserve0 /\ passed[p].reserve1 = ps[p].reserve1
      /\ \A o \in Pairs : /\ passed[o].supply = ps[o].supply
                          /\ Product(passed[o]) = Product(ps[o])
                          /\ o # p => GoodPool(passed[o])
      /\ \A t : InPairs(passed, t) = InPairs(ps, t)
                  - (IF i + 1 = n /\ t = t1 THEN out ELSE 0)
  <2>1. \A o \in Pairs : /\ paid[o] \in PoolShape
                         /\ paid[o].supply = ps[o].supply
                         /\ Product(paid[o]) = Product(ps[o])
                         /\ o # p => GoodPool(paid[o])
    BY <1>4, <1>5, <1>6 DEF Pools
  <2>2. CASE i + 1 = n
    <3>1. passed = paid
      BY <2>2
    <3> QED BY <1>5, <1>6, <1>7, <2>1, <2>2, <3>1
  <2>3. CASE i + 1 # n
    <3> DEFINE w == Given(paid[next], next, t1, out)
    <3>0. next \in Pairs /\ t1 \in next /\ paid[next] \in PoolShape
      BY <1>1, <2>1, <2>3
    <3>1. /\ w \in PoolShape
          /\ w.reserve0 = paid[next].reserve0 /\ w.reserve1 = paid[next].reserve1
          /\ w.supply = paid[next].supply /\ Product(w) = Product(paid[next])
          /\ GoodPool(paid[next]) => GoodPool(w)
          /\ \A x : BalanceOf(w, next, x)
                      = BalanceOf(paid[next], next, x) + (IF x = t1 THEN out ELSE 0)
      BY <1>2, <3>0, GivenPool
    <3>2. passed = [paid EXCEPT ![next] = w]
      BY <2>3
    <3> HIDE DEF w, passed
    <3>3. /\ passed \in Pools /\ passed[next] = w
          /\ \A o \in Pairs : o # next => passed[o] = paid[o]
      BY <1>1, <1>6, <2>3, <3>1, <3>2 DEF Pools
    <3>4. \A t : InPairs(passed, t) = InPairs(ps, t)
      <4> TAKE t
      <4> DEFINE d == IF t = t1 THEN out ELSE 0
      <4>1. d \in Int /\ BalanceOf(passed[next], next, t) = BalanceOf(paid[next], next, t) + d
        BY <1>2, <3>1, <3>3
      <4>2. InPairs(passed, t) = InPairs(paid, t) + d
        BY <1>1, <1>6, <2>3, <3>3, <4>1, InPairsMoves DEF Pools
      <4>3. InPairs(ps, t) \in Int
        BY <1>4, InPairsType DEF Pools
      <4> QED BY <1>2, <1>7, <4>2, <4>3
    <3>5. \A o \in Pairs : /\ passed[o].supply = ps[o].supply
                           /\ Product(passed[o]) = Product(ps[o])
                           /\ o # p => GoodPool(passed[o])
      BY <2>1, <3>1, <3>3
    <3>6. passed[p].reserve0 = ps[p].reserve0 /\ passed[p].reserve1 = ps[p].reserve1
      BY <1>1, <1>5, <1>6, <3>1, <3>3
    <3>7. \A t : InPairs(ps, t) - 0 = InPairs(ps, t)
      BY <1>4, InPairsType DEF Pools
    <3> QED BY <2>3, <3>3, <3>4, <3>5, <3>6, <3>7
  <2> QED BY <2>2, <2>3
<1> HIDE DEF passed
<1>9. passed[p] \in PoolShape /\ Product(passed[p]) <= passed[p].balance0 * passed[p].balance1
  <2>1. passed[p] \in PoolShape
    BY <1>1, <1>8 DEF Pools
  <2>2. Product(passed[p]) <= passed[p].balance0 * passed[p].balance1
    BY <1>3, <1>5, <1>8, <2>1, SettledPool
  <2> QED BY <2>1, <2>2
<1>10. /\ GoodPool(Synced(passed[p])) /\ Synced(passed[p]) \in PoolShape
       /\ Synced(passed[p]).supply = passed[p].supply
       /\ Product(passed[p]) <= Product(Synced(passed[p]))
       /\ \A t : BalanceOf(Synced(passed[p]), p, t) = BalanceOf(passed[p], p, t)
  BY <1>9, SyncedPool DEF GoodPool
<1>11. /\ qs \in Pools /\ qs[p] = Synced(passed[p])
       /\ \A o \in Pairs : o # p => qs[o] = passed[o]
  BY <1>1, <1>8, <1>10 DEF Pools
<1> HIDE DEF qs
<1>12. \A o \in Pairs : Product(passed[o]) \in Nat
  BY <1>8, ProductType DEF Pools
<1>13. AllGood(qs) /\ Gain(ps, qs)
  BY <1>8, <1>10, <1>11, <1>12 DEF AllGood, Gain
<1>14. \A t : InPairs(qs, t) = InPairs(passed, t)
  <2> TAKE t
  <2>1. BalanceOf(qs[p], p, t) = BalanceOf(passed[p], p, t) + 0
    BY <1>1, <1>9, <1>10, <1>11, BalanceType
  <2>2. InPairs(qs, t) = InPairs(passed, t) + 0
    BY <1>1, <1>8, <1>11, <2>1, InPairsMoves DEF Pools
  <2>3. InPairs(passed, t) \in Int
    BY <1>8, InPairsType DEF Pools
  <2> QED BY <2>2, <2>3
<1>15. (i + 1 = n) => t1 = path[n] /\ out = amounts[n]
  BY DEF t1, out, n
<1>16. \A t : InPairs(qs, t) = InPairs(ps, t) - WentOutBy(path, amounts, i, t)
  BY <1>8, <1>14, <1>15 DEF WentOutBy, WentOut, n
<1> QED BY <1>3, <1>13, <1>16 DEF ps, n
-----------------------------------------------------------------------------
(* The computations along a path exist, and are what each step says. *)

IsRunOf(f, path, amounts, start, n) ==
  f = [i \in 0..n |-> IF i = 0 THEN start ELSE Hop(f[i - 1], path, amounts, i)]

LEMMA RunExists ==
  ASSUME NEW path, NEW amounts, NEW start, NEW n \in Nat
  PROVE  \E f : IsRunOf(f, path, amounts, start, n)
<1> USE DEF IsRunOf
<1> DEFINE IsRun(f, m) == IsRunOf(f, path, amounts, start, m)
           Good == {m \in Nat : \E f : IsRun(f, m)}
<1>1. 0 \in Good
  <2> DEFINE f == [i \in 0..0 |-> start]
  <2>1. IsRun(f, 0)
    OBVIOUS
  <2> QED BY <2>1
<1>2. ASSUME NEW m \in Nat, m \in Good PROVE m + 1 \in Good
  <2>1. PICK f : IsRun(f, m)
    BY <1>2
  <2> DEFINE g == [i \in 0..(m + 1) |->
                    IF i = m + 1 THEN Hop(f[m], path, amounts, m + 1) ELSE f[i]]
  <2>2. \A i \in 0..m : f[i] = IF i = 0 THEN start ELSE Hop(f[i - 1], path, amounts, i)
    BY <2>1
  <2>3. \A i \in 0..m : g[i] = f[i] /\ i # m + 1 /\ i \in 0..(m + 1)
    OBVIOUS
  <2>4. \A i \in 0..(m + 1) :
          g[i] = IF i = 0 THEN start ELSE Hop(g[i - 1], path, amounts, i)
    <3> TAKE i \in 0..(m + 1)
    <3>1. CASE i = m + 1
      <4>1. g[i] = Hop(f[m], path, amounts, m + 1) /\ g[m] = f[m] /\ i - 1 = m /\ i # 0
        BY <2>3, <3>1
      <4> QED BY <3>1, <4>1
    <3>2. CASE i \in 1..m
      <4>1. i - 1 \in 0..m /\ i \in 0..m /\ i # 0
        BY <3>2
      <4> QED BY <2>2, <2>3, <4>1
    <3>3. CASE i = 0
      BY <2>2, <2>3, <3>3
    <3> QED BY <3>1, <3>2, <3>3
  <2>5. IsRun(g, m + 1)
    BY <2>4
  <2> HIDE DEF g, IsRunOf
  <2> QED BY <2>5
<1> HIDE DEF Good, IsRunOf
<1>3. n \in Good
  BY <1>1, <1>2, NatSteps
<1> QED BY <1>3 DEF Good

Sent(path, amounts) ==
  [ok |-> TRUE, pools |-> [pools EXCEPT ![HopPair(path, 1)] =
                            Given(@, HopPair(path, 1), path[1], amounts[1])]]

LEMMA SwappedRun ==
  ASSUME NEW path, IsPath(path), NEW amounts
  PROVE  \E run : /\ run[0] = Sent(path, amounts)
                  /\ \A i \in Hops(path) : run[i] = Hop(run[i - 1], path, amounts, i)
                  /\ Swapped(path, amounts) = run[Len(path) - 1]
<1> DEFINE n == Len(path) - 1
           run == CHOOSE f : IsRunOf(f, path, amounts, Sent(path, amounts), n)
<1>1. n \in Nat
  BY DEF IsPath
<1>2. \E f : IsRunOf(f, path, amounts, Sent(path, amounts), n)
  BY <1>1, RunExists
<1>3. run = [i \in 0..n |-> IF i = 0 THEN Sent(path, amounts)
                            ELSE Hop(run[i - 1], path, amounts, i)]
  <2>1. IsRunOf(run, path, amounts, Sent(path, amounts), n)
    BY <1>2
  <2> QED BY <2>1 DEF IsRunOf
<1>4. Swapped(path, amounts) = run[n]
  BY DEF Swapped, Sent, IsRunOf
<1> HIDE DEF run
<1>5. run[0] = Sent(path, amounts)
  BY <1>1, <1>3
<1>6. \A i \in 1..n : run[i] = Hop(run[i - 1], path, amounts, i)
  BY <1>1, <1>3
<1> QED BY <1>4, <1>5, <1>6 DEF Hops

LEMMA GainOn ==
  ASSUME NEW ps \in Pools, NEW qs \in Pools, NEW rs \in Pools, Gain(ps, qs), Gain(qs, rs)
  PROVE  Gain(ps, rs)
<1>1. \A p \in Pairs : Product(ps[p]) \in Nat /\ Product(qs[p]) \in Nat /\ Product(rs[p]) \in Nat
  BY ProductType DEF Pools
<1> QED BY <1>1 DEF Gain

(* A pair is given tokens. *)
GivenTo(ps, p, x, amount) == [ps EXCEPT ![p] = Given(@, p, x, amount)]

LEMMA GivenPools ==
  ASSUME NEW ps, AllGood(ps), NEW p \in Pairs, NEW x \in p, NEW amount \in Nat
  PROVE  LET qs == GivenTo(ps, p, x, amount)
         IN  /\ AllGood(qs) /\ Gain(ps, qs) /\ Gain(qs, ps)
             /\ \A t : InPairs(qs, t) = InPairs(ps, t) + (IF t = x THEN amount ELSE 0)
<1> DEFINE w == Given(ps[p], p, x, amount)
           qs == [ps EXCEPT ![p] = w]
<1>1. ps \in Pools /\ \A o \in Pairs : GoodPool(ps[o]) /\ ps[o] \in PoolShape
  BY DEF AllGood, GoodPool
<1>2. /\ w \in PoolShape
      /\ w.supply = ps[p].supply /\ Product(w) = Product(ps[p])
      /\ GoodPool(w)
      /\ \A t : BalanceOf(w, p, t) = BalanceOf(ps[p], p, t) + (IF t = x THEN amount ELSE 0)
  BY <1>1, GivenPool
<1> HIDE DEF w
<1>3. qs \in Pools /\ qs[p] = w /\ \A o \in Pairs : o # p => qs[o] = ps[o]
  BY <1>1, <1>2 DEF Pools
<1> HIDE DEF qs
<1>4. AllGood(qs)
  BY <1>1, <1>2, <1>3 DEF AllGood
<1>5. \A o \in Pairs : Product(ps[o]) \in Nat
  BY <1>1, ProductType
<1>6. Gain(ps, qs) /\ Gain(qs, ps)
  BY <1>2, <1>3, <1>5 DEF Gain
<1>7. ASSUME NEW t PROVE InPairs(qs, t) = InPairs(ps, t) + (IF t = x THEN amount ELSE 0)
  <2> DEFINE d == IF t = x THEN amount ELSE 0
  <2>1. d \in Int /\ BalanceOf(qs[p], p, t) = BalanceOf(ps[p], p, t) + d
    BY <1>2, <1>3
  <2> HIDE DEF d
  <2>2. InPairs(qs, t) = InPairs(ps, t) + d
    BY <1>1, <1>3, <2>1, InPairsMoves DEF Pools
  <2> QED BY <2>2 DEF d
<1> QED BY <1>4, <1>6, <1>7 DEF qs, w, GivenTo

(* A whole swap that is carried out: the pools are good, none has lost     *)
(* product, the first amount came in and the last went out.                *)
LEMMA SwapKeeps ==
  ASSUME AllGood(pools), NEW path, IsPath(path), NEW amounts \in [1..Len(path) -> Nat],
         Swapped(path, amounts).ok
  PROVE  LET qs == Swapped(path, amounts).pools
         IN  /\ AllGood(qs) /\ Gain(pools, qs)
             /\ \A t : InPairs(qs, t) =
                         (InPairs(pools, t) + CameIn(path, amounts, t)) - WentOut(path, amounts, t)
<1> DEFINE n == Len(path)
<1>1. n \in Nat /\ n >= 2
  BY DEF IsPath
<1>2. PICK run : /\ run[0] = Sent(path, amounts)
                 /\ \A i \in Hops(path) : run[i] = Hop(run[i - 1], path, amounts, i)
                 /\ Swapped(path, amounts) = run[n - 1]
  BY SwappedRun
<1> DEFINE Paid1(t) == CameIn(path, amounts, t)
           PaidN(m, t) == WentOutBy(path, amounts, m, t)
           Fine(m) == /\ AllGood(run[m].pools) /\ Gain(pools, run[m].pools)
                      /\ \A t : InPairs(run[m].pools, t) = (InPairs(pools, t) + Paid1(t)) - PaidN(m, t)
           Good == {m \in Nat : m < n /\ run[m].ok => Fine(m)}
<1>3. amounts[1] \in Nat /\ amounts[n] \in Nat
  BY <1>1
<1>4. pools \in Pools
  BY DEF AllGood
<1>5. 0 \in Good
  <2>1. HopPair(path, 1) \in Pairs /\ path[1] \in HopPair(path, 1)
    BY <1>1, HopTokens DEF Hops
  <2> DEFINE qs == GivenTo(pools, HopPair(path, 1), path[1], amounts[1])
  <2>2. run[0].pools = qs
    BY <1>2 DEF Sent, GivenTo
  <2>3. /\ AllGood(qs) /\ Gain(pools, qs)
        /\ \A t : InPairs(qs, t) = InPairs(pools, t) + (IF t = path[1] THEN amounts[1] ELSE 0)
    BY <1>3, <2>1, GivenPools
  <2>4. \A t : PaidN(0, t) = 0
    <3>1. ~(0 + 1 = Len(path))
      BY DEF IsPath
    <3> QED BY <3>1 DEF WentOutBy
  <2> HIDE DEF qs, PaidN, Paid1
  <2>5. \A t : InPairs(qs, t) \in Int
    BY <2>3, InPairsType DEF AllGood, Pools
  <2>6. \A t : InPairs(qs, t) = (InPairs(pools, t) + Paid1(t)) - PaidN(0, t)
    <3> TAKE t
    <3>1. InPairs(qs, t) - 0 = InPairs(qs, t)
      BY <2>5
    <3>2. InPairs(qs, t) = InPairs(pools, t) + Paid1(t) /\ PaidN(0, t) = 0
      BY <2>3, <2>4 DEF Paid1, CameIn
    <3> QED BY <3>1, <3>2
  <2>7. Fine(0)
    BY <2>2, <2>3, <2>6
  <2> QED BY <2>7
<1>6. ASSUME NEW m \in Nat, m \in Good PROVE m + 1 \in Good
  <2> SUFFICES ASSUME m + 1 < n, run[m + 1].ok PROVE Fine(m + 1)
    OBVIOUS
  <2>1. m + 1 \in Hops(path) /\ (m + 1) - 1 = m
    BY <1>1 DEF Hops
  <2>2. run[m + 1] = Hop(run[m], path, amounts, m + 1)
    BY <1>2, <2>1
  <2>3. run[m].ok
    BY <2>2 DEF Hop
  <2>4. Fine(m)
    BY <1>1, <1>6, <2>3
  <2> DEFINE qs == run[m + 1].pools
             ps == run[m].pools
  <2>5. AllGood(ps) /\ Gain(pools, ps) /\ ps \in Pools
    BY <2>4 DEF AllGood
  <2>6. /\ AllGood(qs) /\ Gain(ps, qs) /\ qs \in Pools
        /\ \A t : InPairs(qs, t) = InPairs(ps, t) - PaidN(m + 1, t)
    <3>1. AllGood(run[m].pools) /\ Hop(run[m], path, amounts, m + 1).ok
      BY <2>2, <2>5
    <3>2. \A t : InPairs(qs, t) = InPairs(ps, t) - WentOutBy(path, amounts, m + 1, t)
      BY <2>1, <2>2, <3>1, HopKeeps
    <3>3. AllGood(qs) /\ Gain(ps, qs)
      BY <2>1, <2>2, <3>1, HopKeeps
    <3> QED BY <3>2, <3>3 DEF AllGood
  <2>7. Gain(pools, qs)
    BY <1>4, <2>5, <2>6, GainOn
  <2>8. ASSUME NEW t PROVE InPairs(qs, t) = (InPairs(pools, t) + Paid1(t)) - PaidN(m + 1, t)
    <3>1. PaidN(m, t) = 0 /\ Paid1(t) \in Nat /\ PaidN(m + 1, t) \in Nat
      BY <1>1, <1>3 DEF CameIn, WentOutBy, WentOut
    <3>2. InPairs(ps, t) = (InPairs(pools, t) + Paid1(t)) - PaidN(m, t)
      BY <2>4
    <3>3. InPairs(qs, t) = InPairs(ps, t) - PaidN(m + 1, t)
      BY <2>6
    <3>4. InPairs(pools, t) \in Int
      BY <1>4, InPairsType DEF Pools
    <3> HIDE DEF Paid1, PaidN, ps, qs
    <3> QED BY <3>1, <3>2, <3>3, <3>4
  <2> QED BY <2>6, <2>7, <2>8
<1> HIDE DEF Good, Fine, Paid1, PaidN
<1>7. n - 1 \in Nat /\ n - 1 \in Good
  <2>1. Nat \subseteq Good
    BY <1>5, <1>6, NatSteps, Zenon
  <2>2. n - 1 \in Nat
    BY ONLY <1>1
  <2> QED BY <2>1, <2>2, Zenon
<1>8. Fine(n - 1)
  BY <1>1, <1>2, <1>7 DEF Good
<1>9. \A t : PaidN(n - 1, t) = WentOut(path, amounts, t)
  BY <1>1 DEF PaidN, WentOutBy
<1> QED BY <1>2, <1>8, <1>9 DEF Fine, Paid1
-----------------------------------------------------------------------------
(* Quotes. *)

LEMMA AmountOutType ==
  ASSUME NEW amount \in Nat, NEW rIn \in Nat, NEW rOut \in Nat
  PROVE  AmountOut(amount, rIn, rOut) \in Nat
<1>1. CASE amount = 0 \/ rIn = 0 \/ rOut = 0
  BY <1>1 DEF AmountOut
<1>2. CASE amount > 0 /\ rIn > 0 /\ rOut > 0
  <2>1. FEE \in Nat /\ FEE_BASE \in Nat /\ FEE < FEE_BASE
    BY PairMathAssumption
  <2>2. (amount * (FEE_BASE - FEE) * rOut) \div (rIn * FEE_BASE + amount * (FEE_BASE - FEE)) \in Nat
    BY <1>2, <2>1, QuoteKeeps
  <2> QED BY <1>2, <2>2 DEF AmountOut
<1> QED BY <1>1, <1>2

LEMMA AmountInType ==
  ASSUME NEW amount \in Nat, NEW rIn \in Nat, NEW rOut \in Nat
  PROVE  AmountIn(amount, rIn, rOut) \in Nat
<1>1. CASE amount = 0 \/ rIn = 0 \/ rOut <= amount
  BY <1>1 DEF AmountIn
<1>2. CASE amount > 0 /\ rIn > 0 /\ rOut > amount
  <2> DEFINE x == rIn * amount * FEE_BASE
             y == (rOut - amount) * (FEE_BASE - FEE)
  <2>1. FEE_BASE \in Nat /\ FEE_BASE - FEE \in Nat /\ FEE_BASE - FEE > 0
        /\ rOut - amount \in Nat /\ rOut - amount > 0
    BY <1>2, PairMathAssumption
  <2>2. x \in Nat
    BY <2>1, Products
  <2>3. y \in Nat /\ y > 0
    <3>1. y \in Nat
      BY <2>1, Products
    <3>2. (rOut - amount) * 1 <= y
      BY <2>1, Products
    <3> QED BY <2>1, <3>1, <3>2
  <2>4. AmountIn(amount, rIn, rOut) = x \div y + 1
    BY <1>2 DEF AmountIn
  <2> HIDE DEF x, y
  <2>5. x \div y \in Nat
    BY <2>2, <2>3, QuotientBack
  <2> QED BY <2>4, <2>5
<1> QED BY <1>1, <1>2

(* getAmountsOut, step by step. *)
IsOuts(f, path, start, n) ==
  f = [i \in 1..n |-> IF i = 1 THEN start ELSE QuoteHop(f[i - 1], path, i - 1)]

LEMMA OutsExist ==
  ASSUME NEW path, NEW start, NEW n \in Nat
  PROVE  \E f : IsOuts(f, path, start, n)
<1> USE DEF IsOuts
<1> DEFINE IsRun(f, m) == IsOuts(f, path, start, m)
           Good == {m \in Nat : \E f : IsRun(f, m)}
<1>1. 0 \in Good
  <2> DEFINE f == [i \in 1..0 |-> start]
  <2>1. IsRun(f, 0)
    OBVIOUS
  <2> QED BY <2>1
<1>2. ASSUME NEW m \in Nat, m \in Good PROVE m + 1 \in Good
  <2>1. PICK f : IsRun(f, m)
    BY <1>2
  <2> DEFINE g == [i \in 1..(m + 1) |->
                    IF i # m + 1 THEN f[i] ELSE IF m = 0 THEN start ELSE QuoteHop(f[m], path, m)]
  <2>2. \A i \in 1..m : f[i] = IF i = 1 THEN start ELSE QuoteHop(f[i - 1], path, i - 1)
    BY <2>1
  <2>3. \A i \in 1..m : g[i] = f[i] /\ i # m + 1 /\ i \in 1..(m + 1)
    OBVIOUS
  <2>4. \A i \in 1..(m + 1) :
          g[i] = IF i = 1 THEN start ELSE QuoteHop(g[i - 1], path, i - 1)
    <3> TAKE i \in 1..(m + 1)
    <3>1. CASE i = m + 1 /\ m # 0
      <4>1. g[i] = QuoteHop(f[m], path, m) /\ g[m] = f[m] /\ i - 1 = m /\ i # 1
        BY <2>3, <3>1
      <4> QED BY <3>1, <4>1
    <3>2. CASE i = m + 1 /\ m = 0
      BY <3>2
    <3>3. CASE i \in 2..m
      <4>1. i - 1 \in 1..m /\ i \in 1..m /\ i # 1
        BY <3>3
      <4> QED BY <2>2, <2>3, <4>1
    <3>4. CASE i = 1 /\ m # 0
      BY <2>2, <2>3, <3>4
    <3> QED BY <3>1, <3>2, <3>3, <3>4
  <2>5. IsRun(g, m + 1)
    BY <2>4
  <2> HIDE DEF g, IsOuts
  <2> QED BY <2>5
<1> HIDE DEF Good, IsOuts
<1>3. n \in Good
  BY <1>1, <1>2, NatSteps
<1> QED BY <1>3 DEF Good

LEMMA AmountsOutAre ==
  ASSUME NEW path, IsPath(path), NEW amount
  PROVE  LET f == AmountsOut(amount, path)
         IN  /\ f = [i \in 1..Len(path) |-> f[i]]
             /\ f[1] = amount
             /\ \A i \in Hops(path) : f[i + 1] = QuoteHop(f[i], path, i)
<1> DEFINE n == Len(path)
           run == CHOOSE f : IsOuts(f, path, amount, n)
<1>1. n \in Nat /\ n >= 2
  BY DEF IsPath
<1>2. \E f : IsOuts(f, path, amount, n)
  BY <1>1, OutsExist
<1>3. run = [i \in 1..n |-> IF i = 1 THEN amount ELSE QuoteHop(run[i - 1], path, i - 1)]
  <2>1. IsOuts(run, path, amount, n)
    BY <1>2
  <2> QED BY <2>1 DEF IsOuts
<1>4. AmountsOut(amount, path) = run
  BY DEF AmountsOut, IsOuts
<1> HIDE DEF run
<1>5. run[1] = amount /\ run = [i \in 1..n |-> run[i]]
  BY <1>1, <1>3
<1>6. ASSUME NEW i \in Hops(path) PROVE run[i + 1] = QuoteHop(run[i], path, i)
  <2>1. i + 1 \in 1..n /\ i + 1 # 1 /\ (i + 1) - 1 = i
    BY <1>1 DEF Hops
  <2> QED BY <1>3, <2>1
<1> QED BY <1>4, <1>5, <1>6

(* getAmountsIn, from the last step back. *)
IsIns(f, path, last, m, n) ==
  f = [i \in m..n |-> IF i = n THEN last ELSE AskHop(f[i + 1], path, i)]

LEMMA InsExist ==
  ASSUME NEW path, NEW last, NEW n \in Nat
  PROVE  \E f : IsIns(f, path, last, 1, n)
<1> USE DEF IsIns
<1> DEFINE IsRun(f, m) == IsIns(f, path, last, (n - m) + 1, n)
           Good == {m \in Nat : m <= n => \E f : IsRun(f, m)}
<1>1. 0 \in Good
  <2> DEFINE f == [i \in ((n - 0) + 1)..n |-> last]
  <2>1. IsRun(f, 0)
    OBVIOUS
  <2> QED BY <2>1
<1>2. ASSUME NEW m \in Nat, m \in Good PROVE m + 1 \in Good
  <2> SUFFICES ASSUME m + 1 <= n PROVE \E f : IsRun(f, m + 1)
    OBVIOUS
  <2>1. PICK f : IsRun(f, m)
    BY <1>2
  <2> DEFINE b == n - m
             g == [i \in b..n |->
                    IF i # b THEN f[i] ELSE IF b = n THEN last ELSE AskHop(f[b + 1], path, b)]
  <2>0. b \in Nat /\ b <= n /\ (n - (m + 1)) + 1 = b
    OBVIOUS
  <2>2. \A i \in (b + 1)..n : f[i] = IF i = n THEN last ELSE AskHop(f[i + 1], path, i)
    BY <2>1
  <2> HIDE DEF b
  <2>3. \A i \in (b + 1)..n : g[i] = f[i] /\ i # b /\ i \in b..n
    BY <2>0
  <2>4. \A i \in b..n :
          g[i] = IF i = n THEN last ELSE AskHop(g[i + 1], path, i)
    <3> TAKE i \in b..n
    <3>1. CASE i = b /\ b # n
      <4>1. g[i] = AskHop(f[b + 1], path, b) /\ b + 1 \in (b + 1)..n
        BY <2>0, <3>1
      <4>2. g[b + 1] = f[b + 1]
        BY <2>3, <4>1
      <4> QED BY <3>1, <4>1, <4>2
    <3>2. CASE i = b /\ b = n
      BY <2>0, <3>2
    <3>3. CASE i # b /\ i # n
      <4>1. i + 1 \in (b + 1)..n /\ i \in (b + 1)..n
        BY <2>0, <3>3
      <4> QED BY <2>2, <2>3, <3>3, <4>1
    <3>4. CASE i # b /\ i = n
      <4>1. i \in (b + 1)..n
        BY <2>0, <3>4
      <4> QED BY <2>2, <2>3, <3>4, <4>1
    <3> QED BY <3>1, <3>2, <3>3, <3>4
  <2>5. IsRun(g, m + 1)
    BY <2>0, <2>4
  <2> HIDE DEF g, IsIns
  <2> QED BY <2>5
<1> HIDE DEF Good, IsIns
<1>3. n \in Good
  BY <1>1, <1>2, NatSteps
<1>4. PICK f : IsRun(f, n)
  BY <1>3 DEF Good
<1>5. (n - n) + 1 = 1
  OBVIOUS
<1> QED BY <1>4, <1>5

LEMMA AmountsInAre ==
  ASSUME NEW path, IsPath(path), NEW amount
  PROVE  LET f == AmountsIn(amount, path)
         IN  /\ f = [i \in 1..Len(path) |-> f[i]]
             /\ f[Len(path)] = amount
             /\ \A i \in Hops(path) : f[i] = AskHop(f[i + 1], path, i)
<1> DEFINE n == Len(path)
           run == CHOOSE f : IsIns(f, path, amount, 1, n)
<1>1. n \in Nat /\ n >= 2
  BY DEF IsPath
<1>2. \E f : IsIns(f, path, amount, 1, n)
  BY <1>1, InsExist
<1>3. run = [i \in 1..n |-> IF i = n THEN amount ELSE AskHop(run[i + 1], path, i)]
  <2>1. IsIns(run, path, amount, 1, n)
    BY <1>2
  <2> QED BY <2>1 DEF IsIns
<1>4. AmountsIn(amount, path) = run
  BY DEF AmountsIn, IsIns
<1> HIDE DEF run
<1>5. run[n] = amount /\ run = [i \in 1..n |-> run[i]]
  BY <1>1, <1>3
<1>6. ASSUME NEW i \in Hops(path) PROVE run[i] = AskHop(run[i + 1], path, i)
  <2>1. i \in 1..n /\ i # n
    BY <1>1 DEF Hops
  <2> QED BY <1>3, <2>1
<1> QED BY <1>4, <1>5, <1>6
(* Amounts along a path are numbers. *)
LEMMA OutsType ==
  ASSUME AllGood(pools), NEW path, IsPath(path), NEW amount \in Nat
  PROVE  AmountsOut(amount, path) \in [1..Len(path) -> Nat]
<1> DEFINE f == AmountsOut(amount, path)
           n == Len(path)
           Good == {m \in Nat : m < n => f[m + 1] \in Nat}
<1>1. n \in Nat /\ n >= 2
  BY DEF IsPath
<1>2. /\ f = [i \in 1..n |-> f[i]] /\ f[1] = amount
      /\ \A i \in Hops(path) : f[i + 1] = QuoteHop(f[i], path, i)
  BY AmountsOutAre
<1> HIDE DEF f
<1>3. 0 \in Good
  BY <1>2
<1>4. ASSUME NEW m \in Nat, m \in Good PROVE m + 1 \in Good
  <2> SUFFICES ASSUME m + 1 < n PROVE f[(m + 1) + 1] \in Nat
    OBVIOUS
  <2>1. m + 1 \in Hops(path) /\ f[m + 1] \in Nat
    BY <1>1, <1>4 DEF Hops
  <2>2. HopPair(path, m + 1) \in Pairs
    BY <2>1, HopTokens
  <2>3. pools[HopPair(path, m + 1)] \in PoolShape
    BY <2>2 DEF AllGood, Pools
  <2>4. QuoteHop(f[m + 1], path, m + 1) \in Nat
    BY <2>1, <2>2, <2>3, ReserveType, AmountOutType DEF QuoteHop
  <2> QED BY <1>2, <2>1, <2>4
<1> HIDE DEF Good
<1>5. Nat \subseteq Good
  BY <1>3, <1>4, NatSteps
<1>6. ASSUME NEW i \in 1..n PROVE f[i] \in Nat
  <2>1. i - 1 \in Good /\ i - 1 < n /\ (i - 1) + 1 = i
    BY <1>1, <1>5
  <2> QED BY <2>1 DEF Good
<1> QED BY <1>2, <1>6 DEF f

LEMMA InsType ==
  ASSUME AllGood(pools), NEW path, IsPath(path), NEW amount \in Nat
  PROVE  AmountsIn(amount, path) \in [1..Len(path) -> Nat]
<1> DEFINE f == AmountsIn(amount, path)
           n == Len(path)
           Good == {m \in Nat : m < n => f[n - m] \in Nat}
<1>1. n \in Nat /\ n >= 2
  BY DEF IsPath
<1>2. /\ f = [i \in 1..n |-> f[i]] /\ f[n] = amount
      /\ \A i \in Hops(path) : f[i] = AskHop(f[i + 1], path, i)
  BY AmountsInAre
<1> HIDE DEF f
<1>3. 0 \in Good
  <2>1. n - 0 = n
    BY <1>1
  <2> QED BY <1>2, <2>1
<1>4. ASSUME NEW m \in Nat, m \in Good PROVE m + 1 \in Good
  <2> SUFFICES ASSUME m + 1 < n PROVE f[n - (m + 1)] \in Nat
    OBVIOUS
  <2> DEFINE i == n - (m + 1)
  <2>1. i \in Hops(path) /\ i + 1 = n - m /\ f[n - m] \in Nat
    BY <1>1, <1>4 DEF Hops
  <2> HIDE DEF i
  <2>2. HopPair(path, i) \in Pairs
    BY <2>1, HopTokens
  <2>3. pools[HopPair(path, i)] \in PoolShape
    BY <2>2 DEF AllGood, Pools
  <2>4. AskHop(f[i + 1], path, i) \in Nat
    BY <2>1, <2>2, <2>3, ReserveType, AmountInType DEF AskHop
  <2>5. f[i] \in Nat
    BY <1>2, <2>1, <2>4
  <2> QED BY <2>5 DEF i
<1> HIDE DEF Good
<1>5. Nat \subseteq Good
  BY <1>3, <1>4, NatSteps
<1>6. ASSUME NEW i \in 1..n PROVE f[i] \in Nat
  <2>1. n - i \in Good /\ n - i < n /\ n - (n - i) = i
    BY <1>1, <1>5
  <2> QED BY <2>1 DEF Good
<1> QED BY <1>2, <1>6 DEF f

-----------------------------------------------------------------------------
(* Liquidity. *)

LEMMA RootType == \A y \in Nat : Root(y) \in Nat
<1> TAKE y \in Nat
<1>1. \E z \in 0..y : z * z <= y /\ y < (z + 1) * (z + 1)
  BY RootExists DEF IsRoot
<1>2. Root(y) \in 0..y
  BY <1>1 DEF Root
<1> QED BY <1>2

(* The protocol's shares are at most a sixth of the growth, and none while *)
(* its fee is off.                                                         *)
LEMMA FeeSharesAre ==
  ASSUME NEW q \in PoolShape
  PROVE  /\ FeeShares(q, FeeOn) \in Nat /\ Root(Product(q)) \in Nat
         /\ Growth(q) \in Nat /\ Growth(q) <= Root(Product(q))
         /\ FeeShares(q, FeeOn) * (6 * Root(Product(q)) - Growth(q)) <= q.supply * Growth(q)
         /\ Growth(q) = 0 \/ q.supply = 0 => FeeShares(q, FeeOn) = 0
         /\ ~FeeOn => FeeShares(q, FeeOn) = 0
<1> DEFINE k == Product(q)
           a == Root(k)
           b == Root(q.kLast)
           s == q.supply
           fee == FeeShares(q, FeeOn)
           g == Growth(q)
           charged == FeeOn /\ q.kLast # 0 /\ a > b
<1>1. k \in Nat /\ q.kLast \in Nat /\ s \in Nat
  BY ProductType DEF PoolShape
<1> HIDE DEF k
<1>2. a \in Nat /\ b \in Nat
  BY <1>1, RootType
<1>3. /\ fee = IF charged THEN (s * (a - b)) \div (a * 5 + b) ELSE 0
      /\ g = IF charged THEN a - b ELSE 0
  BY DEF FeeShares, Growth, k
<1>4. ~FeeOn => fee = 0
  BY <1>3
<1> SUFFICES /\ fee \in Nat /\ g \in Nat /\ g <= a /\ fee * (6 * a - g) <= s * g
             /\ g = 0 \/ s = 0 => fee = 0
  BY <1>2, <1>4 DEF k
<1> HIDE DEF fee, g, a, b, s
<1>5. CASE ~charged
  BY <1>1, <1>2, <1>3, <1>5
<1>6. CASE charged
  <2> DEFINE d == a * 5 + b
             n == s * g
  <2>1. g = a - b /\ g \in Nat /\ g > 0 /\ g <= a /\ d \in Nat /\ d > 0 /\ 6 * a - g = d
    BY <1>2, <1>3, <1>6
  <2>2. n \in Nat /\ fee = n \div d
    BY <1>1, <1>3, <1>6, <2>1, Products
  <2>3. s = 0 => n = 0
    BY <1>1, <2>1
  <2> HIDE DEF n, d
  <2>4. fee \in Nat /\ fee * d <= n
    BY <2>1, <2>2, QuotientBack
  <2>5. s = 0 => fee = 0
    BY <2>1, <2>2, <2>3
  <2> QED BY <2>1, <2>4, <2>5 DEF n
<1> QED BY <1>5, <1>6

LEMMA MintPool ==
  ASSUME NEW q, GoodPool(q), MintOf(q, FeeOn).ok
  PROVE  LET m == MintOf(q, FeeOn)
         IN  /\ m.shares \in Nat /\ m.shares > 0 /\ m.locked \in Nat
             /\ m.fee \in Nat /\ (~FeeOn => m.fee = 0)
             /\ GoodPool(m.pool) /\ Product(m.pool) >= Product(q)
             /\ m.pool.supply = ((q.supply + m.fee) + m.locked) + m.shares
             /\ \A p, t : BalanceOf(m.pool, p, t) = BalanceOf(q, p, t)
<1> DEFINE m == MintOf(q, FeeOn)
           fee == FeeShares(q, FeeOn)
           s == q.supply + fee
           amount0 == q.balance0 - q.reserve0
           amount1 == q.balance1 - q.reserve1
           bought == SharesFor(amount0, amount1, q.reserve0, q.reserve1, s)
<1>1. /\ q \in PoolShape /\ q.balance0 \in Nat /\ q.balance1 \in Nat
      /\ q.reserve0 \in Nat /\ q.reserve1 \in Nat /\ q.supply \in Nat
      /\ amount0 \in Nat /\ amount1 \in Nat
      /\ q.reserve0 <= q.balance0 /\ q.reserve1 <= q.balance1
  BY DEF GoodPool, PoolShape
<1>2. fee \in Nat /\ s \in Nat /\ (~FeeOn => fee = 0)
  BY <1>1, FeeSharesAre
<1>3. /\ m.shares = bought /\ m.fee = fee
      /\ m.locked = IF s = 0 THEN MINIMUM_LIQUIDITY ELSE 0
      /\ m.ok => m.shares > 0
      /\ m.pool = Recorded(q, q.balance0, q.balance1, (s + m.locked) + m.shares, FeeOn)
  <2>1. m.locked = IF s = 0 THEN MINIMUM_LIQUIDITY ELSE 0
    BY DEF MintOf
  <2>2. m.shares = bought
    <3>1. ~(amount0 < 0) /\ ~(amount1 < 0)
      BY <1>1
    <3> QED BY <3>1 DEF MintOf
  <2>3. (m.ok => m.shares > 0) /\ m.fee = fee
    BY DEF MintOf
  <2>4. m.pool = Recorded(q, q.balance0, q.balance1, (s + m.locked) + m.shares, FeeOn)
    BY DEF MintOf
  <2> QED BY <2>1, <2>2, <2>3, <2>4
<1> HIDE DEF m, amount0, amount1
<1>s. s = q.supply + fee
  OBVIOUS
<1> HIDE DEF s, fee
<1>4. bought \in Int
  <2>1. CASE s = 0
    <3>1. amount0 * amount1 \in Nat
      BY <1>1, Products
    <3>2. Root(amount0 * amount1) \in Nat
      BY <3>1, RootType
    <3>3. bought = Root(amount0 * amount1) - MINIMUM_LIQUIDITY
      BY <2>1 DEF SharesFor
    <3> QED BY <3>2, <3>3, PairMathAssumption
  <2>2. CASE s # 0 /\ (q.reserve0 = 0 \/ q.reserve1 = 0)
    BY <2>2 DEF SharesFor
  <2>3. CASE s # 0 /\ q.reserve0 # 0 /\ q.reserve1 # 0
    <3> DEFINE x == amount0 * s
               y == amount1 * s
    <3>1. x \in Nat /\ y \in Nat
      BY <1>1, <1>2, Products
    <3>2. bought = Smaller(x \div q.reserve0, y \div q.reserve1)
      BY <2>3 DEF SharesFor
    <3> HIDE DEF x, y
    <3>3. x \div q.reserve0 \in Nat /\ y \div q.reserve1 \in Nat
      BY <1>1, <2>3, <3>1, QuotientBack
    <3> QED BY <3>2, <3>3 DEF Smaller
  <2> QED BY <2>1, <2>2, <2>3
<1> HIDE DEF bought
<1>5. m.ok
  BY DEF m
<1>6. m.shares \in Nat /\ m.shares > 0 /\ m.locked \in Nat
  BY <1>3, <1>4, <1>5, PairMathAssumption
<1>7. (s + m.locked) + m.shares \in Nat
  BY <1>2, <1>6
<1>k. q.balance0 * q.balance1 \in Nat /\ q.reserve0 * q.reserve1 <= q.balance0 * q.balance1
  BY <1>1, Products, ProductMono
<1>8. /\ GoodPool(m.pool) /\ m.pool.supply = (s + m.locked) + m.shares
      /\ m.pool.balance0 = q.balance0 /\ m.pool.balance1 = q.balance1
      /\ m.pool.reserve0 = q.balance0 /\ m.pool.reserve1 = q.balance1
  BY <1>1, <1>3, <1>7, <1>k DEF Recorded, PoolShape, GoodPool
<1>9. \A p, t : BalanceOf(m.pool, p, t) = BalanceOf(q, p, t)
  BY <1>8 DEF BalanceOf
<1>10. Product(m.pool) >= Product(q)
  <2> PICK x \in Nat, y \in Nat : x = q.reserve0 * q.reserve1 /\ y = q.balance0 * q.balance1 /\ x <= y
    BY <1>1, <1>k, Products
  <2>1. Product(m.pool) = y /\ Product(q) = x
    BY <1>8 DEF Product
  <2> QED BY <2>1
<1> QED BY <1>2, <1>3, <1>s, <1>6, <1>8, <1>9, <1>10 DEF m

LEMMA BurnPool ==
  ASSUME NEW q, GoodPool(q), NEW liquidity \in Nat, liquidity <= q.supply,
         BurnOf(q, liquidity, FeeOn).ok
  PROVE  LET b == BurnOf(q, liquidity, FeeOn)
         IN  /\ b.fee \in Nat /\ (~FeeOn => b.fee = 0)
             /\ b.amount0 \in Nat /\ b.amount1 \in Nat
             /\ GoodPool(b.pool)
             /\ b.pool.supply = (q.supply + b.fee) - liquidity
             /\ b.pool.balance0 = q.balance0 - b.amount0
             /\ b.pool.balance1 = q.balance1 - b.amount1
<1> DEFINE b == BurnOf(q, liquidity, FeeOn)
           fee == FeeShares(q, FeeOn)
<1>1. /\ q \in PoolShape /\ q.balance0 \in Nat /\ q.balance1 \in Nat /\ q.supply \in Nat
  BY DEF GoodPool, PoolShape
<1>2. fee \in Nat /\ (~FeeOn => fee = 0)
  BY <1>1, FeeSharesAre
<1>3. /\ b.fee = fee
      /\ b.ok => b.amount0 \in 1..q.balance0 /\ b.amount1 \in 1..q.balance1
      /\ b.pool = Recorded(q, q.balance0 - b.amount0, q.balance1 - b.amount1,
                           (q.supply + fee) - liquidity, FeeOn)
  BY DEF BurnOf
<1>4. b.ok
  OBVIOUS
<1> HIDE DEF b, fee
<1>5. /\ q.balance0 - b.amount0 \in Nat /\ q.balance1 - b.amount1 \in Nat
      /\ (q.supply + fee) - liquidity \in Nat /\ b.amount0 \in Nat /\ b.amount1 \in Nat
  BY <1>1, <1>2, <1>3, <1>4
<1>6. (q.balance0 - b.amount0) * (q.balance1 - b.amount1) \in Nat
  BY <1>5, Products
<1>7. /\ GoodPool(b.pool) /\ b.pool.supply = (q.supply + fee) - liquidity
      /\ b.pool.balance0 = q.balance0 - b.amount0 /\ b.pool.balance1 = q.balance1 - b.amount1
  BY <1>1, <1>3, <1>5, <1>6 DEF Recorded, PoolShape, GoodPool
<1> QED BY <1>2, <1>3, <1>5, <1>7 DEF b

(* What _optimalAmount takes is within what is desired and what is asked. *)
LEMMA OptimalWithin ==
  ASSUME NEW desiredA \in Nat, NEW desiredB \in Nat, NEW minA \in Nat, NEW minB \in Nat,
         minA <= desiredA, minB <= desiredB,
         NEW reserveA \in Nat, NEW reserveB \in Nat,
         OptimalAmount(desiredA, desiredB, minA, minB, reserveA, reserveB).ok
  PROVE  LET add == OptimalAmount(desiredA, desiredB, minA, minB, reserveA, reserveB)
         IN  add.amountA \in minA..desiredA /\ add.amountB \in minB..desiredB
<1> DEFINE add == OptimalAmount(desiredA, desiredB, minA, minB, reserveA, reserveB)
           optimalB == Quote(desiredA, reserveA, reserveB)
           optimalA == Quote(desiredB, reserveB, reserveA)
           x == desiredA * reserveB
           y == desiredB * reserveA
<1>1. add.ok
  OBVIOUS
<1>2. reserveA > 0 /\ reserveB > 0
  BY <1>1 DEF OptimalAmount
<1>3. x \in Nat /\ y \in Nat
  BY Products
<1>4. optimalB = x \div reserveA /\ optimalA = y \div reserveB
  BY <1>2 DEF Quote
<1>5. \/ /\ optimalB <= desiredB /\ optimalB >= minB
         /\ add.amountA = desiredA /\ add.amountB = optimalB
      \/ /\ ~(optimalB <= desiredB) /\ optimalA >= minA
         /\ add.amountA = optimalA /\ add.amountB = desiredB
  BY <1>1 DEF OptimalAmount
<1> HIDE DEF add, optimalA, optimalB
<1>6. /\ optimalB \in Nat /\ optimalB * reserveA <= x
      /\ optimalA \in Nat /\ optimalA * reserveB <= y
  <2> HIDE DEF x, y
  <2> QED BY <1>2, <1>3, <1>4, QuotientBack
<1>7. ASSUME optimalB > desiredB PROVE optimalA <= desiredA
  <2>1. y <= x
    <3>1. desiredB * reserveA <= optimalB * reserveA /\ optimalB * reserveA \in Nat
      BY <1>6, <1>7, ProductMono, Products
    <3> QED BY <1>3, <1>6, <3>1
  <2>2. reserveB * optimalA <= reserveB * desiredA
    <3>1. reserveB * optimalA = optimalA * reserveB /\ reserveB * desiredA = x
      BY <1>6, Products
    <3>2. optimalA * reserveB \in Nat
      BY <1>6, Products
    <3> HIDE DEF x, y
    <3> QED BY <1>3, <1>6, <2>1, <3>1, <3>2
  <2> QED BY <1>2, <1>6, <2>2, Cancel
<1> HIDE DEF x, y
<1>8. add.amountA \in minA..desiredA /\ add.amountB \in minB..desiredB
  BY <1>5, <1>6, <1>7
<1> QED BY <1>8 DEF add

-----------------------------------------------------------------------------
(* Wallets and shares. *)

(* An amount of one token, seen from any token. *)
Only(t, amount, x) == IF x = t THEN amount ELSE 0

LEMMA OnlyType == \A t, x : \A amount \in Int : Only(t, amount, x) \in Int
BY DEF Only

(* A user pays or is paid, one token or two. *)
TakenFrom(held, u, t, amount) == [held EXCEPT ![u] = Taken(@, t, amount)]
GainedBy(held, u, t, amount) == [held EXCEPT ![u] = Gained(@, t, amount)]
BothTakenFrom(held, u, a, m, b, n) == [held EXCEPT ![u] = Taken(Taken(@, a, m), b, n)]
BothGainedBy(held, u, a, m, b, n) == [held EXCEPT ![u] = Gained(Gained(@, a, m), b, n)]

LEMMA WalletTaken ==
  ASSUME NEW held \in Wallets, NEW u \in Users, NEW t \in Tokens,
         NEW amount \in Nat, amount <= held[u][t]
  PROVE  LET next == TakenFrom(held, u, t, amount)
         IN  /\ next \in Wallets
             /\ \A x \in Tokens : InWallets(next, x) = InWallets(held, x) - Only(t, amount, x)
<1> DEFINE next == TakenFrom(held, u, t, amount)
<1>1. held[u] \in [Tokens -> Nat]
  BY DEF Wallets
<1>2. Taken(held[u], t, amount) \in [Tokens -> Nat]
  BY <1>1 DEF Taken
<1>3. next \in Wallets
  BY <1>2 DEF Wallets, TakenFrom
<1>4. ASSUME NEW x \in Tokens PROVE next[u][x] = held[u][x] + (0 - Only(t, amount, x))
  BY <1>1 DEF Taken, Only, Wallets, TakenFrom
<1>5. \A y \in Users : y # u => next[y] = held[y]
  BY DEF Wallets, TakenFrom
<1> HIDE DEF next
<1>6. ASSUME NEW x \in Tokens PROVE InWallets(next, x) = InWallets(held, x) - Only(t, amount, x)
  <2>1. Only(t, amount, x) \in Int /\ 0 - Only(t, amount, x) \in Int
    BY OnlyType
  <2>2. InWallets(next, x) = InWallets(held, x) + (0 - Only(t, amount, x))
    BY <1>3, <1>4, <1>5, <2>1, InWalletsMoves
  <2>3. InWallets(held, x) \in Int
    BY InWalletsType
  <2> QED BY <2>1, <2>2, <2>3
<1> QED BY <1>3, <1>6 DEF next

LEMMA WalletGained ==
  ASSUME NEW held \in Wallets, NEW u \in Users, NEW t \in Tokens, NEW amount \in Nat
  PROVE  LET next == GainedBy(held, u, t, amount)
         IN  /\ next \in Wallets
             /\ \A x \in Tokens : InWallets(next, x) = InWallets(held, x) + Only(t, amount, x)
<1> DEFINE next == GainedBy(held, u, t, amount)
<1>1. held[u] \in [Tokens -> Nat]
  BY DEF Wallets
<1>2. Gained(held[u], t, amount) \in [Tokens -> Nat]
  BY <1>1 DEF Gained
<1>3. next \in Wallets
  BY <1>2 DEF Wallets, GainedBy
<1>4. ASSUME NEW x \in Tokens PROVE next[u][x] = held[u][x] + Only(t, amount, x)
  BY <1>1 DEF Gained, Only, Wallets, GainedBy
<1>5. \A y \in Users : y # u => next[y] = held[y]
  BY DEF Wallets, GainedBy
<1> HIDE DEF next
<1>6. ASSUME NEW x \in Tokens PROVE InWallets(next, x) = InWallets(held, x) + Only(t, amount, x)
  BY <1>3, <1>4, <1>5, OnlyType, InWalletsMoves
<1> QED BY <1>3, <1>6 DEF next

(* Of two tokens at once. *)
LEMMA WalletTakenBoth ==
  ASSUME NEW held \in Wallets, NEW u \in Users, NEW a \in Tokens, NEW b \in Tokens, a # b,
         NEW m \in Nat, NEW n \in Nat, m <= held[u][a], n <= held[u][b]
  PROVE  LET next == BothTakenFrom(held, u, a, m, b, n)
         IN  /\ next \in Wallets
             /\ \A x \in Tokens : InWallets(next, x) =
                                    (InWallets(held, x) - Only(a, m, x)) - Only(b, n, x)
<1> DEFINE mid == TakenFrom(held, u, a, m)
           next == BothTakenFrom(held, u, a, m, b, n)
<1>1. /\ mid \in Wallets
      /\ \A x \in Tokens : InWallets(mid, x) = InWallets(held, x) - Only(a, m, x)
  BY WalletTaken
<1>2. n <= mid[u][b]
  BY DEF Taken, Wallets, TakenFrom
<1>3. next = TakenFrom(mid, u, b, n)
  BY DEF Wallets, TakenFrom, BothTakenFrom
<1> HIDE DEF mid, next
<1>4. /\ next \in Wallets
      /\ \A x \in Tokens : InWallets(next, x) = InWallets(mid, x) - Only(b, n, x)
  BY <1>1, <1>2, <1>3, WalletTaken
<1> QED BY <1>1, <1>4 DEF next

LEMMA WalletGainedBoth ==
  ASSUME NEW held \in Wallets, NEW u \in Users, NEW a \in Tokens, NEW b \in Tokens,
         NEW m \in Nat, NEW n \in Nat
  PROVE  LET next == BothGainedBy(held, u, a, m, b, n)
         IN  /\ next \in Wallets
             /\ \A x \in Tokens : InWallets(next, x) =
                                    (InWallets(held, x) + Only(a, m, x)) + Only(b, n, x)
<1> DEFINE mid == GainedBy(held, u, a, m)
           next == BothGainedBy(held, u, a, m, b, n)
<1>1. /\ mid \in Wallets
      /\ \A x \in Tokens : InWallets(mid, x) = InWallets(held, x) + Only(a, m, x)
  BY WalletGained
<1>2. next = GainedBy(mid, u, b, n)
  BY DEF Wallets, GainedBy, BothGainedBy
<1> HIDE DEF mid, next
<1>3. /\ next \in Wallets
      /\ \A x \in Tokens : InWallets(next, x) = InWallets(mid, x) + Only(b, n, x)
  BY <1>1, <1>2, WalletGained
<1> QED BY <1>1, <1>3 DEF next

Shares == [Holders -> Nat]

FeeToKnown == feeTo \in Treasuries \cup {NoOne}

LEMMA HoldersFinite == IsFiniteSet(Holders)
<1>1. IsFiniteSet({Dead}) /\ IsFiniteSet({Dead} \cup {Self})
  BY FS_Singleton, FS_AddElement
<1>2. IsFiniteSet(Users \cup (Treasuries \cup ({Dead} \cup {Self})))
  BY <1>1, RouterAssumption, FS_Union
<1>3. Holders = Users \cup (Treasuries \cup ({Dead} \cup {Self}))
  BY DEF Holders
<1> QED BY <1>2, <1>3

(* Two holders' shares change. *)
LEMMA SharesMove ==
  ASSUME NEW s \in Shares, NEW z \in Shares, NEW a \in Holders, NEW b \in Holders, a # b,
         \A h \in Holders : h # a /\ h # b => z[h] = s[h]
  PROVE  /\ SumOver(Holders, s) \in Nat
         /\ SumOver(Holders, z) = (SumOver(Holders, s) + (z[a] - s[a])) + (z[b] - s[b])
<1>0. [s EXCEPT ![a] = z[a]] \in Shares
  BY DEF Shares
<1> PICK y \in Shares : y[a] = z[a] /\ \A h \in Holders : h # a => y[h] = s[h]
  BY <1>0 DEF Shares
<1>1. \A h \in Holders : s[h] \in Nat /\ y[h] \in Nat /\ z[h] \in Nat
  BY DEF Shares
<1>2. SumOver(Holders, y) = SumOver(Holders, s) + (y[a] - s[a])
  <2>1. \A h \in Holders : s[h] \in Int /\ y[h] \in Int /\ (h # a => y[h] = s[h])
    BY <1>1
  <2> QED BY <2>1, HoldersFinite, SumChange
<1>3. SumOver(Holders, z) = SumOver(Holders, y) + (z[b] - y[b])
  <2>1. \A h \in Holders : y[h] \in Int /\ z[h] \in Int /\ (h # b => z[h] = y[h])
    BY <1>1
  <2> QED BY <2>1, HoldersFinite, SumChange
<1>4. SumOver(Holders, s) \in Nat
  BY <1>1, HoldersFinite, SumNat
<1>5. y[b] = s[b] /\ y[a] = z[a]
  OBVIOUS
<1> QED BY <1>1, <1>2, <1>3, <1>4, <1>5

(* The protocol's shares are added to whoever feeTo is. *)
LEMMA FeeMoves ==
  ASSUME NEW s \in Shares, NEW fee \in Nat, FeeToKnown, ~FeeOn => fee = 0
  PROVE  /\ WithFee(s, fee) \in Shares
         /\ SumOver(Holders, WithFee(s, fee)) = SumOver(Holders, s) + fee
<1> DEFINE z == WithFee(s, fee)
<1>1. \A h \in Holders : s[h] \in Nat /\ z[h] = IF h = feeTo THEN s[h] + fee ELSE s[h]
  BY DEF WithFee, Shares
<1>2. z \in Shares
  BY <1>1 DEF WithFee, Shares
<1> HIDE DEF z
<1>3. SumOver(Holders, s) \in Nat
  BY <1>1, HoldersFinite, SumNat
<1>4. CASE feeTo \in Holders
  <2>1. \A h \in Holders : s[h] \in Int /\ z[h] \in Int /\ (h # feeTo => z[h] = s[h])
    BY <1>1
  <2>2. SumOver(Holders, z) = SumOver(Holders, s) + (z[feeTo] - s[feeTo])
    BY <1>4, <2>1, HoldersFinite, SumChange
  <2>3. z[feeTo] = s[feeTo] + fee /\ s[feeTo] \in Nat
    BY <1>1, <1>4
  <2> QED BY <1>2, <1>3, <2>2, <2>3 DEF z
<1>5. CASE feeTo \notin Holders
  <2>1. feeTo = NoOne /\ fee = 0
    BY <1>5 DEF FeeToKnown, FeeOn, Holders
  <2>2. DOMAIN z = Holders /\ DOMAIN s = Holders /\ \A h \in Holders : z[h] = s[h]
    BY <1>1, <1>2, <1>5 DEF Shares
  <2>3. z = s
    BY <1>2, <2>2 DEF Shares
  <2> QED BY <1>2, <1>3, <2>1, <2>3 DEF z
<1> QED BY <1>4, <1>5

(* Two holders have no more than there is. *)
LEMMA TwoHold ==
  ASSUME NEW s \in Shares, NEW a \in Holders, NEW b \in Holders, a # b
  PROVE  s[a] + s[b] <= SumOver(Holders, s)
<1>0. [s EXCEPT ![a] = 0, ![b] = 0] \in Shares
  BY DEF Shares
<1> PICK z \in Shares : /\ z[a] = 0 /\ z[b] = 0
                        /\ \A h \in Holders : h # a /\ h # b => z[h] = s[h]
  BY <1>0 DEF Shares
<1>1. s[a] \in Nat /\ s[b] \in Nat /\ \A h \in Holders : z[h] \in Nat
  BY DEF Shares
<1>2. SumOver(Holders, z) = (SumOver(Holders, s) + (z[a] - s[a])) + (z[b] - s[b])
  BY <1>1, SharesMove
<1>3. SumOver(Holders, z) \in Nat /\ SumOver(Holders, s) \in Nat
  BY <1>1, HoldersFinite, SumNat, SharesMove
<1> QED BY <1>1, <1>2, <1>3

-----------------------------------------------------------------------------
(* The invariant.  Balances cover what the pairs have recorded, the shares *)
(* of a pair add up to its supply, every token is in a wallet or a pair,   *)
(* and a permit that was used is the allowance, until that is drawn on.    *)

Balanced(held, ps) ==
  \A t \in Tokens : InWallets(held, t) + InPairs(ps, t) = InWallets(Holding, t)

SharesHeld(shares, ps) ==
  \A p \in Pairs : SumOver(Holders, shares[p]) = ps[p].supply

PermitsKept(allowed, permits) ==
  \A p \in Pairs, u \in Users :
    permits[p][u].used => allowed[p][u] = permits[p][u].value

ShareBook == [Pairs -> [Holders -> Nat]]
Allowances == [Pairs -> [Users -> Nat]]
Permits == [Pairs -> [Users -> [signed : BOOLEAN, used : BOOLEAN, value : Nat]]]

PoolsSound == AllGood(pools)
TokensSound == wallet \in Wallets /\ Balanced(wallet, pools)
SharesSound == lp \in ShareBook /\ SharesHeld(lp, pools)
PermitsSound == allowance \in Allowances /\ permit \in Permits /\ PermitsKept(allowance, permit)

IInv == created \subseteq Pairs /\ PoolsSound /\ TokensSound /\ SharesSound /\ PermitsSound
          /\ FeeToKnown

LEMMA TypeSound == IInv => TypeOK
BY DEF IInv, TypeOK, PoolsSound, TokensSound, SharesSound, PermitsSound, AllGood, Pools,
       Wallets, ShareBook, Allowances, Permits, FeeToKnown

LEMMA InitIInv == Init => IInv
<1> SUFFICES ASSUME Init PROVE IInv
  OBVIOUS
<1>1. created \subseteq Pairs /\ FeeToKnown
  BY DEF Init, FeeToKnown
<1>2. PoolsSound
  BY DEF Init, PoolsSound, AllGood, Pools, GoodPool, PoolShape, EmptyPool
<1>3. TokensSound
  <2>1. wallet \in Wallets /\ wallet = Holding
    BY RouterAssumption DEF Init, Wallets
  <2>2. ASSUME NEW t \in Tokens PROVE InPairs(pools, t) = 0
    <3> DEFINE v == [p \in Pairs |-> BalanceOf(pools[p], p, t)]
    <3>1. \A p \in Pairs : v[p] = 0
      BY DEF Init, BalanceOf, EmptyPool
    <3> HIDE DEF v
    <3>2. SumOver(Pairs, v) = 0
      BY <3>1, PairsFinite, SumZero
    <3> QED BY <3>2 DEF InPairs, v
  <2>3. ASSUME NEW t \in Tokens
        PROVE InWallets(wallet, t) + InPairs(pools, t) = InWallets(Holding, t)
    BY <2>1, <2>2, InWalletsType
  <2> QED BY <2>1, <2>3 DEF TokensSound, Balanced
<1>4. SharesSound
  <2>1. lp \in ShareBook /\ \A p \in Pairs : pools[p].supply = 0
    BY DEF Init, ShareBook, EmptyPool
  <2>2. ASSUME NEW p \in Pairs PROVE SumOver(Holders, lp[p]) = 0
    <3>1. \A h \in Holders : lp[p][h] = 0
      BY DEF Init
    <3> QED BY <3>1, HoldersFinite, SumZero
  <2> QED BY <2>1, <2>2 DEF SharesSound, SharesHeld
<1>5. PermitsSound
  BY DEF Init, PermitsSound, Allowances, Permits, PermitsKept, NoPermit
<1> QED BY <1>1, <1>2, <1>3, <1>4, <1>5 DEF IInv

-----------------------------------------------------------------------------
(* One pair, one pool. *)

LEMMA OnePool ==
  ASSUME NEW ps, AllGood(ps), NEW p \in Pairs, NEW w, GoodPool(w)
  PROVE  AllGood([ps EXCEPT ![p] = w])
BY DEF AllGood, Pools, GoodPool

(* A pool of a pair whose balances have moved by what the wallets have. *)
LEMMA BalancedStep ==
  ASSUME NEW held \in Wallets, NEW next \in Wallets,
         NEW ps, AllGood(ps), NEW qs, AllGood(qs), Balanced(held, ps),
         \A t \in Tokens : \E d \in Int : /\ InPairs(qs, t) = InPairs(ps, t) + d
                                          /\ InWallets(next, t) = InWallets(held, t) - d
  PROVE  Balanced(next, qs)
<1>1. ASSUME NEW t \in Tokens
      PROVE InWallets(next, t) + InPairs(qs, t) = InWallets(Holding, t)
  <2>1. InWallets(held, t) \in Int /\ InPairs(ps, t) \in Int
    BY InWalletsType, InPairsType DEF AllGood, Pools
  <2>2. InWallets(held, t) + InPairs(ps, t) = InWallets(Holding, t)
    BY DEF Balanced
  <2> QED BY <2>1, <2>2
<1> QED BY <1>1 DEF Balanced

LEMMA OnePoolMoves ==
  ASSUME NEW ps, AllGood(ps), NEW p \in Pairs, NEW w, GoodPool(w),
         NEW t, NEW d \in Int, BalanceOf(w, p, t) = BalanceOf(ps[p], p, t) + d
  PROVE  InPairs([ps EXCEPT ![p] = w], t) = InPairs(ps, t) + d
<1> DEFINE qs == [ps EXCEPT ![p] = w]
<1>1. /\ ps \in [Pairs -> PoolShape] /\ qs \in [Pairs -> PoolShape] /\ qs[p] = w
      /\ \A o \in Pairs : o # p => qs[o] = ps[o]
  BY DEF AllGood, Pools, GoodPool
<1> HIDE DEF qs
<1>2. InPairs(qs, t) = InPairs(ps, t) + d
  BY <1>1, InPairsMoves
<1> QED BY <1>2 DEF qs

LEMMA OneBook ==
  ASSUME NEW s \in ShareBook, NEW z \in ShareBook, NEW ps, NEW qs, SharesHeld(s, ps),
         NEW p \in Pairs,
         \A o \in Pairs : o # p => z[o] = s[o] /\ qs[o].supply = ps[o].supply,
         SumOver(Holders, z[p]) = qs[p].supply
  PROVE  SharesHeld(z, qs)
<1>1. ASSUME NEW o \in Pairs PROVE SumOver(Holders, z[o]) = qs[o].supply
  BY DEF SharesHeld
<1> QED BY <1>1 DEF SharesHeld

-----------------------------------------------------------------------------
(* The actions. *)

LEMMA KeepShares ==
  ASSUME SharesSound, UNCHANGED lp, \A p \in Pairs : pools'[p].supply = pools[p].supply
  PROVE  SharesSound'
BY DEF SharesSound, SharesHeld

LEMMA CreatePairKeeps ==
  ASSUME IInv, NEW a \in Tokens, NEW b \in Tokens, CreatePair(a, b)
  PROVE  IInv'
<1>1. created' \subseteq Pairs /\ FeeToKnown'
  BY TwoArePair DEF IInv, CreatePair, FeeToKnown
<1>2. PoolsSound' /\ TokensSound'
  BY DEF IInv, CreatePair, PoolsSound, TokensSound
<1>3. SharesSound' /\ PermitsSound'
  BY DEF IInv, CreatePair, SharesSound, PermitsSound
<1> QED BY <1>1, <1>2, <1>3 DEF IInv

(* What is added is counted. *)
LEMMA AddType ==
  ASSUME IInv, NEW p \in Pairs, NEW a, NEW b, NEW desiredA \in Nat, NEW desiredB \in Nat,
         AmountsToAdd(p, a, b, desiredA, desiredB).ok
  PROVE  LET add == AmountsToAdd(p, a, b, desiredA, desiredB)
         IN  add.amountA \in Nat /\ add.amountB \in Nat
<1> DEFINE reserveA == ReserveOf(pools[p], p, a)
           reserveB == ReserveOf(pools[p], p, b)
<1>1. reserveA \in Nat /\ reserveB \in Nat
  BY ReserveType DEF IInv, PoolsSound, AllGood, Pools
<1>2. CASE reserveA = 0 /\ reserveB = 0
  BY <1>2 DEF AmountsToAdd
<1>3. CASE ~(reserveA = 0 /\ reserveB = 0)
  <2>1. AmountsToAdd(p, a, b, desiredA, desiredB)
          = OptimalAmount(desiredA, desiredB, 0, 0, reserveA, reserveB)
    BY <1>3 DEF AmountsToAdd
  <2> HIDE DEF reserveA, reserveB
  <2>2. LET add == OptimalAmount(desiredA, desiredB, 0, 0, reserveA, reserveB)
        IN  add.amountA \in 0..desiredA /\ add.amountB \in 0..desiredB
    BY <1>1, <2>1, OptimalWithin
  <2> QED BY <2>1, <2>2
<1> QED BY <1>2, <1>3

Rises == \A p \in Pairs : Product(pools'[p]) >= Product(pools[p])

LEMMA OneRises ==
  ASSUME AllGood(pools), NEW p \in Pairs, Product(pools'[p]) >= Product(pools[p]),
         \A o \in Pairs : o # p => pools'[o] = pools[o]
  PROVE  Rises
<1>1. ASSUME NEW o \in Pairs PROVE Product(pools'[o]) >= Product(pools[o])
  <2>1. Product(pools[o]) \in Nat
    BY ProductType DEF AllGood, Pools
  <2> QED BY <2>1
<1> QED BY <1>1 DEF Rises

LEMMA AddLiquidityKeeps ==
  ASSUME IInv, NEW u \in Users, NEW to \in Users, NEW a \in Tokens, NEW b \in Tokens,
         NEW desiredA \in Nat, NEW desiredB \in Nat,
         AddLiquidity(u, to, a, b, desiredA, desiredB)
  PROVE  IInv' /\ Rises
<1> DEFINE p == {a, b}
           x == AmountsToAdd(p, a, b, desiredA, desiredB).amountA
           y == AmountsToAdd(p, a, b, desiredA, desiredB).amountB
           q == pools[p]
           one == Given(q, p, a, x)
           both == Given(one, p, b, y)
           m == MintOf(both, FeeOn)
           held == [lp[p] EXCEPT ![to] = @ + m.shares, ![Dead] = @ + m.locked]
<1>1. p \in Pairs /\ a \in p /\ b \in p /\ a # b
  BY TwoArePair DEF AddLiquidity
<1>2. x \in Nat /\ y \in Nat
  BY <1>1, AddType DEF AddLiquidity
<1>3. /\ wallet[u][a] >= x /\ wallet[u][b] >= y /\ m.ok
      /\ created' = created \cup {p}
      /\ wallet' = [wallet EXCEPT ![u] = Taken(Taken(@, a, x), b, y)]
      /\ pools' = [pools EXCEPT ![p] = m.pool]
      /\ lp' = [lp EXCEPT ![p] = WithFee(held, m.fee)]
      /\ allowance' = allowance /\ permit' = permit /\ feeTo' = feeTo
  <2>1. m.ok /\ wallet[u][a] >= x /\ wallet[u][b] >= y
    BY DEF AddLiquidity
  <2>2. created' = created \cup {p} /\ allowance' = allowance /\ permit' = permit /\ feeTo' = feeTo
    BY DEF AddLiquidity
  <2>3. wallet' = [wallet EXCEPT ![u] = Taken(Taken(@, a, x), b, y)] /\ pools' = [pools EXCEPT ![p] = m.pool]
    BY DEF AddLiquidity
  <2>4. lp' = [lp EXCEPT ![p] = WithFee(held, m.fee)]
    BY DEF AddLiquidity
  <2> QED BY <2>1, <2>2, <2>3, <2>4
<1>4. /\ created \subseteq Pairs /\ AllGood(pools) /\ GoodPool(q) /\ q \in PoolShape
      /\ wallet \in Wallets /\ Balanced(wallet, pools)
      /\ lp \in ShareBook /\ SharesHeld(lp, pools) /\ FeeToKnown
  BY <1>1 DEF IInv, PoolsSound, TokensSound, SharesSound, AllGood, GoodPool
<1> HIDE DEF x, y, p, q
<1>5. /\ GoodPool(one) /\ one \in PoolShape /\ one.supply = q.supply /\ Product(one) = Product(q)
      /\ \A t : BalanceOf(one, p, t) = BalanceOf(q, p, t) + Only(a, x, t)
  BY <1>1, <1>2, <1>4, GivenPool DEF GoodPool, Only
<1> HIDE DEF one
<1>6. /\ GoodPool(both) /\ both \in PoolShape /\ both.supply = q.supply
      /\ Product(both) = Product(q)
      /\ \A t : BalanceOf(both, p, t) = BalanceOf(one, p, t) + Only(b, y, t)
  BY <1>1, <1>2, <1>5, GivenPool DEF GoodPool, Only
<1> HIDE DEF both
<1>7. /\ m.shares \in Nat /\ m.locked \in Nat /\ GoodPool(m.pool)
      /\ m.fee \in Nat /\ (~FeeOn => m.fee = 0)
      /\ m.pool.supply = ((q.supply + m.fee) + m.locked) + m.shares
      /\ Product(m.pool) >= Product(q)
      /\ \A t : BalanceOf(m.pool, p, t) = BalanceOf(both, p, t)
  BY <1>3, <1>6, MintPool
<1> HIDE DEF m
<1>8. AllGood(pools') /\ pools'[p] = m.pool /\ \A o \in Pairs : o # p => pools'[o] = pools[o]
  BY <1>1, <1>3, <1>4, <1>7, OnePool DEF AllGood, Pools
<1>9. TokensSound'
  <2>1. /\ wallet' \in Wallets
        /\ \A t \in Tokens : InWallets(wallet', t) =
                               (InWallets(wallet, t) - Only(a, x, t)) - Only(b, y, t)
    <3>1. x <= wallet[u][a] /\ y <= wallet[u][b]
      BY <1>1, <1>2, <1>3, <1>4 DEF Wallets
    <3>2. wallet' = BothTakenFrom(wallet, u, a, x, b, y)
      BY <1>3 DEF BothTakenFrom
    <3> QED BY <1>1, <1>2, <1>4, <3>1, <3>2, WalletTakenBoth
  <2>2. ASSUME NEW t \in Tokens
        PROVE \E d \in Int : /\ InPairs(pools', t) = InPairs(pools, t) + d
                             /\ InWallets(wallet', t) = InWallets(wallet, t) - d
    <3> DEFINE d == Only(a, x, t) + Only(b, y, t)
    <3>1. /\ Only(a, x, t) \in Int /\ Only(b, y, t) \in Int /\ d \in Int
          /\ BalanceOf(q, p, t) \in Nat /\ InWallets(wallet, t) \in Int
      BY <1>1, <1>2, <1>4, OnlyType, BalanceType, InWalletsType
    <3>2. BalanceOf(m.pool, p, t) = BalanceOf(q, p, t) + d
      BY <1>5, <1>6, <1>7, <3>1
    <3> HIDE DEF d
    <3>3. InPairs(pools', t) = InPairs(pools, t) + d
      <4>1. InPairs([pools EXCEPT ![p] = m.pool], t) = InPairs(pools, t) + d
        BY <1>1, <1>4, <1>7, <3>1, <3>2, OnePoolMoves DEF q
      <4> QED BY <1>3, <4>1
    <3>4. InWallets(wallet', t) = InWallets(wallet, t) - d
      BY <2>1, <3>1 DEF d
    <3> QED BY <3>1, <3>3, <3>4
  <2>3. Balanced(wallet', pools')
    BY <1>4, <1>8, <2>1, <2>2, BalancedStep
  <2> QED BY <2>1, <2>3 DEF TokensSound
<1>10. SharesSound'
  <2>1. to \in Holders /\ Dead \in Holders /\ to # Dead
    BY RouterAssumption DEF Holders
  <2>2. /\ lp[p] \in Shares /\ held \in Shares
        /\ held[to] = lp[p][to] + m.shares /\ held[Dead] = lp[p][Dead] + m.locked
        /\ lp[p][to] \in Nat /\ lp[p][Dead] \in Nat
        /\ \A h \in Holders : h # to /\ h # Dead => held[h] = lp[p][h]
    BY <1>1, <1>4, <1>7, <2>1 DEF ShareBook, Shares
  <2> HIDE DEF held
  <2>3. /\ SumOver(Holders, lp[p]) \in Nat
        /\ SumOver(Holders, held) = (SumOver(Holders, lp[p]) + (held[to] - lp[p][to]))
                                     + (held[Dead] - lp[p][Dead])
    BY <2>1, <2>2, SharesMove
  <2>4. SumOver(Holders, lp[p]) = q.supply
    BY <1>1, <1>4 DEF SharesHeld, q
  <2>5. /\ WithFee(held, m.fee) \in Shares
        /\ SumOver(Holders, WithFee(held, m.fee)) = SumOver(Holders, held) + m.fee
    BY <1>4, <1>7, <2>2, FeeMoves
  <2>6. /\ lp' \in ShareBook /\ lp'[p] = WithFee(held, m.fee)
        /\ \A o \in Pairs : o # p => lp'[o] = lp[o]
    BY <1>1, <1>3, <1>4, <2>5 DEF ShareBook, Shares
  <2>7. SumOver(Holders, lp'[p]) = m.pool.supply
    BY <1>7, <2>2, <2>3, <2>4, <2>5, <2>6
  <2>8. SharesHeld(lp', pools')
    BY <1>1, <1>4, <1>8, <2>6, <2>7, OneBook
  <2> QED BY <2>6, <2>8 DEF SharesSound
<1>11. created' \subseteq Pairs /\ PoolsSound' /\ PermitsSound' /\ FeeToKnown'
  BY <1>1, <1>3, <1>4, <1>8 DEF IInv, PoolsSound, PermitsSound, FeeToKnown
<1>12. Rises
  BY <1>1, <1>4, <1>7, <1>8, OneRises DEF q
<1> QED BY <1>9, <1>10, <1>11, <1>12 DEF IInv

(* An allowance that is drawn on is done with the permit it came from. *)
LEMMA SpendKeeps ==
  ASSUME PermitsSound, NEW p \in Pairs, NEW u \in Users, NEW amount \in Nat,
         NEW allowed \in Nat, MaySpend(allowed, amount),
         NEW signature \in [signed : BOOLEAN, used : BOOLEAN, value : Nat],
         allowance' = [allowance EXCEPT ![p][u] = Spent(allowed, amount)],
         permit' = [permit EXCEPT ![p][u] = DoneWith(signature)]
  PROVE  PermitsSound'
<1>1. Spent(allowed, amount) \in Nat
  BY RouterAssumption DEF Spent, MaySpend
<1>2. /\ DoneWith(signature) \in [signed : BOOLEAN, used : BOOLEAN, value : Nat]
      /\ DoneWith(signature).used = FALSE
  BY DEF DoneWith, NoPermit
<1>3. allowance' \in Allowances /\ permit' \in Permits
  BY <1>1, <1>2 DEF PermitsSound, Allowances, Permits
<1>4. ASSUME NEW o \in Pairs, NEW x \in Users, permit'[o][x].used
      PROVE allowance'[o][x] = permit'[o][x].value
  <2>1. ~(o = p /\ x = u)
    BY <1>2, <1>4 DEF PermitsSound, Permits
  <2>2. permit'[o][x] = permit[o][x] /\ allowance'[o][x] = allowance[o][x]
    BY <2>1 DEF PermitsSound, Permits, Allowances
  <2> QED BY <1>4, <2>2 DEF PermitsSound, PermitsKept
<1> QED BY <1>3, <1>4 DEF PermitsSound, PermitsKept

LEMMA RemoveSharesKeeps ==
  ASSUME IInv, NEW u \in Users, NEW to \in Users, NEW p \in Pairs, NEW liquidity \in Nat,
         NEW allowed \in Nat, NEW signature \in [signed : BOOLEAN, used : BOOLEAN, value : Nat],
         RemoveShares(u, to, p, liquidity, allowed, signature)
  PROVE  IInv' /\ \A o \in Pairs : o # p => pools'[o] = pools[o]
<1> DEFINE q == pools[p]
           burned == lp[p][Self] + liquidity
           out == BurnOf(q, burned, FeeOn)
           held == [lp[p] EXCEPT ![u] = @ - liquidity, ![Self] = 0]
           t0 == CHOOSE t \in p : IsToken0(t, p)
           t1 == Other(t0, p)
<1>1. /\ MaySpend(allowed, liquidity) /\ lp[p][u] >= liquidity /\ out.ok
      /\ pools' = [pools EXCEPT ![p] = out.pool]
      /\ lp' = [lp EXCEPT ![p] = WithFee(held, out.fee)]
      /\ wallet' = BothGainedBy(wallet, to, t0, out.amount0, t1, out.amount1)
      /\ allowance' = [allowance EXCEPT ![p][u] = Spent(allowed, liquidity)]
      /\ permit' = [permit EXCEPT ![p][u] = DoneWith(signature)]
      /\ created' = created /\ feeTo' = feeTo
  <2>1. MaySpend(allowed, liquidity) /\ lp[p][u] >= liquidity /\ out.ok
    BY DEF RemoveShares
  <2>2. /\ pools' = [pools EXCEPT ![p] = out.pool]
        /\ wallet' = BothGainedBy(wallet, to, t0, out.amount0, t1, out.amount1)
    BY DEF RemoveShares, BothGainedBy
  <2>3. /\ allowance' = [allowance EXCEPT ![p][u] = Spent(allowed, liquidity)]
        /\ permit' = [permit EXCEPT ![p][u] = DoneWith(signature)]
        /\ created' = created /\ feeTo' = feeTo
    BY DEF RemoveShares
  <2>4. lp' = [lp EXCEPT ![p] = WithFee(held, out.fee)]
    BY DEF RemoveShares
  <2> QED BY <2>1, <2>2, <2>3, <2>4
<1>2. /\ created \subseteq Pairs /\ AllGood(pools) /\ GoodPool(q) /\ q \in PoolShape
      /\ q.supply \in Nat /\ q.balance0 \in Nat /\ q.balance1 \in Nat
      /\ wallet \in Wallets /\ Balanced(wallet, pools)
      /\ lp \in ShareBook /\ SharesHeld(lp, pools) /\ FeeToKnown
  BY DEF IInv, PoolsSound, TokensSound, SharesSound, AllGood, GoodPool, PoolShape
<1>3. /\ u \in Holders /\ Self \in Holders /\ u # Self
      /\ lp[p] \in Shares /\ lp[p][u] \in Nat /\ lp[p][Self] \in Nat
      /\ SumOver(Holders, lp[p]) = q.supply
  <2>1. u \in Holders /\ Self \in Holders /\ u # Self
    BY RouterAssumption DEF Holders
  <2>2. lp[p] \in Shares
    BY <1>2 DEF ShareBook, Shares
  <2>3. lp[p][u] \in Nat /\ lp[p][Self] \in Nat
    BY <2>1, <2>2 DEF Shares
  <2>4. SumOver(Holders, lp[p]) = q.supply
    BY <1>2 DEF SharesHeld
  <2> QED BY <2>1, <2>2, <2>3, <2>4
<1>4. burned \in Nat /\ burned <= q.supply
  <2>1. lp[p][u] + lp[p][Self] <= q.supply
    BY <1>3, TwoHold
  <2>2. liquidity <= lp[p][u]
    BY <1>1, <1>3
  <2> HIDE DEF q
  <2> QED BY <1>2, <1>3, <2>1, <2>2
<1> HIDE DEF q
<1>5. burned = lp[p][Self] + liquidity
  OBVIOUS
<1> HIDE DEF burned
<1>6. /\ out.amount0 \in Nat /\ out.amount1 \in Nat /\ GoodPool(out.pool)
      /\ out.fee \in Nat /\ (~FeeOn => out.fee = 0)
      /\ out.pool.supply = (q.supply + out.fee) - burned
      /\ out.pool.balance0 = q.balance0 - out.amount0
      /\ out.pool.balance1 = q.balance1 - out.amount1
  BY <1>1, <1>2, <1>4, BurnPool
<1> HIDE DEF out
<1>7. PICK x, y : Sides(p, x, y)
  BY PairSides
<1>8. t0 = x /\ t1 = y /\ x # y /\ x \in Tokens /\ y \in Tokens
  <2>1. t0 = x
    BY <1>7, SidesAre
  <2>2. Other(x, p) = y
    BY <1>7, SidesAre
  <2> QED BY <1>7, <2>1, <2>2 DEF Sides
<1> HIDE DEF t0, t1
<1>9. AllGood(pools') /\ pools'[p] = out.pool /\ \A o \in Pairs : o # p => pools'[o] = pools[o]
  BY <1>1, <1>2, <1>6, OnePool DEF AllGood, Pools
<1>10. TokensSound'
  <2>1. /\ wallet' \in Wallets
        /\ \A t \in Tokens : InWallets(wallet', t) =
             (InWallets(wallet, t) + Only(x, out.amount0, t)) + Only(y, out.amount1, t)
    BY <1>1, <1>2, <1>6, <1>8, WalletGainedBoth
  <2>2. ASSUME NEW t \in Tokens
        PROVE \E d \in Int : /\ InPairs(pools', t) = InPairs(pools, t) + d
                             /\ InWallets(wallet', t) = InWallets(wallet, t) - d
    <3> DEFINE d == 0 - (Only(x, out.amount0, t) + Only(y, out.amount1, t))
    <3>1. /\ Only(x, out.amount0, t) \in Int /\ Only(y, out.amount1, t) \in Int /\ d \in Int
          /\ BalanceOf(q, p, t) \in Nat /\ InWallets(wallet, t) \in Int
      BY <1>2, <1>6, OnlyType, BalanceType, InWalletsType
    <3>2. BalanceOf(out.pool, p, t) = BalanceOf(q, p, t) + d
      <4>1. /\ BalanceOf(q, p, x) = q.balance0 /\ BalanceOf(q, p, y) = q.balance1
            /\ t # x /\ t # y => BalanceOf(q, p, t) = 0
        BY <1>7, SideRecords
      <4>2. /\ BalanceOf(out.pool, p, x) = out.pool.balance0
            /\ BalanceOf(out.pool, p, y) = out.pool.balance1
            /\ t # x /\ t # y => BalanceOf(out.pool, p, t) = 0
        BY <1>7, SideRecords
      <4> QED BY <1>2, <1>6, <1>8, <4>1, <4>2 DEF Only
    <3>3. InWallets(wallet', t) = InWallets(wallet, t) - d
      BY <2>1, <3>1
    <3> HIDE DEF d
    <3>4. InPairs([pools EXCEPT ![p] = out.pool], t) = InPairs(pools, t) + d
      BY <1>2, <1>6, <3>1, <3>2, OnePoolMoves DEF q
    <3> QED BY <1>1, <3>1, <3>3, <3>4
  <2>3. Balanced(wallet', pools')
    BY <1>2, <1>9, <2>1, <2>2, BalancedStep
  <2> QED BY <2>1, <2>3 DEF TokensSound
<1>11. SharesSound'
  <2>1. /\ held \in Shares
        /\ held[u] = lp[p][u] - liquidity /\ held[Self] = 0
        /\ \A h \in Holders : h # u /\ h # Self => held[h] = lp[p][h]
    BY <1>1, <1>2, <1>3 DEF ShareBook, Shares
  <2> HIDE DEF held
  <2>2. SumOver(Holders, held) = (SumOver(Holders, lp[p]) + (held[u] - lp[p][u]))
                                  + (held[Self] - lp[p][Self])
    BY <1>3, <2>1, SharesMove
  <2>3. /\ WithFee(held, out.fee) \in Shares
        /\ SumOver(Holders, WithFee(held, out.fee)) = SumOver(Holders, held) + out.fee
    BY <1>2, <1>6, <2>1, FeeMoves
  <2>4. /\ lp' \in ShareBook /\ lp'[p] = WithFee(held, out.fee)
        /\ \A o \in Pairs : o # p => lp'[o] = lp[o]
    BY <1>1, <1>2, <2>3 DEF ShareBook, Shares
  <2>5. SumOver(Holders, lp'[p]) = out.pool.supply
    BY <1>2, <1>3, <1>5, <1>6, <2>1, <2>2, <2>3, <2>4
  <2>6. SharesHeld(lp', pools')
    BY <1>2, <1>9, <2>4, <2>5, OneBook
  <2> QED BY <2>4, <2>6 DEF SharesSound
<1>12. PermitsSound'
  BY <1>1, SpendKeeps DEF IInv
<1>13. created' \subseteq Pairs /\ PoolsSound' /\ FeeToKnown'
  BY <1>1, <1>2, <1>9 DEF PoolsSound, FeeToKnown
<1> QED BY <1>9, <1>10, <1>11, <1>12, <1>13 DEF IInv

LEMMA PermittedType ==
  ASSUME IInv, NEW p \in Pairs, NEW u \in Users, NEW liquidity \in Nat
  PROVE  /\ permit[p][u] \in [signed : BOOLEAN, used : BOOLEAN, value : Nat]
         /\ allowance[p][u] \in Nat
         /\ Permitted(p, u, liquidity).allowed \in Nat
         /\ Permitted(p, u, liquidity).signature \in [signed : BOOLEAN, used : BOOLEAN, value : Nat]
<1>1. /\ permit[p][u] \in [signed : BOOLEAN, used : BOOLEAN, value : Nat]
      /\ allowance[p][u] \in Nat
  BY DEF IInv, PermitsSound, Permits, Allowances
<1>2. CASE allowance[p][u] >= liquidity \/ permit[p][u].used \/ ~SignedFor(permit[p][u], liquidity)
  <2>1. Permitted(p, u, liquidity) =
          [ok |-> TRUE, allowed |-> allowance[p][u], signature |-> permit[p][u]]
    BY <1>2 DEF Permitted
  <2> QED BY <1>1, <2>1
<1>3. CASE ~(allowance[p][u] >= liquidity \/ permit[p][u].used
               \/ ~SignedFor(permit[p][u], liquidity))
  <2>1. Permitted(p, u, liquidity) =
          [ok |-> TRUE, allowed |-> permit[p][u].value,
           signature |-> [permit[p][u] EXCEPT !.used = TRUE]]
    BY <1>3 DEF Permitted
  <2>2. /\ permit[p][u].value \in Nat
        /\ [permit[p][u] EXCEPT !.used = TRUE]
             \in [signed : BOOLEAN, used : BOOLEAN, value : Nat]
    BY <1>1
  <2> QED BY <1>1, <2>1, <2>2
<1> QED BY <1>1, <1>2, <1>3

LEMMA SwapAlongKeeps ==
  ASSUME IInv, NEW u \in Users, NEW to \in Users, NEW path, IsPath(path),
         NEW amounts \in [1..Len(path) -> Nat], SwapAlong(u, to, path, amounts)
  PROVE  IInv' /\ Gain(pools, pools')
<1> DEFINE n == Len(path)
           paid == TakenFrom(wallet, u, path[1], amounts[1])
           run == Swapped(path, amounts)
<1>1. /\ n \in Nat /\ n >= 2 /\ path[1] \in Tokens /\ path[n] \in Tokens
      /\ amounts[1] \in Nat /\ amounts[n] \in Nat
  BY DEF IsPath
<1>2. /\ wallet[u][path[1]] >= amounts[1] /\ run.ok /\ pools' = run.pools
      /\ wallet' = GainedBy(paid, to, path[n], amounts[n])
      /\ created' = created /\ lp' = lp /\ allowance' = allowance /\ permit' = permit
      /\ feeTo' = feeTo
  BY DEF SwapAlong, TakenFrom, GainedBy
<1>3. /\ AllGood(pools) /\ wallet \in Wallets /\ Balanced(wallet, pools)
      /\ wallet[u][path[1]] \in Nat
  BY <1>1 DEF IInv, PoolsSound, TokensSound, Wallets
<1>4. /\ AllGood(pools') /\ Gain(pools, pools')
      /\ \A t : InPairs(pools', t) =
                  (InPairs(pools, t) + CameIn(path, amounts, t)) - WentOut(path, amounts, t)
  BY <1>2, <1>3, SwapKeeps
<1> HIDE DEF run, n
<1>5. /\ paid \in Wallets
      /\ \A t \in Tokens : InWallets(paid, t) = InWallets(wallet, t) - Only(path[1], amounts[1], t)
  <2>1. amounts[1] <= wallet[u][path[1]]
    BY <1>1, <1>2, <1>3
  <2> QED BY <1>1, <1>3, <2>1, WalletTaken
<1> HIDE DEF paid
<1>6. /\ wallet' \in Wallets
      /\ \A t \in Tokens : InWallets(wallet', t) = InWallets(paid, t) + Only(path[n], amounts[n], t)
  BY <1>1, <1>2, <1>5, WalletGained
<1>7. ASSUME NEW t \in Tokens
      PROVE \E d \in Int : /\ InPairs(pools', t) = InPairs(pools, t) + d
                           /\ InWallets(wallet', t) = InWallets(wallet, t) - d
  <2> DEFINE i == Only(path[1], amounts[1], t)
             o == Only(path[n], amounts[n], t)
  <2>1. /\ i \in Int /\ o \in Int /\ i - o \in Int
        /\ InWallets(wallet, t) \in Int /\ InPairs(pools, t) \in Int
    BY <1>1, <1>3, OnlyType, InWalletsType, InPairsType DEF AllGood, Pools
  <2>2. CameIn(path, amounts, t) = i /\ WentOut(path, amounts, t) = o
    BY DEF CameIn, WentOut, Only, n
  <2>3. InPairs(pools', t) = (InPairs(pools, t) + i) - o
    BY <1>4, <2>2
  <2>4. InWallets(wallet', t) = (InWallets(wallet, t) - i) + o
    BY <1>5, <1>6
  <2> HIDE DEF i, o
  <2>5. /\ InPairs(pools', t) = InPairs(pools, t) + (i - o)
        /\ InWallets(wallet', t) = InWallets(wallet, t) - (i - o)
    BY <2>1, <2>3, <2>4
  <2> QED BY <2>1, <2>5
<1>8. Balanced(wallet', pools')
  BY <1>3, <1>4, <1>6, <1>7, BalancedStep
<1>9. SharesSound'
  BY <1>2, <1>4, KeepShares DEF IInv, Gain
<1>10. created' \subseteq Pairs /\ PoolsSound' /\ TokensSound' /\ PermitsSound' /\ FeeToKnown'
  BY <1>2, <1>4, <1>6, <1>8 DEF IInv, PoolsSound, TokensSound, PermitsSound, FeeToKnown
<1> QED BY <1>4, <1>9, <1>10 DEF IInv

(* Allowances and permits. *)
LEMMA PermitsKeep ==
  ASSUME IInv, PermitsSound', UNCHANGED <<created, pools, wallet, lp, feeTo>>
  PROVE  IInv'
BY DEF IInv, PoolsSound, TokensSound, SharesSound, FeeToKnown

LEMMA ApproveKeeps ==
  ASSUME IInv, NEW u \in Users, NEW p \in Pairs, NEW value \in Nat, Approve(u, p, value)
  PROVE  IInv'
<1>1. /\ DoneWith(permit[p][u]) \in [signed : BOOLEAN, used : BOOLEAN, value : Nat]
      /\ DoneWith(permit[p][u]).used = FALSE
  BY DEF DoneWith, NoPermit, IInv, PermitsSound, Permits
<1>2. allowance' \in Allowances /\ permit' \in Permits
  BY <1>1 DEF Approve, IInv, PermitsSound, Allowances, Permits
<1>3. ASSUME NEW o \in Pairs, NEW x \in Users, permit'[o][x].used
      PROVE allowance'[o][x] = permit'[o][x].value
  <2>1. ~(o = p /\ x = u)
    BY <1>1, <1>3 DEF Approve, IInv, PermitsSound, Permits
  <2>2. permit'[o][x] = permit[o][x] /\ allowance'[o][x] = allowance[o][x]
    BY <2>1 DEF Approve, IInv, PermitsSound, Permits, Allowances
  <2> QED BY <1>3, <2>2 DEF IInv, PermitsSound, PermitsKept
<1>4. PermitsSound'
  BY <1>2, <1>3 DEF PermitsSound, PermitsKept
<1> QED BY <1>4, PermitsKeep DEF Approve

LEMMA SignPermitKeeps ==
  ASSUME IInv, NEW u \in Users, NEW p \in Pairs, NEW value \in Nat, SignPermit(u, p, value)
  PROVE  IInv'
<1>1. allowance' \in Allowances /\ permit' \in Permits
  BY DEF SignPermit, IInv, PermitsSound, Allowances, Permits
<1>2. ASSUME NEW o \in Pairs, NEW x \in Users, permit'[o][x].used
      PROVE allowance'[o][x] = permit'[o][x].value
  <2>1. ~(o = p /\ x = u)
    BY <1>2 DEF SignPermit, IInv, PermitsSound, Permits
  <2>2. permit'[o][x] = permit[o][x] /\ allowance'[o][x] = allowance[o][x]
    BY <2>1 DEF SignPermit, IInv, PermitsSound, Permits, Allowances
  <2> QED BY <1>2, <2>2 DEF IInv, PermitsSound, PermitsKept
<1>3. PermitsSound'
  BY <1>1, <1>2 DEF PermitsSound, PermitsKept
<1> QED BY <1>3, PermitsKeep DEF SignPermit

LEMMA SubmitPermitKeeps ==
  ASSUME IInv, NEW u \in Users, NEW p \in Pairs, SubmitPermit(u, p)
  PROVE  IInv'
<1>1. allowance' \in Allowances /\ permit' \in Permits
  <2>1. /\ allowance \in Allowances /\ permit \in Permits
        /\ permit[p][u] \in [signed : BOOLEAN, used : BOOLEAN, value : Nat]
    BY DEF IInv, PermitsSound, Permits
  <2>2. allowance' = [allowance EXCEPT ![p][u] = permit[p][u].value]
    BY DEF SubmitPermit
  <2>3. permit' = [permit EXCEPT ![p][u].used = TRUE]
    BY DEF SubmitPermit
  <2>4. allowance' \in Allowances
    BY <2>1, <2>2 DEF Allowances
  <2>5. permit' \in Permits
    BY <2>1, <2>3 DEF Permits
  <2> QED BY <2>4, <2>5
<1>2. ASSUME NEW o \in Pairs, NEW x \in Users, permit'[o][x].used
      PROVE allowance'[o][x] = permit'[o][x].value
  <2>1. CASE o = p /\ x = u
    BY <2>1 DEF SubmitPermit, IInv, PermitsSound, Permits, Allowances
  <2>2. CASE ~(o = p /\ x = u)
    <3>1. permit'[o][x] = permit[o][x] /\ allowance'[o][x] = allowance[o][x]
      BY <2>2 DEF SubmitPermit, IInv, PermitsSound, Permits, Allowances
    <3> QED BY <1>2, <3>1 DEF IInv, PermitsSound, PermitsKept
  <2> QED BY <2>1, <2>2
<1>3. PermitsSound'
  BY <1>1, <1>2 DEF PermitsSound, PermitsKept
<1> QED BY <1>3, PermitsKeep DEF SubmitPermit

(* Outsiders. *)
LEMMA GiveKeeps ==
  ASSUME IInv, NEW u \in Users, NEW p \in Pairs, NEW t \in p, NEW amount \in Nat,
         Give(u, p, t, amount)
  PROVE  IInv' /\ Gain(pools, pools')
<1> DEFINE qs == GivenTo(pools, p, t, amount)
<1>1. /\ AllGood(pools) /\ wallet \in Wallets /\ Balanced(wallet, pools) /\ t \in Tokens
      /\ wallet[u][t] \in Nat
  BY DEF IInv, PoolsSound, TokensSound, Wallets, Pairs
<1>2. /\ wallet[u][t] >= amount /\ wallet' = TakenFrom(wallet, u, t, amount) /\ pools' = qs
      /\ created' = created /\ lp' = lp /\ allowance' = allowance /\ permit' = permit
      /\ feeTo' = feeTo
  BY DEF Give, TakenFrom, GivenTo
<1>3. /\ AllGood(qs) /\ Gain(pools, qs)
      /\ \A x : InPairs(qs, x) = InPairs(pools, x) + (IF x = t THEN amount ELSE 0)
  BY <1>1, GivenPools
<1> HIDE DEF qs
<1>4. amount <= wallet[u][t]
  BY <1>1, <1>2
<1>5. /\ wallet' \in Wallets
      /\ \A x \in Tokens : InWallets(wallet', x) = InWallets(wallet, x) - Only(t, amount, x)
  BY <1>1, <1>2, <1>4, WalletTaken
<1>6. ASSUME NEW x \in Tokens
      PROVE \E d \in Int : /\ InPairs(pools', x) = InPairs(pools, x) + d
                           /\ InWallets(wallet', x) = InWallets(wallet, x) - d
  <2>1. Only(t, amount, x) \in Int
    BY OnlyType
  <2>2. InPairs(pools', x) = InPairs(pools, x) + Only(t, amount, x)
    BY <1>2, <1>3 DEF Only
  <2> QED BY <1>5, <2>1, <2>2
<1>7. AllGood(pools')
  BY <1>2, <1>3
<1>8. Balanced(wallet', pools')
  BY <1>1, <1>5, <1>6, <1>7, BalancedStep
<1>9. SharesSound'
  BY <1>2, <1>3, KeepShares DEF IInv, Gain
<1>10. created' \subseteq Pairs /\ PoolsSound' /\ TokensSound' /\ PermitsSound' /\ FeeToKnown'
  BY <1>2, <1>5, <1>7, <1>8 DEF IInv, PoolsSound, TokensSound, PermitsSound, FeeToKnown
<1> QED BY <1>2, <1>3, <1>9, <1>10 DEF IInv

LEMMA GiveLpKeeps ==
  ASSUME IInv, NEW u \in Users, NEW p \in Pairs, NEW amount \in Nat, GiveLp(u, p, amount)
  PROVE  IInv'
<1>1. u \in Holders /\ Self \in Holders /\ u # Self
  BY RouterAssumption DEF Holders
<1>2. /\ lp \in ShareBook /\ SharesHeld(lp, pools)
      /\ lp[p][u] >= amount /\ lp' = [lp EXCEPT ![p][u] = @ - amount, ![p][Self] = @ + amount]
      /\ created' = created /\ pools' = pools /\ wallet' = wallet
      /\ allowance' = allowance /\ permit' = permit
      /\ feeTo' = feeTo
  BY DEF IInv, SharesSound, GiveLp
<1>3. /\ lp[p] \in Shares /\ lp'[p] \in Shares /\ lp' \in ShareBook
      /\ lp[p][u] \in Nat /\ lp[p][Self] \in Nat
      /\ lp'[p][u] = lp[p][u] - amount /\ lp'[p][Self] = lp[p][Self] + amount
      /\ \A h \in Holders : h # u /\ h # Self => lp'[p][h] = lp[p][h]
      /\ \A o \in Pairs : o # p => lp'[o] = lp[o]
  BY <1>1, <1>2 DEF ShareBook, Shares
<1>4. /\ SumOver(Holders, lp[p]) \in Nat
      /\ SumOver(Holders, lp'[p]) = (SumOver(Holders, lp[p]) + (lp'[p][u] - lp[p][u]))
                                      + (lp'[p][Self] - lp[p][Self])
  BY <1>1, <1>3, SharesMove
<1>5. SumOver(Holders, lp'[p]) = pools'[p].supply
  <2>1. SumOver(Holders, lp[p]) = pools[p].supply
    BY <1>2 DEF SharesHeld
  <2> QED BY <1>2, <1>3, <1>4, <2>1
<1>6. SharesHeld(lp', pools')
  <2>1. \A o \in Pairs : o # p => lp'[o] = lp[o] /\ pools'[o].supply = pools[o].supply
    BY <1>2, <1>3
  <2>2. lp \in ShareBook /\ SharesHeld(lp, pools)
    BY <1>2
  <2> QED BY <1>3, <1>5, <2>1, <2>2, OneBook
<1>7. created' \subseteq Pairs /\ PoolsSound' /\ TokensSound' /\ PermitsSound' /\ FeeToKnown'
  BY <1>2 DEF IInv, PoolsSound, TokensSound, PermitsSound, FeeToKnown
<1> QED BY <1>3, <1>6, <1>7 DEF IInv, SharesSound

LEMMA SyncPairKeeps ==
  ASSUME IInv, NEW p \in Pairs, SyncPair(p)
  PROVE  IInv' /\ Gain(pools, pools')
<1> DEFINE q == pools[p]
           w == Synced(q)
<1>1. /\ AllGood(pools) /\ wallet \in Wallets /\ Balanced(wallet, pools)
      /\ GoodPool(q) /\ q \in PoolShape
  BY DEF IInv, PoolsSound, TokensSound, AllGood, GoodPool
<1>2. /\ pools' = [pools EXCEPT ![p] = w]
      /\ wallet' = wallet /\ created' = created /\ lp' = lp
      /\ allowance' = allowance /\ permit' = permit
      /\ feeTo' = feeTo
  BY DEF SyncPair
<1> HIDE DEF q
<1>3. /\ GoodPool(w) /\ w.supply = q.supply /\ Product(w) = q.balance0 * q.balance1
      /\ \A t : BalanceOf(w, p, t) = BalanceOf(q, p, t)
  BY <1>1, SyncedPool
<1> HIDE DEF w
<1>4. Product(q) <= Product(w)
  <2>1. /\ q.reserve0 \in Nat /\ q.reserve1 \in Nat /\ q.balance0 \in Nat /\ q.balance1 \in Nat
        /\ q.reserve0 <= q.balance0 /\ q.reserve1 <= q.balance1
    BY <1>1 DEF GoodPool, PoolShape
  <2>2. q.reserve0 * q.reserve1 <= q.balance0 * q.balance1
    BY <2>1, ProductMono
  <2> QED BY <1>3, <2>2 DEF Product
<1>5. AllGood(pools') /\ pools'[p] = w /\ \A o \in Pairs : o # p => pools'[o] = pools[o]
  BY <1>1, <1>2, <1>3, OnePool DEF AllGood, Pools
<1>6. Gain(pools, pools')
  <2>1. ASSUME NEW o \in Pairs
        PROVE pools'[o].supply = pools[o].supply /\ Product(pools[o]) <= Product(pools'[o])
    <3>1. Product(pools[o]) \in Nat
      BY <1>1, ProductType DEF AllGood, Pools
    <3> QED BY <1>3, <1>4, <1>5, <3>1 DEF q
  <2> QED BY <2>1 DEF Gain
<1>7. Balanced(wallet', pools')
  <2>1. ASSUME NEW t \in Tokens
        PROVE \E d \in Int : /\ InPairs(pools', t) = InPairs(pools, t) + d
                             /\ InWallets(wallet', t) = InWallets(wallet, t) - d
    <3>1. BalanceOf(w, p, t) = BalanceOf(pools[p], p, t) + 0
      BY <1>1, <1>3, BalanceType DEF q
    <3>2. InPairs([pools EXCEPT ![p] = w], t) = InPairs(pools, t) + 0
      BY <1>1, <1>3, <3>1, OnePoolMoves
    <3>3. InWallets(wallet', t) = InWallets(wallet, t) - 0
      BY <1>1, <1>2, InWalletsType
    <3> QED BY <1>2, <3>2, <3>3
  <2>2. wallet' \in Wallets
    BY <1>1, <1>2
  <2> QED BY <1>1, <1>5, <2>1, <2>2, BalancedStep
<1>8. SharesSound'
  BY <1>2, <1>6, KeepShares DEF IInv, Gain
<1>9. created' \subseteq Pairs /\ PoolsSound' /\ TokensSound' /\ PermitsSound' /\ FeeToKnown'
  BY <1>1, <1>2, <1>5, <1>7 DEF IInv, PoolsSound, TokensSound, PermitsSound, FeeToKnown
<1> QED BY <1>6, <1>8, <1>9 DEF IInv

LEMMA SkimPairKeeps ==
  ASSUME IInv, NEW u \in Users, NEW p \in Pairs, SkimPair(u, p)
  PROVE  IInv' /\ Gain(pools, pools')
<1> DEFINE q == pools[p]
           w == Skimmed(q)
           t0 == CHOOSE t \in p : IsToken0(t, p)
           t1 == Other(t0, p)
           m == q.balance0 - q.reserve0
           n == q.balance1 - q.reserve1
<1>1. /\ AllGood(pools) /\ wallet \in Wallets /\ Balanced(wallet, pools)
      /\ GoodPool(q) /\ q \in PoolShape
      /\ q.reserve0 \in Nat /\ q.reserve1 \in Nat /\ q.balance0 \in Nat /\ q.balance1 \in Nat
      /\ m \in Nat /\ n \in Nat
  BY DEF IInv, PoolsSound, TokensSound, AllGood, GoodPool, PoolShape
<1>2. /\ pools' = [pools EXCEPT ![p] = w]
      /\ wallet' = BothGainedBy(wallet, u, t0, m, t1, n)
      /\ created' = created /\ lp' = lp /\ allowance' = allowance /\ permit' = permit
      /\ feeTo' = feeTo
  BY DEF SkimPair, BothGainedBy
<1>3. PICK x, y : Sides(p, x, y)
  BY PairSides
<1>4. t0 = x /\ t1 = y /\ x # y /\ x \in Tokens /\ y \in Tokens
  <2>1. t0 = x
    BY <1>3, SidesAre
  <2>2. Other(x, p) = y
    BY <1>3, SidesAre
  <2> QED BY <1>3, <2>1, <2>2 DEF Sides
<1> HIDE DEF t0, t1, q
<1>5. /\ w \in PoolShape /\ w.balance0 = q.reserve0 /\ w.balance1 = q.reserve1
      /\ w.reserve0 = q.reserve0 /\ w.reserve1 = q.reserve1
      /\ w.supply = q.supply /\ Product(w) = Product(q)
  BY <1>1 DEF Skimmed, WithBalances, PoolShape, Product
<1> HIDE DEF w
<1>6. GoodPool(w)
  BY <1>1, <1>5 DEF GoodPool
<1>7. AllGood(pools') /\ pools'[p] = w /\ \A o \in Pairs : o # p => pools'[o] = pools[o]
  BY <1>1, <1>2, <1>6, OnePool DEF AllGood, Pools
<1>8. Gain(pools, pools')
  <2>1. ASSUME NEW o \in Pairs
        PROVE pools'[o].supply = pools[o].supply /\ Product(pools[o]) <= Product(pools'[o])
    <3>1. Product(pools[o]) \in Nat
      BY <1>1, ProductType DEF AllGood, Pools
    <3> QED BY <1>5, <1>7, <3>1 DEF q
  <2> QED BY <2>1 DEF Gain
<1>9. /\ wallet' \in Wallets
      /\ \A t \in Tokens : InWallets(wallet', t) =
           (InWallets(wallet, t) + Only(x, m, t)) + Only(y, n, t)
  <2> HIDE DEF m, n
  <2> QED BY <1>1, <1>2, <1>4, WalletGainedBoth
<1>10. Balanced(wallet', pools')
  <2>1. ASSUME NEW t \in Tokens
        PROVE \E d \in Int : /\ InPairs(pools', t) = InPairs(pools, t) + d
                             /\ InWallets(wallet', t) = InWallets(wallet, t) - d
    <3> DEFINE d == 0 - (Only(x, m, t) + Only(y, n, t))
    <3>1. /\ Only(x, m, t) \in Int /\ Only(y, n, t) \in Int /\ d \in Int
          /\ BalanceOf(q, p, t) \in Nat /\ InWallets(wallet, t) \in Int
      BY <1>1, OnlyType, BalanceType, InWalletsType
    <3>2. BalanceOf(w, p, t) = BalanceOf(q, p, t) + d
      <4>1. /\ BalanceOf(q, p, x) = q.balance0 /\ BalanceOf(q, p, y) = q.balance1
            /\ t # x /\ t # y => BalanceOf(q, p, t) = 0
        BY <1>3, SideRecords
      <4>2. /\ BalanceOf(w, p, x) = w.balance0 /\ BalanceOf(w, p, y) = w.balance1
            /\ t # x /\ t # y => BalanceOf(w, p, t) = 0
        BY <1>3, SideRecords
      <4> QED BY <1>1, <1>4, <1>5, <4>1, <4>2 DEF Only
    <3>3. InWallets(wallet', t) = InWallets(wallet, t) - d
      BY <1>9, <3>1
    <3> HIDE DEF d
    <3>4. InPairs([pools EXCEPT ![p] = w], t) = InPairs(pools, t) + d
      BY <1>1, <1>6, <3>1, <3>2, OnePoolMoves DEF q
    <3> QED BY <1>2, <3>1, <3>3, <3>4
  <2> QED BY <1>1, <1>7, <1>9, <2>1, BalancedStep
<1>11. SharesSound'
  BY <1>2, <1>8, KeepShares DEF IInv, Gain
<1>12. created' \subseteq Pairs /\ PoolsSound' /\ TokensSound' /\ PermitsSound' /\ FeeToKnown'
  BY <1>2, <1>7, <1>9, <1>10 DEF IInv, PoolsSound, TokensSound, PermitsSound, FeeToKnown
<1> QED BY <1>8, <1>11, <1>12 DEF IInv

-----------------------------------------------------------------------------
(* Every step. *)

LEMMA SetFeeToKeeps ==
  ASSUME IInv, NEW to \in Treasuries \cup {NoOne}, SetFeeTo(to)
  PROVE  IInv'
BY DEF IInv, SetFeeTo, PoolsSound, TokensSound, SharesSound, PermitsSound, FeeToKnown

Removed(p) ==
  \E u, to \in Users, liquidity \in Removals :
    RemoveLiquidity(u, to, p, liquidity) \/ RemoveLiquidityWithPermit(u, to, p, liquidity)

Gains == \A p \in Pairs : Product(pools'[p]) >= Product(pools[p]) \/ Removed(p)

LEMMA GainGains ==
  ASSUME IInv, IInv', Gain(pools, pools')
  PROVE  Gains
<1>1. ASSUME NEW p \in Pairs PROVE Product(pools'[p]) >= Product(pools[p])
  <2>1. Product(pools[p]) \in Nat /\ Product(pools'[p]) \in Nat
    BY ProductType DEF IInv, PoolsSound, AllGood, Pools
  <2> QED BY <2>1 DEF Gain
<1> QED BY <1>1 DEF Gains

LEMMA RemovedGains ==
  ASSUME IInv, NEW p \in Pairs, Removed(p), \A o \in Pairs : o # p => pools'[o] = pools[o]
  PROVE  Gains
<1>1. ASSUME NEW o \in Pairs, o # p PROVE Product(pools'[o]) >= Product(pools[o])
  <2>1. Product(pools[o]) \in Nat
    BY ProductType DEF IInv, PoolsSound, AllGood, Pools
  <2> QED BY <1>1, <2>1
<1> QED BY <1>1 DEF Gains

LEMMA UnchangedGains ==
  ASSUME IInv, IInv', pools' = pools
  PROVE  Gains
<1>1. ASSUME NEW p \in Pairs PROVE Product(pools'[p]) >= Product(pools[p])
  <2>1. Product(pools[p]) \in Nat
    BY ProductType DEF IInv, PoolsSound, AllGood, Pools
  <2> QED BY <2>1
<1> QED BY <1>1 DEF Gains

LEMMA StepKeeps ==
  ASSUME IInv, [Next]_vars
  PROVE  IInv' /\ Gains
<1> USE RouterAssumption
<1>1. CASE UNCHANGED vars
  <2>1. IInv'
    BY <1>1 DEF vars, IInv, PoolsSound, TokensSound, SharesSound, PermitsSound, FeeToKnown
  <2> QED BY <1>1, <2>1, UnchangedGains DEF vars
<1>2. CASE \E a, b \in Tokens : CreatePair(a, b)
  <2>1. IInv' /\ pools' = pools
    BY <1>2, CreatePairKeeps DEF CreatePair
  <2> QED BY <2>1, UnchangedGains
<1>3. CASE \E u, to \in Users, a, b \in Tokens, desiredA, desiredB \in Deposits :
             AddLiquidity(u, to, a, b, desiredA, desiredB)
  <2>1. IInv' /\ Rises
    <3>1. Deposits \subseteq Nat
      OBVIOUS
    <3> QED BY ONLY <1>3, <3>1, IInv, AddLiquidityKeeps
  <2> QED BY <2>1 DEF Rises, Gains
<1>4. CASE \E u, to \in Users, p \in Pairs, liquidity \in Removals :
             \/ RemoveLiquidity(u, to, p, liquidity)
             \/ RemoveLiquidityWithPermit(u, to, p, liquidity)
  <2> PICK u \in Users, to \in Users, p \in Pairs, liquidity \in Removals :
        \/ RemoveLiquidity(u, to, p, liquidity)
        \/ RemoveLiquidityWithPermit(u, to, p, liquidity)
    BY <1>4
  <2>1. liquidity \in Nat
    OBVIOUS
  <2>2. PICK allowed \in Nat, signature \in [signed : BOOLEAN, used : BOOLEAN, value : Nat] :
          RemoveShares(u, to, p, liquidity, allowed, signature)
    BY <2>1, PermittedType DEF RemoveLiquidity, RemoveLiquidityWithPermit
  <2>3. IInv' /\ \A o \in Pairs : o # p => pools'[o] = pools[o]
    BY <2>1, <2>2, RemoveSharesKeeps
  <2>4. Removed(p)
    BY DEF Removed
  <2> QED BY <2>3, <2>4, RemovedGains
<1>5. CASE \E u, to \in Users, path \in Paths, amountIn \in Payments :
             SwapExactTokensForTokens(u, to, path, amountIn)
  <2> PICK u \in Users, to \in Users, path \in Paths, amountIn \in Payments :
        SwapExactTokensForTokens(u, to, path, amountIn)
    BY <1>5
  <2>1. IsPath(path) /\ amountIn \in Nat /\ AllGood(pools)
    BY PathsArePaths DEF IInv, PoolsSound
  <2>2. AmountsOut(amountIn, path) \in [1..Len(path) -> Nat]
    BY <2>1, OutsType
  <2>3. IInv' /\ Gain(pools, pools')
    BY <2>1, <2>2, SwapAlongKeeps DEF SwapExactTokensForTokens
  <2> QED BY <2>3, GainGains
<1>6. CASE \E u, to \in Users, path \in Paths, amountOut \in Purchases :
             SwapTokensForExactTokens(u, to, path, amountOut)
  <2> PICK u \in Users, to \in Users, path \in Paths, amountOut \in Purchases :
        SwapTokensForExactTokens(u, to, path, amountOut)
    BY <1>6
  <2>1. IsPath(path) /\ amountOut \in Nat /\ AllGood(pools)
    BY PathsArePaths DEF IInv, PoolsSound
  <2>2. AmountsIn(amountOut, path) \in [1..Len(path) -> Nat]
    BY <2>1, InsType
  <2>3. IInv' /\ Gain(pools, pools')
    BY <2>1, <2>2, SwapAlongKeeps DEF SwapTokensForExactTokens
  <2> QED BY <2>3, GainGains
<1>7. CASE \E u \in Users, p \in Pairs, value \in PermitValues :
             Approve(u, p, value) \/ SignPermit(u, p, value)
  <2>1. IInv' /\ pools' = pools
    BY <1>7, ApproveKeeps, SignPermitKeeps DEF Approve, SignPermit
  <2> QED BY <2>1, UnchangedGains
<1>8. CASE \E u \in Users, p \in Pairs : SubmitPermit(u, p)
  <2>1. IInv' /\ pools' = pools
    BY <1>8, SubmitPermitKeeps DEF SubmitPermit
  <2> QED BY <2>1, UnchangedGains
<1>9. CASE \E u \in Users, p \in Pairs, amount \in Gifts : \E t \in p : Give(u, p, t, amount)
  <2>1. IInv' /\ Gain(pools, pools')
    BY <1>9, GiveKeeps
  <2> QED BY <2>1, GainGains
<1>10. CASE \E u \in Users, p \in Pairs, amount \in Removals : GiveLp(u, p, amount)
  <2>1. IInv' /\ pools' = pools
    BY <1>10, GiveLpKeeps DEF GiveLp
  <2> QED BY <2>1, UnchangedGains
<1>11. CASE \E p \in Pairs : SyncPair(p)
  <2>1. IInv' /\ Gain(pools, pools')
    BY <1>11, SyncPairKeeps
  <2> QED BY <2>1, GainGains
<1>12. CASE \E u \in Users, p \in Pairs : SkimPair(u, p)
  <2>1. IInv' /\ Gain(pools, pools')
    BY <1>12, SkimPairKeeps
  <2> QED BY <2>1, GainGains
<1>13. CASE \E to \in Treasuries \cup {NoOne} : SetFeeTo(to)
  <2>1. IInv' /\ pools' = pools
    BY <1>13, SetFeeToKeeps DEF SetFeeTo
  <2> QED BY <2>1, UnchangedGains
<1> QED BY <1>13, <1>1, <1>2, <1>3, <1>4, <1>5, <1>6, <1>7, <1>8, <1>9, <1>10, <1>11, <1>12 DEF Next

-----------------------------------------------------------------------------
(* What is always so. *)

(* Whatever anyone does, the router's world is sound: see IInv above.      *)
THEOREM RouterInvariance == Spec => []IInv
<1>1. Init => IInv
  BY InitIInv
<1>2. IInv /\ [Next]_vars => IInv'
  BY StepKeeps
<1> QED BY <1>1, <1>2, PTL DEF Spec

(* The router's own sums: add, remove and permit (addLiquidity,            *)
(* _optimalAmount, removeLiquidityWithPermit).                             *)
LEMMA AddsWithin ==
  ASSUME IInv
  PROVE  AddsWithinBounds
<1> SUFFICES ASSUME NEW p \in created, NEW a \in p,
                    NEW desiredA \in Deposits \cup {d - 1 : d \in Deposits \ {0}},
                    NEW desiredB \in Deposits \cup {d - 1 : d \in Deposits \ {0}},
                    NEW minA \in {0, 1, desiredA}, NEW minB \in {0, 1, desiredB},
                    OptimalAmount(desiredA, desiredB, minA, minB,
                      ReserveOf(pools[p], p, a), ReserveOf(pools[p], p, Other(a, p))).ok
             PROVE  LET add == OptimalAmount(desiredA, desiredB, minA, minB,
                                 ReserveOf(pools[p], p, a), ReserveOf(pools[p], p, Other(a, p)))
                    IN  add.amountA \in minA..desiredA /\ add.amountB \in minB..desiredB
  BY DEF AddsWithinBounds
<1> DEFINE reserveA == ReserveOf(pools[p], p, a)
           reserveB == ReserveOf(pools[p], p, Other(a, p))
<1>1. reserveA \in Nat /\ reserveB \in Nat
  <2>1. p \in Pairs /\ pools[p] \in PoolShape
    BY DEF IInv, PoolsSound, AllGood, Pools
  <2> QED BY <2>1, ReserveType
<1>2. OptimalAmount(desiredA, desiredB, minA, minB, reserveA, reserveB).ok
  OBVIOUS
<1> HIDE DEF reserveA, reserveB
<1>3. desiredA \in Nat /\ desiredB \in Nat
  BY RouterAssumption
<1>4. minA \in Nat /\ minB \in Nat
  BY <1>3
<1>5. minA <= desiredA /\ minB <= desiredB
  <2> DEFINE optimalB == Quote(desiredA, reserveA, reserveB)
  <2>1. /\ desiredA > 0
        /\ optimalB <= desiredB => optimalB >= minB
        /\ ~(optimalB <= desiredB) => desiredB > 0
        /\ reserveA > 0 /\ reserveB > 0
    BY <1>2 DEF OptimalAmount
  <2>2. optimalB \in Nat
    <3>1. desiredA * reserveB \in Nat
      BY <1>1, <1>3, Products
    <3>2. optimalB = (desiredA * reserveB) \div reserveA
      BY <2>1 DEF Quote
    <3> QED BY <1>1, <2>1, <3>1, <3>2, QuotientBack
  <2> HIDE DEF optimalB
  <2> QED BY <1>3, <2>1, <2>2
<1>6. LET add == OptimalAmount(desiredA, desiredB, minA, minB, reserveA, reserveB)
      IN  add.amountA \in minA..desiredA /\ add.amountB \in minB..desiredB
  BY <1>1, <1>2, <1>3, <1>4, <1>5, OptimalWithin
<1> QED BY <1>6 DEF reserveA, reserveB

LEMMA PermitsStayGood ==
  ASSUME IInv
  PROVE  PermitStaysGood
<1> SUFFICES ASSUME NEW p \in Pairs, NEW u \in Users, NEW liquidity \in Removals,
                    permit[p][u].signed, SignedFor(permit[p][u], liquidity)
             PROVE  /\ Permitted(p, u, liquidity).ok
                    /\ Permitted(p, u, liquidity).allowed >= liquidity
  BY DEF PermitStaysGood
<1>1. liquidity \in Nat /\ liquidity <= Unlimited
  BY RouterAssumption
<1>2. /\ permit[p][u] \in [signed : BOOLEAN, used : BOOLEAN, value : Nat]
      /\ allowance[p][u] \in Nat
  BY <1>1, PermittedType
<1>3. permit[p][u].value >= liquidity
  BY <1>1, <1>2, RouterAssumption DEF SignedFor
<1>4. permit[p][u].used => allowance[p][u] >= liquidity
  BY <1>3 DEF IInv, PermitsSound, PermitsKept
<1>5. CASE allowance[p][u] >= liquidity
  BY <1>5 DEF Permitted
<1>6. CASE ~(allowance[p][u] >= liquidity)
  BY <1>3, <1>4, <1>6 DEF Permitted
<1> QED BY <1>5, <1>6

(* For any tokens, users and amounts: no token stays with the router and   *)
(* nobody is overdrawn; what addLiquidity takes is within the caller's     *)
(* bounds; and a permit, whoever submits it first, is still good for what  *)
(* its owner signed it for.                                                *)
THEOREM LiquidityStaysSafe == Spec => []LiquidityIsSafe
<1>1. IInv => LiquidityIsSafe
  <2> SUFFICES ASSUME IInv PROVE LiquidityIsSafe
    OBVIOUS
  <2>1. NothingStuck
    BY TypeSound DEF NothingStuck, IInv, TokensSound, Balanced
  <2> QED BY <2>1, AddsWithin, PermitsStayGood DEF LiquidityIsSafe
<1> QED BY <1>1, RouterInvariance, PTL

(* For any tokens and any path, one that comes round to the same pairs     *)
(* included, and whoever takes the protocol's fee: only a removal of its   *)
(* own liquidity ever lowers the product of a pair.                        *)
THEOREM PairsGain == Spec => EveryPairGains
<1>1. IInv /\ [Next]_vars => [Gains]_vars
  BY StepKeeps
<1>2. [Gains]_vars =>
        [ \A p \in Pairs :
            \/ Product(pools'[p]) >= Product(pools[p])
            \/ \E u, to \in Users, liquidity \in Removals :
                 RemoveLiquidity(u, to, p, liquidity) \/ RemoveLiquidityWithPermit(u, to, p, liquidity) ]_vars
  BY DEF Gains, Removed
<1>3. Spec => [][Gains]_vars
  BY <1>1, RouterInvariance, PTL DEF Spec
<1> QED BY <1>3, <1>2, PTL DEF EveryPairGains

-----------------------------------------------------------------------------
(* Quotes.  Amounts are a fair trade where what is paid in, less its fee,  *)
(* has at the new reserves at least the worth of what is paid out.         *)

Fair(a, o, r, s) == o * (r * FEE_BASE) <= (a * (FEE_BASE - FEE)) * (s - o)

LEMMA Fees ==
  /\ FEE \in Nat /\ FEE_BASE \in Nat /\ FEE_BASE > 0
  /\ FEE_BASE - FEE \in Nat /\ FEE_BASE - FEE > 0
BY PairMathAssumption

LEMMA PositiveProduct == \A a, b \in Nat : a > 0 /\ b > 0 => a * b \in Nat /\ a * b > 0
<1> TAKE a, b \in Nat
<1>1. ASSUME a > 0, b > 0 PROVE a * b \in Nat /\ a * b > 0
  <2>1. a * 1 <= a * b /\ a * b \in Nat /\ a * 1 = a
    BY <1>1, Products
  <2> QED BY <1>1, <2>1
<1> QED BY <1>1

(* The largest whole number that a divisor fits into, and every smaller. *)
LEMMA FitsInto ==
  ASSUME NEW a \in Nat, NEW b \in Nat, b > 0, NEW c \in Nat
  PROVE  c <= a \div b <=> c * b <= a
<1> DEFINE q == a \div b
<1>1. q \in Nat /\ q * b <= a /\ a < q * b + b
  BY QuotientBack
<1> HIDE DEF q
<1>2. c * b \in Nat /\ q * b \in Nat
  BY <1>1, Products
<1>3. ASSUME c <= q PROVE c * b <= a
  <2>1. c * b <= q * b
    BY <1>1, <1>3, ProductMono
  <2> QED BY <1>1, <1>2, <2>1
<1>4. ASSUME ~(c <= q) PROVE ~(c * b <= a)
  <2>1. (q + 1) * b <= c * b
    BY <1>1, <1>4, ProductMono
  <2>2. (q + 1) * b = q * b + b
    BY <1>1, Z3
  <2> QED BY <1>1, <1>2, <2>1, <2>2
<1> QED BY <1>3, <1>4 DEF q

(* getAmountOut gives the most that is still a fair trade. *)
LEMMA FairOut ==
  ASSUME NEW a \in Nat, NEW r \in Nat, NEW s \in Nat, a > 0, r > 0, s > 0, NEW o \in Nat
  PROVE  o <= AmountOut(a, r, s) <=> Fair(a, o, r, s)
<1> DEFINE net == a * (FEE_BASE - FEE)
           scaled == r * FEE_BASE
           d == scaled + net
<1>1. net \in Nat /\ scaled \in Nat /\ scaled > 0
  BY Fees, Products, PositiveProduct
<1>2. AmountOut(a, r, s) = (net * s) \div (scaled + net)
  BY DEF AmountOut
<1>3. Fair(a, o, r, s) <=> o * scaled <= net * (s - o)
  BY DEF Fair
<1> HIDE DEF net, scaled
<1>4. d \in Nat /\ d > 0 /\ net * s \in Nat
  BY <1>1, Products
<1>5. o <= AmountOut(a, r, s) <=> o * d <= net * s
  <2> HIDE DEF d
  <2>1. AmountOut(a, r, s) = (net * s) \div d
    BY <1>2 DEF d
  <2> QED BY <1>4, <2>1, FitsInto
<1>6. /\ o * d = o * scaled + o * net /\ net * (s - o) = net * s - net * o
      /\ o * net = net * o /\ o * net \in Nat /\ o * scaled \in Nat
  BY <1>1, Products
<1> QED BY <1>3, <1>4, <1>5, <1>6

(* A fair trade leaves something of the reserve it is paid from. *)
LEMMA FairLeaves ==
  ASSUME NEW a \in Nat, NEW o \in Nat, NEW r \in Nat, NEW s \in Nat, o > 0, r > 0,
         Fair(a, o, r, s)
  PROVE  o < s
<1> DEFINE net == a * (FEE_BASE - FEE)
           scaled == r * FEE_BASE
<1>1. net \in Nat /\ scaled \in Nat /\ scaled > 0
  BY Fees, Products, PositiveProduct
<1>2. o * scaled <= net * (s - o)
  BY DEF Fair
<1> HIDE DEF net, scaled
<1>3. o * scaled \in Nat /\ o * scaled > 0
  BY <1>1, PositiveProduct
<1> SUFFICES ASSUME s - o <= 0 PROVE FALSE
  OBVIOUS
<1>4. net * (s - o) <= net * 0
  BY <1>1, Products
<1>5. net * 0 = 0 /\ net * (s - o) \in Int
  BY <1>1
<1> QED BY <1>2, <1>3, <1>4, <1>5

(* More paid in is as fair. *)
LEMMA FairMore ==
  ASSUME NEW a \in Nat, NEW b \in Nat, a <= b, NEW o \in Nat, NEW r \in Nat, NEW s \in Nat,
         o <= s, Fair(a, o, r, s)
  PROVE  Fair(b, o, r, s)
<1>1. s - o \in Nat /\ FEE_BASE - FEE \in Nat
  BY Fees
<1>2. a * (FEE_BASE - FEE) <= b * (FEE_BASE - FEE)
  BY <1>1, ProductMono
<1>3. a * (FEE_BASE - FEE) \in Nat /\ b * (FEE_BASE - FEE) \in Nat /\ r * FEE_BASE \in Nat
  BY <1>1, Fees, Products
<1>4. (a * (FEE_BASE - FEE)) * (s - o) <= (b * (FEE_BASE - FEE)) * (s - o)
  BY <1>1, <1>2, <1>3, ProductMono
<1>5. /\ (a * (FEE_BASE - FEE)) * (s - o) \in Nat /\ (b * (FEE_BASE - FEE)) * (s - o) \in Nat
      /\ o * (r * FEE_BASE) \in Nat
  BY <1>1, <1>3, Products
<1> QED BY <1>4, <1>5 DEF Fair

(* getAmountIn asks enough, and two units less are not enough. *)
LEMMA FairIn ==
  ASSUME NEW o \in Nat, NEW r \in Nat, NEW s \in Nat, AmountIn(o, r, s) > 0
  PROVE  LET a == AmountIn(o, r, s)
         IN  /\ a \in Nat /\ o > 0 /\ r > 0 /\ o < s
             /\ Fair(a, o, r, s)
             /\ a > 2 => ~Fair(a - 2, o, r, s)
<1> DEFINE a == AmountIn(o, r, s)
           g == FEE_BASE - FEE
           n == r * o * FEE_BASE
           d == (s - o) * g
           q == n \div d
<1>1. o > 0 /\ r > 0 /\ o < s
  BY DEF AmountIn
<1>2. g \in Nat /\ g > 0 /\ s - o \in Nat /\ s - o > 0
  BY <1>1, Fees
<1>3. a = q + 1
  BY <1>1 DEF AmountIn
<1>4. n \in Nat /\ n = o * (r * FEE_BASE)
  BY Fees, Products, Z3
<1>5. \A x \in Int : (x * g) * (s - o) = x * d
  BY <1>2, Z3
<1>6. d \in Nat /\ d > 0
  BY <1>2, PositiveProduct
<1>7. \A x \in Int : Fair(x, o, r, s) <=> n <= x * d
  BY <1>4, <1>5 DEF Fair
<1> HIDE DEF a, n, d, g, q
<1>8. q \in Nat /\ q * d <= n /\ n < q * d + d
  BY <1>4, <1>6, QuotientBack DEF q
<1>9. a \in Nat /\ Fair(a, o, r, s)
  <2>1. (q + 1) * d = q * d + d /\ q * d \in Nat
    BY <1>6, <1>8, Products, Z3
  <2>2. n <= a * d
    BY <1>3, <1>4, <1>6, <1>8, <2>1
  <2> QED BY <1>3, <1>7, <1>8, <2>2
<1>10. ASSUME a > 2 PROVE ~Fair(a - 2, o, r, s)
  <2>1. a - 2 = q - 1 /\ a - 2 \in Int
    BY <1>3, <1>8
  <2>2. (q - 1) * d = q * d - d /\ q * d \in Nat
    BY <1>6, <1>8, Products, Z3
  <2>3. (a - 2) * d < n
    BY <1>4, <1>6, <1>8, <2>1, <2>2
  <2>4. (a - 2) * d \in Int
    BY <1>6, <2>1
  <2> QED BY <1>4, <1>7, <2>1, <2>3, <2>4
<1> QED BY <1>1, <1>9, <1>10 DEF a

(* A quote grows with what is paid in. *)
LEMMA OutMonotone ==
  ASSUME NEW a \in Nat, NEW b \in Nat, a <= b, NEW r \in Nat, NEW s \in Nat
  PROVE  AmountOut(a, r, s) <= AmountOut(b, r, s)
<1>1. CASE a = 0 \/ r = 0 \/ s = 0
  <2>1. AmountOut(a, r, s) = 0
    BY <1>1 DEF AmountOut
  <2> QED BY <2>1, AmountOutType
<1>2. CASE a > 0 /\ r > 0 /\ s > 0
  <2> PICK o \in Nat : o = AmountOut(a, r, s)
    BY AmountOutType
  <2>1. b > 0
    BY <1>2
  <2>2. Fair(a, o, r, s)
    BY <1>2, FairOut
  <2>3. o <= s
    BY <1>2, <2>2, FairLeaves
  <2>4. Fair(b, o, r, s)
    BY <2>2, <2>3, FairMore
  <2>5. o <= AmountOut(b, r, s)
    BY <1>2, <2>1, <2>4, FairOut
  <2> QED BY <2>5
<1> QED BY <1>1, <1>2

(* What is asked for an output buys it. *)
LEMMA AskedBuys ==
  ASSUME NEW o \in Nat, NEW r \in Nat, NEW s \in Nat, AmountIn(o, r, s) > 0
  PROVE  o <= AmountOut(AmountIn(o, r, s), r, s)
<1> PICK a : a = AmountIn(o, r, s)
  OBVIOUS
<1>1. a \in Nat /\ a > 0 /\ o > 0 /\ r > 0 /\ o < s /\ Fair(a, o, r, s)
  BY FairIn
<1> QED BY <1>1, FairOut

LEMMA AskedTight ==
  ASSUME NEW o \in Nat, NEW r \in Nat, NEW s \in Nat, AmountIn(o, r, s) > 2
  PROVE  AmountOut(AmountIn(o, r, s) - 2, r, s) < o
<1> PICK a : a = AmountIn(o, r, s)
  OBVIOUS
<1>1. a \in Nat /\ a > 2 /\ o > 0 /\ r > 0 /\ o < s /\ ~Fair(a - 2, o, r, s)
  <2>1. AmountIn(o, r, s) > 0
    BY AmountInType
  <2> QED BY <2>1, FairIn
<1> PICK b \in Nat : b = a - 2 /\ b > 0
  BY <1>1
<1>2. ~(o <= AmountOut(b, r, s))
  BY <1>1, FairOut
<1>3. AmountOut(b, r, s) \in Nat
  BY AmountOutType
<1> QED BY <1>2, <1>3

LEMMA HopReserves ==
  ASSUME AllGood(pools), NEW path, IsPath(path), NEW i \in Hops(path)
  PROVE  /\ ReserveOf(pools[HopPair(path, i)], HopPair(path, i), path[i]) \in Nat
         /\ ReserveOf(pools[HopPair(path, i)], HopPair(path, i), path[i + 1]) \in Nat
BY HopTokens, ReserveType DEF AllGood, Pools

(* A path's exact-output price. *)
LEMMA PricesTight ==
  ASSUME AllGood(pools), NEW path, IsPath(path), NEW amountOut \in Nat,
         Quoted(AmountsIn(amountOut, path))
  PROVE  LET amounts == AmountsIn(amountOut, path)
         IN  /\ AmountsOut(amounts[1], path)[Len(path)] >= amountOut
             /\ amounts[1] > 2 => QuoteHop(amounts[1] - 2, path, 1) < amounts[2]
<1> DEFINE asked == AmountsIn(amountOut, path)
           got == AmountsOut(asked[1], path)
           n == Len(path)
           R(i) == ReserveOf(pools[HopPair(path, i)], HopPair(path, i), path[i])
           S(i) == ReserveOf(pools[HopPair(path, i)], HopPair(path, i), path[i + 1])
<1>1. /\ n \in Nat /\ n >= 2
      /\ \A i \in Hops(path) : i \in Nat /\ i \in 1..n /\ i + 1 \in 1..n /\ i >= 1
      /\ 1 \in Hops(path)
  BY DEF IsPath, Hops
<1>2. \A i \in Hops(path) : R(i) \in Nat /\ S(i) \in Nat
  BY HopReserves
<1>3. asked \in [1..n -> Nat]
  BY InsType
<1>4. /\ \A i \in 1..n : asked[i] \in Nat /\ asked[i] > 0
      /\ asked[n] = amountOut
      /\ \A i \in Hops(path) : asked[i] = AmountIn(asked[i + 1], R(i), S(i))
  <2>1. asked[n] = amountOut /\ \A i \in Hops(path) : asked[i] = AskHop(asked[i + 1], path, i)
    BY AmountsInAre
  <2>2. \A i \in Hops(path) : asked[i] = AmountIn(asked[i + 1], R(i), S(i))
    BY <2>1 DEF AskHop
  <2>3. DOMAIN asked = 1..n
    BY <1>3
  <2>4. Quoted(asked)
    OBVIOUS
  <2> HIDE DEF asked
  <2>5. \A i \in 1..n : asked[i] \in Nat /\ asked[i] > 0
    BY <1>3, <2>3, <2>4 DEF Quoted
  <2> QED BY <2>1, <2>2, <2>5
<1> HIDE DEF asked
<1>5. asked[1] \in Nat
  BY <1>1, <1>4
<1>6. got \in [1..n -> Nat]
  BY <1>5, OutsType
<1>7. /\ got[1] = asked[1]
      /\ \A i \in Hops(path) : got[i + 1] = AmountOut(got[i], R(i), S(i))
  <2>1. got[1] = asked[1] /\ \A i \in Hops(path) : got[i + 1] = QuoteHop(got[i], path, i)
    BY AmountsOutAre
  <2> QED BY <2>1 DEF QuoteHop
<1> HIDE DEF got
<1>8. ASSUME NEW i \in Hops(path), got[i] >= asked[i] PROVE got[i + 1] >= asked[i + 1]
  <2> PICK a \in Nat, o \in Nat, r \in Nat, s \in Nat :
        a = asked[i] /\ o = asked[i + 1] /\ r = R(i) /\ s = S(i)
    BY <1>1, <1>2, <1>4
  <2>1. a = AmountIn(o, r, s) /\ a > 0
    BY <1>1, <1>4
  <2>2. o <= AmountOut(a, r, s)
    BY <2>1, AskedBuys
  <2> PICK b \in Nat : b = got[i]
    BY <1>1, <1>6
  <2>3. a <= b
    BY <1>8
  <2>4. AmountOut(a, r, s) <= AmountOut(b, r, s)
    BY <2>3, OutMonotone
  <2>5. AmountOut(a, r, s) \in Nat /\ AmountOut(b, r, s) \in Nat
    BY AmountOutType
  <2>6. got[i + 1] = AmountOut(b, r, s)
    BY <1>7
  <2> QED BY <2>2, <2>4, <2>5, <2>6
<1>9. got[n] >= asked[n]
  <2> DEFINE Good == {m \in Nat : m < n => got[m + 1] >= asked[m + 1]}
  <2>1. 0 \in Good
    BY <1>4, <1>5, <1>7
  <2>2. ASSUME NEW m \in Nat, m \in Good PROVE m + 1 \in Good
    <3> SUFFICES ASSUME m + 1 < n PROVE got[(m + 1) + 1] >= asked[(m + 1) + 1]
      OBVIOUS
    <3>1. m + 1 \in Hops(path)
      BY <1>1 DEF Hops
    <3>2. got[m + 1] >= asked[m + 1]
      BY <1>1, <2>2
    <3> QED BY <1>8, <3>1, <3>2
  <2> HIDE DEF Good
  <2>3. Nat \subseteq Good
    BY <2>1, <2>2, NatSteps
  <2>4. n - 1 \in Good
    BY <1>1, <2>3
  <2>5. (n - 1) + 1 = n /\ n - 1 < n
    BY <1>1
  <2> QED BY <2>4, <2>5 DEF Good
<1>10. ASSUME asked[1] > 2 PROVE QuoteHop(asked[1] - 2, path, 1) < asked[2]
  <2> PICK a \in Nat, o \in Nat, r \in Nat, s \in Nat :
        a = asked[1] /\ o = asked[1 + 1] /\ r = R(1) /\ s = S(1)
    BY <1>1, <1>2, <1>4
  <2>1. a = AmountIn(o, r, s)
    BY <1>1, <1>4
  <2>2. AmountOut(a - 2, r, s) < o
    BY <1>10, <2>1, AskedTight
  <2>3. QuoteHop(asked[1] - 2, path, 1) = AmountOut(a - 2, r, s)
    BY DEF QuoteHop
  <2>4. 1 + 1 = 2
    OBVIOUS
  <2> QED BY <2>2, <2>3, <2>4
<1>11. got[n] >= amountOut
  BY <1>4, <1>9
<1> QED BY <1>10, <1>11 DEF got, asked

-----------------------------------------------------------------------------
(* What is quoted settles. *)

(* A fair trade keeps the product of a pool that gifts lie in. *)
LEMMA FairKeeps ==
  ASSUME NEW a \in Nat, NEW o \in Nat, NEW r \in Nat, NEW s \in Nat, o <= s,
         NEW giftIn \in Nat, NEW giftOut \in Nat, Fair(a, o, r, s)
  PROVE  (((r + giftIn) + a) * FEE_BASE - (giftIn + a) * FEE)
           * (((s + giftOut) - o) * FEE_BASE - giftOut * FEE) >= (r * s) * FEE_BASE * FEE_BASE
<1> DEFINE net == FEE_BASE - FEE
           in == ((r + giftIn) + a) * FEE_BASE - (giftIn + a) * FEE
           out == ((s + giftOut) - o) * FEE_BASE - giftOut * FEE
           x == r * FEE_BASE + a * net
           left == s - o
           y == left * FEE_BASE
<1>1. net \in Nat /\ FEE_BASE \in Nat /\ FEE \in Nat /\ left \in Nat /\ FEE_BASE = FEE + net
  BY Fees
<1>2. in = x + giftIn * net /\ out = y + giftOut * net
  BY <1>1, Z3
<1>3. /\ x \in Nat /\ y \in Nat /\ giftIn * net \in Nat /\ giftOut * net \in Nat
      /\ a * net \in Nat /\ r * FEE_BASE \in Nat
  BY <1>1, Products
<1>4. in \in Nat /\ out \in Nat /\ x <= in /\ y <= out
  BY <1>2, <1>3
<1>5. x * y <= in * out
  <2> HIDE DEF x, y, in, out
  <2> QED BY <1>3, <1>4, ProductMono
<1>6. o * (r * FEE_BASE) <= (a * net) * left
  BY DEF Fair
<1>7. s = left + o
  BY <1>1
<1> PICK m \in Nat, k \in Nat : m = a * net /\ k = r * FEE_BASE
  BY <1>3
<1>8. x * y = FEE_BASE * (k * left + m * left)
  BY <1>1, Z3
<1>9. (r * s) * FEE_BASE * FEE_BASE = FEE_BASE * (k * left + o * k)
  BY <1>1, <1>7, Z3
<1>10. o * k <= m * left
  BY <1>6
<1> HIDE DEF x, y, in, out, left
<1>11. k * left \in Nat /\ m * left \in Nat /\ o * k \in Nat
  BY <1>1, Products
<1>12. FEE_BASE * (k * left + o * k) <= FEE_BASE * (k * left + m * left)
  BY <1>1, <1>10, <1>11, Products
<1>13. x * y \in Nat /\ in * out \in Nat
  BY <1>3, <1>4, Products
<1>14. FEE_BASE * (k * left + o * k) \in Nat
  BY <1>1, <1>11, Products
<1> QED BY <1>5, <1>8, <1>9, <1>12, <1>13, <1>14 DEF in, out

(* ... and passes the check of the pair it is made in, either way round. *)
LEMMA FairSettles ==
  ASSUME NEW p \in Pairs, NEW tIn \in p, NEW tOut \in p, tIn # tOut, NEW q, GoodPool(q),
         NEW a \in Nat, NEW o \in Nat, a > 0, o > 0, ReserveOf(q, p, tIn) > 0,
         Fair(a, o, ReserveOf(q, p, tIn), ReserveOf(q, p, tOut)),
         BalanceOf(q, p, tIn) + a <= MaxReserve, BalanceOf(q, p, tOut) <= MaxReserve + o
  PROVE  LET w == Given(q, p, tIn, a)
             out0 == OutOf0(p, tOut, o)
             out1 == OutOf1(p, tOut, o)
         IN  Payable(w, out0, out1) /\ Settles(Paid(w, out0, out1), out0, out1)
<1> PICK x, y : Sides(p, x, y)
  BY PairSides
<1>1. /\ q.balance0 \in Nat /\ q.balance1 \in Nat /\ q.reserve0 \in Nat /\ q.reserve1 \in Nat
      /\ q.reserve0 <= q.balance0 /\ q.reserve1 <= q.balance1 /\ MaxReserve \in Nat
  BY PairMathAssumption DEF GoodPool, PoolShape
<1>2. CASE tIn = x /\ tOut = y
  <2>1. /\ ReserveOf(q, p, tIn) = q.reserve0 /\ ReserveOf(q, p, tOut) = q.reserve1
        /\ BalanceOf(q, p, tIn) = q.balance0 /\ BalanceOf(q, p, tOut) = q.balance1
    BY <1>2, SideRecords
  <2>2. OutOf0(p, tOut, o) = 0 /\ OutOf1(p, tOut, o) = o
    BY <1>2 DEF OutOf0, OutOf1, Sides
  <2> PICK r \in Nat, s \in Nat, giftIn \in Nat, giftOut \in Nat :
        /\ r = q.reserve0 /\ s = q.reserve1
        /\ giftIn = q.balance0 - q.reserve0 /\ giftOut = q.balance1 - q.reserve1
    BY <1>1
  <2>3. Fair(a, o, r, s) /\ r > 0 /\ o < s /\ o <= s
    <3>1. Fair(a, o, r, s) /\ r > 0
      BY <2>1
    <3> QED BY <3>1, FairLeaves
  <2>4. (((r + giftIn) + a) * FEE_BASE - (giftIn + a) * FEE)
           * (((s + giftOut) - o) * FEE_BASE - giftOut * FEE) >= (r * s) * FEE_BASE * FEE_BASE
    BY <2>3, FairKeeps
  <2> PICK w : w = WithBalances(q, (r + giftIn) + a, s + giftOut)
    OBVIOUS
  <2>5. Given(q, p, tIn, a) = w
    BY <1>1, <1>2 DEF Given, Sides
  <2>6. Payable(w, 0, o)
    BY <2>3 DEF Payable, WithBalances
  <2> PICK z : z = Paid(w, 0, o)
    OBVIOUS
  <2>7. /\ z.balance0 = (r + giftIn) + a /\ z.balance1 = (s + giftOut) - o
        /\ z.reserve0 = r /\ z.reserve1 = s
    BY DEF Paid, WithBalances
  <2>8. /\ AmountPaidIn(z.balance0, z.reserve0 - 0) = giftIn + a
        /\ AmountPaidIn(z.balance1, z.reserve1 - o) = giftOut
    BY <2>3, <2>7 DEF AmountPaidIn
  <2>9. Fits(z.balance0, z.balance1)
    BY <1>1, <2>1, <2>7 DEF Fits
  <2>10. Product(z) = r * s
    BY <2>7 DEF Product
  <2>11. Settles(z, 0, o)
    BY <2>4, <2>7, <2>8, <2>9, <2>10 DEF Settles
  <2> QED BY <2>2, <2>5, <2>6, <2>11
<1>3. CASE tIn = y /\ tOut = x
  <2>1. /\ ReserveOf(q, p, tIn) = q.reserve1 /\ ReserveOf(q, p, tOut) = q.reserve0
        /\ BalanceOf(q, p, tIn) = q.balance1 /\ BalanceOf(q, p, tOut) = q.balance0
    BY <1>3, SideRecords
  <2>2. OutOf0(p, tOut, o) = o /\ OutOf1(p, tOut, o) = 0
    BY <1>3 DEF OutOf0, OutOf1, Sides
  <2> PICK r \in Nat, s \in Nat, giftIn \in Nat, giftOut \in Nat :
        /\ r = q.reserve1 /\ s = q.reserve0
        /\ giftIn = q.balance1 - q.reserve1 /\ giftOut = q.balance0 - q.reserve0
    BY <1>1
  <2>3. Fair(a, o, r, s) /\ r > 0 /\ o < s /\ o <= s
    <3>1. Fair(a, o, r, s) /\ r > 0
      BY <2>1
    <3> QED BY <3>1, FairLeaves
  <2>4. (((r + giftIn) + a) * FEE_BASE - (giftIn + a) * FEE)
           * (((s + giftOut) - o) * FEE_BASE - giftOut * FEE) >= (r * s) * FEE_BASE * FEE_BASE
    BY <2>3, FairKeeps
  <2> PICK w : w = WithBalances(q, s + giftOut, (r + giftIn) + a)
    OBVIOUS
  <2>5. Given(q, p, tIn, a) = w
    BY <1>1, <1>3 DEF Given, Sides
  <2>6. Payable(w, o, 0)
    BY <2>3 DEF Payable, WithBalances
  <2> PICK z : z = Paid(w, o, 0)
    OBVIOUS
  <2>7. /\ z.balance1 = (r + giftIn) + a /\ z.balance0 = (s + giftOut) - o
        /\ z.reserve1 = r /\ z.reserve0 = s
    BY DEF Paid, WithBalances
  <2>8. /\ AmountPaidIn(z.balance1, z.reserve1 - 0) = giftIn + a
        /\ AmountPaidIn(z.balance0, z.reserve0 - o) = giftOut
    BY <2>3, <2>7 DEF AmountPaidIn
  <2>9. Fits(z.balance0, z.balance1)
    BY <1>1, <2>1, <2>7 DEF Fits
  <2>10. Product(z) = r * s
    BY <2>7, Products DEF Product
  <2>11. (z.balance0 * FEE_BASE - giftOut * FEE) * (z.balance1 * FEE_BASE - (giftIn + a) * FEE)
            >= (r * s) * FEE_BASE * FEE_BASE
    <3>1. FEE_BASE \in Int /\ FEE \in Int
      BY Fees
    <3> PICK m \in Int, k \in Int :
          /\ m = ((r + giftIn) + a) * FEE_BASE - (giftIn + a) * FEE
          /\ k = ((s + giftOut) - o) * FEE_BASE - giftOut * FEE
      BY <3>1
    <3>2. m * k = k * m
      BY Products
    <3> QED BY <2>4, <2>7, <3>2
  <2>12. Settles(z, o, 0)
    BY <2>7, <2>8, <2>9, <2>10, <2>11 DEF Settles
  <2> QED BY <2>2, <2>5, <2>6, <2>12
<1> QED BY <1>2, <1>3 DEF Sides

(* What a hop trades is fair at the reserves before the call. *)
FairHop(path, amounts, i) ==
  LET p == HopPair(path, i)
      r == ReserveOf(pools[p], p, path[i])
      s == ReserveOf(pools[p], p, path[i + 1])
  IN  r > 0 /\ Fair(amounts[i], amounts[i + 1], r, s)

(* The pool that waits for hop k when m hops are done. *)
Waiting(path, amounts, m, k) ==
  LET p == HopPair(path, k)
  IN  IF k = m + 1 THEN Given(pools[p], p, path[k], amounts[k]) ELSE pools[p]

IsReady(run, path, amounts, m) ==
  /\ run.ok /\ AllGood(run.pools)
  /\ \A k \in Hops(path) : k > m =>
       run.pools[HopPair(path, k)] = Waiting(path, amounts, m, k)

LEMMA ReadySent ==
  ASSUME AllGood(pools), NEW path, IsPath(path), Simple(path),
         NEW amounts \in [1..Len(path) -> Nat]
  PROVE  IsReady(Sent(path, amounts), path, amounts, 0)
<1> DEFINE p == HopPair(path, 1)
           qs == GivenTo(pools, p, path[1], amounts[1])
<1>1. 1 \in Hops(path) /\ amounts[1] \in Nat /\ \A k \in Hops(path) : k \in Nat
  BY DEF Hops, IsPath
<1>2. p \in Pairs /\ path[1] \in p /\ \A k \in Hops(path) : HopPair(path, k) \in Pairs
  BY <1>1, HopTokens
<1>3. Sent(path, amounts).ok /\ Sent(path, amounts).pools = qs
  BY DEF Sent, GivenTo
<1>4. \A k \in Hops(path) : k # 1 => HopPair(path, k) # p
  BY <1>1 DEF Simple
<1> HIDE DEF p
<1>5. qs[p] = Given(pools[p], p, path[1], amounts[1]) /\ \A o \in Pairs : o # p => qs[o] = pools[o]
  BY <1>2 DEF AllGood, Pools, GivenTo
<1>6. AllGood(qs)
  BY <1>1, <1>2, GivenPools
<1> HIDE DEF qs
<1>7. ASSUME NEW k \in Hops(path), k > 0
      PROVE qs[HopPair(path, k)] = Waiting(path, amounts, 0, k)
  <2>1. CASE k = 1
    BY <1>5, <2>1 DEF Waiting, p
  <2>2. CASE k # 1
    BY <1>1, <1>2, <1>4, <1>5, <2>2 DEF Waiting
  <2> QED BY <2>1, <2>2
<1> QED BY <1>3, <1>6, <1>7 DEF IsReady

LEMMA ReadyHop ==
  ASSUME AllGood(pools), NEW path, IsPath(path), Simple(path),
         NEW amounts \in [1..Len(path) -> Nat], Quoted(amounts), Recordable(path, amounts),
         NEW i \in Hops(path), FairHop(path, amounts, i),
         NEW run, IsReady(run, path, amounts, i - 1)
  PROVE  IsReady(Hop(run, path, amounts, i), path, amounts, i)
<1> DEFINE n == Len(path)
           ps == run.pools
           p == HopPair(path, i)
           next == HopPair(path, i + 1)
           t == path[i + 1]
           out == amounts[i + 1]
           w == Given(pools[p], p, path[i], amounts[i])
           out0 == OutOf0(p, t, out)
           out1 == OutOf1(p, t, out)
           paid == [ps EXCEPT ![p] = Paid(@, out0, out1)]
           passed == IF i + 1 = n THEN paid
                     ELSE [paid EXCEPT ![next] = Given(@, next, t, out)]
           qs == [passed EXCEPT ![p] = Synced(@)]
<1>1. /\ i \in Nat /\ n \in Nat /\ i >= 1 /\ i + 1 <= n
      /\ (i + 1 # n => i + 1 \in Hops(path))
      /\ \A k \in Hops(path) : k \in Nat /\ k < n
  BY DEF Hops, IsPath
<1>2. /\ p \in Pairs /\ path[i] \in p /\ t \in p /\ path[i] # t
      /\ \A k \in Hops(path) : HopPair(path, k) \in Pairs
  BY HopTokens
<1>3. \A k, j \in Hops(path) : k # j => HopPair(path, k) # HopPair(path, j)
  BY DEF Simple
<1>4. /\ i + 1 # n => next # p
      /\ \A k \in Hops(path) : k # i => HopPair(path, k) # p
      /\ \A k \in Hops(path) : i + 1 # n /\ k # i + 1 => HopPair(path, k) # next
  BY <1>1, <1>3
<1>5. amounts[i] \in Nat /\ amounts[i] > 0 /\ out \in Nat /\ out > 0
  <2>1. i \in 1..n /\ i + 1 \in 1..n
    BY <1>1
  <2>2. DOMAIN amounts = 1..n
    OBVIOUS
  <2> QED BY <2>1, <2>2 DEF Quoted
<1>6. /\ run.ok /\ AllGood(ps) /\ ps \in Pools
      /\ ps[p] = w
      /\ \A k \in Hops(path) : k > i => ps[HopPair(path, k)] = pools[HopPair(path, k)]
  <2>1. (i - 1) + 1 = i /\ i > i - 1 /\ \A k \in Hops(path) : k > i => k > i - 1 /\ k # (i - 1) + 1
    BY <1>1
  <2>2. ps[p] = Waiting(path, amounts, i - 1, i)
    BY <2>1 DEF IsReady
  <2>3. Waiting(path, amounts, i - 1, i) = w
    BY <2>1 DEF Waiting
  <2>4. ASSUME NEW k \in Hops(path), k > i PROVE ps[HopPair(path, k)] = pools[HopPair(path, k)]
    <3>1. ps[HopPair(path, k)] = Waiting(path, amounts, i - 1, k)
      BY <2>1, <2>4 DEF IsReady
    <3>2. Waiting(path, amounts, i - 1, k) = pools[HopPair(path, k)]
      BY <2>1, <2>4 DEF Waiting
    <3> QED BY <3>1, <3>2
  <2> QED BY <2>2, <2>3, <2>4 DEF IsReady, AllGood
<1>7. Payable(w, out0, out1) /\ Settles(Paid(w, out0, out1), out0, out1)
  <2>1. /\ ReserveOf(pools[p], p, path[i]) > 0
        /\ Fair(amounts[i], out, ReserveOf(pools[p], p, path[i]), ReserveOf(pools[p], p, t))
    BY DEF FairHop
  <2>2. /\ BalanceOf(pools[p], p, path[i]) + amounts[i] <= MaxReserve
        /\ BalanceOf(pools[p], p, t) <= MaxReserve + out
    BY DEF Recordable
  <2>3. GoodPool(pools[p])
    BY <1>2 DEF AllGood
  <2> HIDE DEF p, t, out
  <2> QED BY <1>2, <1>5, <2>1, <2>2, <2>3, FairSettles
<1>8. /\ paid[p] = Paid(w, out0, out1)
      /\ \A o \in Pairs : o # p => paid[o] = ps[o]
      /\ DOMAIN paid = Pairs
  <2> HIDE DEF out0, out1, w, ps
  <2> QED BY <1>2, <1>6 DEF Pools
<1>9. Hop(run, path, amounts, i).ok /\ Hop(run, path, amounts, i).pools = qs
  <2>1. passed[p] = Paid(w, out0, out1)
    <3>1. CASE i + 1 = n
      BY <1>8, <3>1
    <3>2. CASE i + 1 # n
      <4> HIDE DEF paid, out0, out1, w, next, p
      <4> QED BY <1>2, <1>4, <1>8, <3>2
    <3> QED BY <3>1, <3>2
  <2>2. run.ok /\ Payable(ps[p], out0, out1) /\ Settles(passed[p], out0, out1)
    BY <1>6, <1>7, <2>1
  <2> QED BY <2>2 DEF Hop, OutOf0, OutOf1
<1>10. AllGood(Hop(run, path, amounts, i).pools)
  BY <1>6, <1>9, HopKeeps
<1> HIDE DEF paid
<1>11. \A k \in Hops(path) : k # i => qs[HopPair(path, k)] = passed[HopPair(path, k)]
  <2>1. DOMAIN passed = Pairs
    BY <1>8
  <2> HIDE DEF passed
  <2> QED BY <1>2, <1>4, <2>1
<1>12. ASSUME NEW k \in Hops(path), k > i
       PROVE qs[HopPair(path, k)] = Waiting(path, amounts, i, k)
  <2>1. i + 1 # n /\ k # i
    BY <1>1, <1>12
  <2>2. passed = [paid EXCEPT ![next] = Given(@, next, t, out)] /\ next \in Pairs
    BY <1>1, <1>2, <2>1
  <2>3. paid[HopPair(path, k)] = pools[HopPair(path, k)]
    BY <1>2, <1>4, <1>6, <1>8, <1>12, <2>1
  <2>4. CASE k = i + 1
    <3>1. passed[next] = Given(paid[next], next, t, out)
      <4> HIDE DEF passed, next, t, out
      <4> QED BY <1>8, <2>2
    <3>2. paid[next] = pools[next]
      BY <2>3, <2>4
    <3>3. Waiting(path, amounts, i, k) = Given(pools[next], next, t, out)
      BY <2>4 DEF Waiting
    <3>4. qs[next] = passed[next]
      BY <1>11, <2>1, <2>4
    <3> HIDE DEF qs, passed
    <3> QED BY <2>4, <3>1, <3>2, <3>3, <3>4
  <2>5. CASE k # i + 1
    <3>1. HopPair(path, k) # next /\ HopPair(path, k) \in Pairs
      BY <1>2, <1>4, <2>1, <2>5
    <3>2. passed[HopPair(path, k)] = paid[HopPair(path, k)]
      <4> HIDE DEF passed, next, t, out
      <4> QED BY <1>8, <2>2, <3>1
    <3>3. Waiting(path, amounts, i, k) = pools[HopPair(path, k)]
      BY <2>5 DEF Waiting
    <3>4. qs[HopPair(path, k)] = passed[HopPair(path, k)]
      BY <1>11, <2>1
    <3> HIDE DEF qs, passed
    <3> QED BY <2>3, <3>2, <3>3, <3>4
  <2> QED BY <2>4, <2>5
<1> QED BY <1>9, <1>10, <1>12 DEF IsReady

LEMMA FairPathSettles ==
  ASSUME AllGood(pools), NEW path, IsPath(path), Simple(path),
         NEW amounts \in [1..Len(path) -> Nat], Quoted(amounts), Recordable(path, amounts),
         \A i \in Hops(path) : FairHop(path, amounts, i)
  PROVE  Swapped(path, amounts).ok
<1> DEFINE n == Len(path)
<1>1. n \in Nat /\ n >= 2
  BY DEF IsPath
<1>2. PICK run : /\ run[0] = Sent(path, amounts)
                 /\ \A i \in Hops(path) : run[i] = Hop(run[i - 1], path, amounts, i)
                 /\ Swapped(path, amounts) = run[n - 1]
  BY SwappedRun
<1> DEFINE Good == {m \in Nat : m < n => IsReady(run[m], path, amounts, m)}
<1>3. 0 \in Good
  BY <1>2, ReadySent
<1>4. ASSUME NEW m \in Nat, m \in Good PROVE m + 1 \in Good
  <2> SUFFICES ASSUME m + 1 < n PROVE IsReady(run[m + 1], path, amounts, m + 1)
    OBVIOUS
  <2> PICK i \in Hops(path) : i = m + 1
    BY <1>1 DEF Hops
  <2>1. i - 1 = m /\ m < n
    BY <1>1
  <2>2. IsReady(run[i - 1], path, amounts, i - 1)
    BY <1>4, <2>1
  <2>3. IsReady(Hop(run[i - 1], path, amounts, i), path, amounts, i)
    <3> HIDE DEF Good
    <3> QED BY <2>2, ReadyHop
  <2>4. run[i] = Hop(run[i - 1], path, amounts, i)
    BY <1>2
  <2> QED BY <2>3, <2>4
<1> HIDE DEF Good
<1>5. Nat \subseteq Good
  BY <1>3, <1>4, NatSteps
<1>6. n - 1 \in Good /\ n - 1 < n
  BY <1>1, <1>5
<1> QED BY <1>2, <1>6 DEF Good, IsReady

LEMMA ExactInFair ==
  ASSUME AllGood(pools), NEW path, IsPath(path), NEW amountIn \in Nat,
         Quoted(AmountsOut(amountIn, path)), NEW i \in Hops(path)
  PROVE  FairHop(path, AmountsOut(amountIn, path), i)
<1> DEFINE f == AmountsOut(amountIn, path)
           p == HopPair(path, i)
<1>1. i \in 1..Len(path) /\ i + 1 \in 1..Len(path)
  BY DEF Hops, IsPath
<1>2. f \in [1..Len(path) -> Nat]
  BY OutsType
<1>3. \A j \in 1..Len(path) : f[j] \in Nat /\ f[j] > 0
  <2>1. DOMAIN f = 1..Len(path) /\ Quoted(f)
    BY <1>2
  <2> HIDE DEF f
  <2> QED BY <1>2, <2>1 DEF Quoted
<1>4. f[i + 1] = QuoteHop(f[i], path, i)
  BY AmountsOutAre
<1> HIDE DEF f
<1> PICK a \in Nat, o \in Nat, r \in Nat, s \in Nat :
      /\ a = f[i] /\ o = f[i + 1]
      /\ r = ReserveOf(pools[p], p, path[i]) /\ s = ReserveOf(pools[p], p, path[i + 1])
  BY <1>1, <1>3, HopReserves
<1>5. o = AmountOut(a, r, s) /\ a > 0 /\ o > 0
  BY <1>1, <1>3, <1>4 DEF QuoteHop
<1>6. r > 0 /\ s > 0
  BY <1>5 DEF AmountOut
<1>7. Fair(a, o, r, s)
  BY <1>5, <1>6, FairOut
<1> QED BY <1>6, <1>7 DEF FairHop, f

LEMMA ExactOutFair ==
  ASSUME AllGood(pools), NEW path, IsPath(path), NEW amountOut \in Nat,
         Quoted(AmountsIn(amountOut, path)), NEW i \in Hops(path)
  PROVE  FairHop(path, AmountsIn(amountOut, path), i)
<1> DEFINE f == AmountsIn(amountOut, path)
           p == HopPair(path, i)
<1>1. i \in 1..Len(path) /\ i + 1 \in 1..Len(path)
  BY DEF Hops, IsPath
<1>2. f \in [1..Len(path) -> Nat]
  BY InsType
<1>3. \A j \in 1..Len(path) : f[j] \in Nat /\ f[j] > 0
  <2>1. DOMAIN f = 1..Len(path) /\ Quoted(f)
    BY <1>2
  <2> HIDE DEF f
  <2> QED BY <1>2, <2>1 DEF Quoted
<1>4. f[i] = AskHop(f[i + 1], path, i)
  BY AmountsInAre
<1> HIDE DEF f
<1> PICK a \in Nat, o \in Nat, r \in Nat, s \in Nat :
      /\ a = f[i] /\ o = f[i + 1]
      /\ r = ReserveOf(pools[p], p, path[i]) /\ s = ReserveOf(pools[p], p, path[i + 1])
  BY <1>1, <1>3, HopReserves
<1>5. a = AmountIn(o, r, s) /\ a > 0
  BY <1>1, <1>3, <1>4 DEF AskHop
<1>6. r > 0 /\ Fair(a, o, r, s)
  BY <1>5, FairIn
<1> QED BY <1>6 DEF FairHop, f

(* For any tokens, pools, gifts and path: what getAmountsOut and           *)
(* getAmountsIn quote along a path that visits no pair twice, the pairs    *)
(* accept, and an exact-output price is enough and hardly more.            *)
THEOREM QuotesAlwaysHold == Spec => []QuotesHold
<1>1. IInv => QuotesHold
  <2> SUFFICES ASSUME IInv PROVE QuotesHold
    OBVIOUS
  <2>1. AllGood(pools)
    BY DEF IInv, PoolsSound
  <2>2. ASSUME NEW path \in Paths, Simple(path), NEW amountIn \in Payments,
               Quoted(AmountsOut(amountIn, path)), Recordable(path, AmountsOut(amountIn, path))
        PROVE  Swapped(path, AmountsOut(amountIn, path)).ok
    <3>1. IsPath(path) /\ amountIn \in Nat
      BY PathsArePaths, RouterAssumption
    <3> PICK f : f = AmountsOut(amountIn, path)
      OBVIOUS
    <3>2. f \in [1..Len(path) -> Nat]
      BY <2>1, <3>1, OutsType
    <3>3. \A i \in Hops(path) : FairHop(path, f, i)
      BY <2>1, <2>2, <3>1, ExactInFair
    <3>4. Quoted(f) /\ Recordable(path, f) /\ Simple(path)
      BY <2>2
    <3>5. Swapped(path, f).ok
      BY <2>1, <3>1, <3>2, <3>3, <3>4, FairPathSettles
    <3> QED BY <3>5
  <2>3. ASSUME NEW path \in Paths, Simple(path), NEW amountOut \in Purchases,
               Quoted(AmountsIn(amountOut, path)), Recordable(path, AmountsIn(amountOut, path))
        PROVE  Swapped(path, AmountsIn(amountOut, path)).ok
    <3>1. IsPath(path) /\ amountOut \in Nat
      BY PathsArePaths, RouterAssumption
    <3> PICK f : f = AmountsIn(amountOut, path)
      OBVIOUS
    <3>2. f \in [1..Len(path) -> Nat]
      BY <2>1, <3>1, InsType
    <3>3. \A i \in Hops(path) : FairHop(path, f, i)
      BY <2>1, <2>3, <3>1, ExactOutFair
    <3>4. Quoted(f) /\ Recordable(path, f) /\ Simple(path)
      BY <2>3
    <3>5. Swapped(path, f).ok
      BY <2>1, <3>1, <3>2, <3>3, <3>4, FairPathSettles
    <3> QED BY <3>5
  <2>4. QuotedPathsSettle
    BY <2>2, <2>3 DEF QuotedPathsSettle
  <2>5. ASSUME NEW path \in Paths, NEW amountOut \in Purchases,
               Quoted(AmountsIn(amountOut, path))
        PROVE  LET amounts == AmountsIn(amountOut, path)
               IN  /\ AmountsOut(amounts[1], path)[Len(path)] >= amountOut
                   /\ amounts[1] > 2 => QuoteHop(amounts[1] - 2, path, 1) < amounts[2]
    <3>1. IsPath(path) /\ amountOut \in Nat
      BY PathsArePaths, RouterAssumption
    <3> QED BY <2>1, <2>5, <3>1, PricesTight
  <2>6. PricesAreTight
    BY <2>5 DEF PricesAreTight
  <2> QED BY <2>4, <2>6 DEF QuotesHold
<1> QED BY <1>1, RouterInvariance, PTL

-----------------------------------------------------------------------------
(* A pair is traded only after it was made. *)

Traded(q) == q.reserve0 > 0 /\ q.reserve1 > 0

OnlyMadeTraded == \A p \in Pairs : Traded(pools[p]) => p \in created

(* A hop gives no pair a price that had none. *)
LEMMA HopOpens ==
  ASSUME NEW path, IsPath(path), NEW amounts \in [1..Len(path) -> Nat],
         NEW i \in Hops(path), NEW run, AllGood(run.pools),
         Hop(run, path, amounts, i).ok, NEW o \in Pairs,
         Traded(Hop(run, path, amounts, i).pools[o])
  PROVE  Traded(run.pools[o])
<1> DEFINE ps   == run.pools
           p    == HopPair(path, i)
           next == HopPair(path, i + 1)
           t1   == path[i + 1]
           out  == amounts[i + 1]
           out0 == OutOf0(p, t1, out)
           out1 == OutOf1(p, t1, out)
           paid == [ps EXCEPT ![p] = Paid(@, out0, out1)]
           passed == IF i + 1 = Len(path) THEN paid
                     ELSE [paid EXCEPT ![next] = Given(@, next, t1, out)]
           qs   == [passed EXCEPT ![p] = Synced(@)]
<1>1. Payable(ps[p], out0, out1) /\ Hop(run, path, amounts, i).pools = qs
  BY DEF Hop, OutOf0, OutOf1
<1>2. p \in Pairs /\ t1 \in p /\ out \in Nat
  <2>1. p \in Pairs /\ t1 \in p
    BY HopTokens
  <2>2. out \in Nat
    BY DEF Hops, IsPath
  <2> QED BY <2>1, <2>2
<1>3. ps \in Pools /\ \A x \in Pairs : GoodPool(ps[x])
  BY DEF AllGood
<1>4. CASE o = p
  <2> HIDE DEF ps, p, t1, out
  <2>1. out0 \in Nat /\ out1 \in Nat
    BY <1>1, <1>2, <1>3, PaidPool
  <2>2. ps[p] \in PoolShape
    BY <1>2, <1>3 DEF Pools
  <2> QED BY <1>1, <1>4, <2>1, <2>2 DEF Payable, Traded, PoolShape, ps
<1>5. CASE o # p
  <2> HIDE DEF ps, p, next, t1, out, out0, out1
  <2>1. paid[o] = ps[o] /\ DOMAIN paid = Pairs
    BY <1>3, <1>5 DEF Pools
  <2>2. DOMAIN passed = Pairs
    BY <2>1
  <2>3. qs[o] = passed[o]
    BY <1>5, <2>2
  <2>4. passed[o] = ps[o] \/ passed[o] = Given(ps[o], next, t1, out)
    BY <2>1
  <2>5. passed[o].reserve0 = ps[o].reserve0 /\ passed[o].reserve1 = ps[o].reserve1
    BY <2>4 DEF Given, WithBalances
  <2> QED BY <1>1, <2>3, <2>5 DEF Traded, ps
<1> QED BY <1>4, <1>5

LEMMA SwapOpens ==
  ASSUME AllGood(pools), NEW path, IsPath(path), NEW amounts \in [1..Len(path) -> Nat],
         Swapped(path, amounts).ok, NEW o \in Pairs, Traded(Swapped(path, amounts).pools[o])
  PROVE  Traded(pools[o])
<1> DEFINE n == Len(path)
<1>1. n \in Nat /\ n >= 2
  BY DEF IsPath
<1>2. PICK run : /\ run[0] = Sent(path, amounts)
                 /\ \A i \in Hops(path) : run[i] = Hop(run[i - 1], path, amounts, i)
                 /\ Swapped(path, amounts) = run[n - 1]
  BY SwappedRun
<1> DEFINE Fine(m) == AllGood(run[m].pools) /\ (Traded(run[m].pools[o]) => Traded(pools[o]))
           Good == {m \in Nat : m < n /\ run[m].ok => Fine(m)}
<1>3. 0 \in Good
  <2> DEFINE p == HopPair(path, 1)
             qs == GivenTo(pools, p, path[1], amounts[1])
  <2>1. p \in Pairs /\ path[1] \in p /\ amounts[1] \in Nat
    BY <1>1, HopTokens DEF Hops
  <2>2. run[0].pools = qs
    BY <1>2 DEF Sent, GivenTo
  <2> HIDE DEF p
  <2>3. AllGood(qs)
    BY <2>1, GivenPools
  <2>4. qs[o] = pools[o] \/ qs[o] = Given(pools[o], p, path[1], amounts[1])
    BY DEF AllGood, Pools, GivenTo
  <2>5. Traded(qs[o]) => Traded(pools[o])
    BY <2>4 DEF Traded, Given, WithBalances
  <2> HIDE DEF qs
  <2> QED BY <2>2, <2>3, <2>5
<1>4. ASSUME NEW m \in Nat, m \in Good PROVE m + 1 \in Good
  <2> SUFFICES ASSUME m + 1 < n, run[m + 1].ok PROVE Fine(m + 1)
    OBVIOUS
  <2>1. m + 1 \in Hops(path) /\ (m + 1) - 1 = m
    BY <1>1 DEF Hops
  <2>2. run[m + 1] = Hop(run[m], path, amounts, m + 1)
    BY <1>2, <2>1
  <2>3. run[m].ok
    BY <2>2 DEF Hop
  <2>4. Fine(m)
    BY <1>1, <1>4, <2>3
  <2>5. AllGood(run[m].pools) /\ Hop(run[m], path, amounts, m + 1).ok
    BY <2>2, <2>4
  <2>6. AllGood(run[m + 1].pools)
    BY <2>1, <2>2, <2>5, HopKeeps
  <2>7. Traded(run[m + 1].pools[o]) => Traded(run[m].pools[o])
    BY <2>1, <2>2, <2>5, HopOpens
  <2> QED BY <2>4, <2>6, <2>7
<1> HIDE DEF Good, Fine
<1>5. n - 1 \in Nat /\ n - 1 \in Good
  BY <1>1, <1>3, <1>4, NatSteps
<1>6. Fine(n - 1)
  BY <1>1, <1>2, <1>5 DEF Good
<1> QED BY <1>2, <1>6 DEF Fine

LEMMA SwapAlongOpens ==
  ASSUME IInv, OnlyMadeTraded, NEW u, NEW to, NEW path, IsPath(path),
         NEW amounts \in [1..Len(path) -> Nat], SwapAlong(u, to, path, amounts)
  PROVE  OnlyMadeTraded'
<1>1. Swapped(path, amounts).ok /\ pools' = Swapped(path, amounts).pools /\ created' = created
  BY DEF SwapAlong
<1>2. AllGood(pools)
  BY DEF IInv, PoolsSound
<1>3. ASSUME NEW p \in Pairs, Traded(pools'[p]) PROVE p \in created
  <2>1. Traded(pools[p])
    BY <1>1, <1>2, <1>3, SwapOpens
  <2> QED BY <2>1 DEF OnlyMadeTraded
<1> QED BY <1>1, <1>3 DEF OnlyMadeTraded

(* Only a pair that is made changes, but in a swap. *)
LEMMA OneMadeChanges ==
  ASSUME OnlyMadeTraded, created \subseteq created', NEW p \in created',
         \A o \in Pairs : o # p => pools'[o] = pools[o]
  PROVE  OnlyMadeTraded'
BY DEF OnlyMadeTraded

LEMMA OnlyMadeStep ==
  ASSUME IInv, OnlyMadeTraded, [Next]_vars
  PROVE  OnlyMadeTraded'
<1> USE RouterAssumption
<1>1. CASE UNCHANGED <<created, pools>>
  BY <1>1 DEF OnlyMadeTraded
<1>2. CASE \E a, b \in Tokens : CreatePair(a, b)
  BY <1>2 DEF CreatePair, OnlyMadeTraded
<1>3. CASE \E u, to \in Users, a, b \in Tokens, desiredA, desiredB \in Deposits :
             AddLiquidity(u, to, a, b, desiredA, desiredB)
  <2> PICK u \in Users, to \in Users, a \in Tokens, b \in Tokens, desiredA \in Deposits,
           desiredB \in Deposits : AddLiquidity(u, to, a, b, desiredA, desiredB)
    BY <1>3
  <2>1. created' = created \cup {{a, b}} /\ \A o \in Pairs : o # {a, b} => pools'[o] = pools[o]
    BY DEF AddLiquidity, IInv, PoolsSound, AllGood, Pools
  <2> QED BY <2>1, OneMadeChanges
<1>4. CASE \E u, to \in Users, p \in Pairs, liquidity \in Removals :
             \/ RemoveLiquidity(u, to, p, liquidity)
             \/ RemoveLiquidityWithPermit(u, to, p, liquidity)
  <2> PICK u \in Users, to \in Users, p \in Pairs, liquidity \in Removals :
        \/ RemoveLiquidity(u, to, p, liquidity)
        \/ RemoveLiquidityWithPermit(u, to, p, liquidity)
    BY <1>4
  <2>1. PICK allowed, signature : RemoveShares(u, to, p, liquidity, allowed, signature)
    BY DEF RemoveLiquidity, RemoveLiquidityWithPermit
  <2>2. p \in created /\ created' = created /\ \A o \in Pairs : o # p => pools'[o] = pools[o]
    BY <2>1 DEF RemoveShares, IInv, PoolsSound, AllGood, Pools
  <2> QED BY <2>2, OneMadeChanges
<1>5. CASE \E u, to \in Users, path \in Paths, amountIn \in Payments :
             SwapExactTokensForTokens(u, to, path, amountIn)
  <2> PICK u \in Users, to \in Users, path \in Paths, amountIn \in Payments :
        SwapExactTokensForTokens(u, to, path, amountIn)
    BY <1>5
  <2>1. IsPath(path) /\ amountIn \in Nat /\ AllGood(pools)
    BY PathsArePaths DEF IInv, PoolsSound
  <2>2. AmountsOut(amountIn, path) \in [1..Len(path) -> Nat]
    BY <2>1, OutsType
  <2> QED BY <2>1, <2>2, SwapAlongOpens DEF SwapExactTokensForTokens
<1>6. CASE \E u, to \in Users, path \in Paths, amountOut \in Purchases :
             SwapTokensForExactTokens(u, to, path, amountOut)
  <2> PICK u \in Users, to \in Users, path \in Paths, amountOut \in Purchases :
        SwapTokensForExactTokens(u, to, path, amountOut)
    BY <1>6
  <2>1. IsPath(path) /\ amountOut \in Nat /\ AllGood(pools)
    BY PathsArePaths DEF IInv, PoolsSound
  <2>2. AmountsIn(amountOut, path) \in [1..Len(path) -> Nat]
    BY <2>1, InsType
  <2> QED BY <2>1, <2>2, SwapAlongOpens DEF SwapTokensForExactTokens
<1>7. CASE \/ \E u \in Users, p \in Pairs, value \in PermitValues :
                Approve(u, p, value) \/ SignPermit(u, p, value)
           \/ \E u \in Users, p \in Pairs : SubmitPermit(u, p)
           \/ \E u \in Users, p \in Pairs, amount \in Removals : GiveLp(u, p, amount)
           \/ \E to \in Treasuries \cup {NoOne} : SetFeeTo(to)
  <2>1. UNCHANGED <<created, pools>>
    BY <1>7 DEF Approve, SignPermit, SubmitPermit, GiveLp, SetFeeTo
  <2> QED BY <1>1, <2>1
<1>8. CASE \/ \E u \in Users, p \in Pairs, amount \in Gifts : \E t \in p : Give(u, p, t, amount)
           \/ \E p \in Pairs : SyncPair(p)
           \/ \E u \in Users, p \in Pairs : SkimPair(u, p)
  <2>1. \E p \in created : created' = created /\ \A o \in Pairs : o # p => pools'[o] = pools[o]
    BY <1>8 DEF Give, SyncPair, SkimPair, IInv, PoolsSound, AllGood, Pools
  <2> QED BY <2>1, OneMadeChanges
<1>9. CASE UNCHANGED vars
  BY <1>1, <1>9 DEF vars
<1> QED BY <1>2, <1>3, <1>4, <1>5, <1>6, <1>7, <1>8, <1>9 DEF Next

LEMMA OnlyMade == Spec => []OnlyMadeTraded
<1>1. Init => OnlyMadeTraded
  BY DEF Init, OnlyMadeTraded, Traded, EmptyPool
<1>2. IInv /\ OnlyMadeTraded /\ [Next]_vars => OnlyMadeTraded'
  BY OnlyMadeStep
<1> QED BY <1>1, <1>2, RouterInvariance, PTL DEF Spec

-----------------------------------------------------------------------------
(* The sheets' quotes. *)

(* For amounts and reserves a pool can have, the sheet computes what the   *)
(* router does.                                                            *)
LEMMA SheetOutIs ==
  ASSUME NEW a \in Nat, NEW r \in Nat, NEW s \in Nat
  PROVE  SheetAmountOut(a, r, s) = AmountOut(a, r, s)
<1>1. (a <= 0 <=> a = 0) /\ (r <= 0 <=> r = 0) /\ (s <= 0 <=> s = 0)
  OBVIOUS
<1> QED BY <1>1 DEF SheetAmountOut, AmountOut

LEMMA SheetInIs ==
  ASSUME NEW o \in Nat, NEW r \in Nat, NEW s \in Nat, o > 0, r > 0, o < s
  PROVE  SheetAmountIn(o, r, s) = AmountIn(o, r, s)
<1>1. /\ o # -1 /\ ~(o >= s) /\ ~(o <= 0) /\ ~(r <= 0) /\ ~(s <= 0)
      /\ ~(o = 0) /\ ~(r = 0) /\ ~(s <= o)
  OBVIOUS
<1> QED BY <1>1 DEF SheetAmountIn, AmountIn, TooMuch

(* It asks for something only where a pool can give what is asked. *)
LEMMA SheetInGives ==
  ASSUME NEW o \in Nat \cup {TooMuch}, NEW r \in Nat, NEW s \in Nat
  PROVE  /\ SheetAmountIn(o, r, s) \in Nat \cup {TooMuch}
         /\ SheetAmountIn(o, r, s) > 0 => o \in Nat /\ o > 0 /\ r > 0 /\ o < s
<1>1. o \in Int /\ (o = -1 \/ o \in Nat) /\ TooMuch = -1
  BY DEF TooMuch
<1>2. CASE o = TooMuch \/ (o >= s /\ r > 0 /\ s > 0)
  <2>1. SheetAmountIn(o, r, s) = TooMuch
    BY <1>2 DEF SheetAmountIn
  <2> QED BY <1>1, <2>1
<1>3. CASE ~(o = TooMuch \/ (o >= s /\ r > 0 /\ s > 0)) /\ (o <= 0 \/ r <= 0 \/ s <= 0)
  <2>1. SheetAmountIn(o, r, s) = 0
    BY <1>3 DEF SheetAmountIn
  <2> QED BY <2>1
<1>4. CASE ~(o = TooMuch \/ (o >= s /\ r > 0 /\ s > 0)) /\ ~(o <= 0 \/ r <= 0 \/ s <= 0)
  <2>1. o \in Nat /\ o > 0 /\ r > 0 /\ o < s
    BY <1>1, <1>4
  <2>2. SheetAmountIn(o, r, s) \in Nat
    BY <2>1, SheetInIs, AmountInType
  <2> QED BY <2>1, <2>2
<1> QED BY <1>2, <1>3, <1>4

LEMMA OneOrTwoHops ==
  ASSUME NEW n \in {2, 3}
  PROVE  1 \in 1..(n - 1) /\ 1 + 1 = 2 /\ (n = 3 => 2 \in 1..(n - 1) /\ 2 + 1 = 3)
<1>1. CASE n = 2
  BY <1>1
<1>2. CASE n = 3
  BY <1>2
<1> QED BY <1>1, <1>2

(* The paths a sheet tries. *)
IsCandidate(path) == IsPath(path) /\ Simple(path) /\ Len(path) \in {2, 3}

LEMMA CandidatesAre ==
  ASSUME NEW a \in Tokens, NEW b \in Tokens, a # b, NEW path \in CandidatePaths(a, b)
  PROVE  IsCandidate(path)
<1>1. CASE path = <<a, b>>
  <2>1. IsPath(path) /\ Len(path) = 2
    BY <1>1 DEF IsPath
  <2>2. Simple(path)
    BY <2>1 DEF Simple, Hops
  <2> QED BY <2>1, <2>2 DEF IsCandidate
<1>2. CASE USDC \notin {a, b} /\ path = <<a, USDC, b>>
  <2>0. USDC \in Tokens /\ USDC # a /\ USDC # b
    BY <1>2, QuotesAssumption
  <2>1. path \in Seq(Tokens) /\ Len(path) = 3 /\ path[1] = a /\ path[2] = USDC /\ path[3] = b
    BY <1>2, <2>0
  <2>2. IsPath(path) /\ Hops(path) = 1..2
    <3>1. \A i \in 1..(Len(path) - 1) : i = 1 \/ i = 2
      BY <2>1
    <3> QED BY <2>0, <2>1, <3>1 DEF IsPath, Hops
  <2>3. HopPair(path, 1) = {a, USDC} /\ HopPair(path, 2) = {USDC, b}
    BY <2>1 DEF HopPair
  <2>4. {a, USDC} # {USDC, b}
    BY <2>0
  <2>5. Simple(path)
    <3>1. \A i \in 1..2 : i = 1 \/ i = 2
      OBVIOUS
    <3> QED BY <2>2, <2>3, <2>4, <3>1 DEF Simple
  <2> QED BY <2>1, <2>2, <2>5 DEF IsCandidate
<1> QED BY <1>1, <1>2 DEF CandidatePaths

(* What the sheet reads of a hop's pair. *)
LEMMA HopReservesFor ==
  ASSUME AllGood(pools), NEW path, IsPath(path), NEW i \in Hops(path)
  PROVE  LET p == HopPair(path, i)
         IN  ReservesFor(p, path[i]) =
               <<ReserveOf(pools[p], p, path[i]), ReserveOf(pools[p], p, path[i + 1])>>
<1> DEFINE p == HopPair(path, i)
           t == path[i]
           s == path[i + 1]
<1>1. p \in Pairs /\ t \in p /\ s \in p /\ t # s
  BY HopTokens
<1>2. PICK a, b : Sides(p, a, b)
  BY <1>1, PairSides
<1> HIDE DEF p, t, s
<1>3. (t = a /\ s = b) \/ (t = b /\ s = a)
  BY <1>1, <1>2 DEF Sides
<1> QED BY <1>2, <1>3 DEF ReservesFor, ReserveOf, Sides, p, t, s

LEMMA SheetQuotes ==
  ASSUME AllGood(pools), NEW path, IsPath(path), NEW i \in Hops(path), NEW amount \in Nat
  PROVE  SheetQuoteHop(amount, path, i) = QuoteHop(amount, path, i)
<1> DEFINE p == HopPair(path, i)
<1> PICK r \in Nat, s \in Nat :
      r = ReserveOf(pools[p], p, path[i]) /\ s = ReserveOf(pools[p], p, path[i + 1])
  BY HopReserves
<1>1. SheetQuoteHop(amount, path, i) = SheetAmountOut(amount, r, s)
  BY HopReservesFor DEF SheetQuoteHop
<1>2. QuoteHop(amount, path, i) = AmountOut(amount, r, s)
  BY DEF QuoteHop
<1> QED BY <1>1, <1>2, SheetOutIs

LEMMA SheetAsks ==
  ASSUME AllGood(pools), NEW path, IsPath(path), NEW i \in Hops(path),
         NEW amount \in Nat \cup {TooMuch}
  PROVE  /\ SheetAskHop(amount, path, i) \in Nat \cup {TooMuch}
         /\ SheetAskHop(amount, path, i) > 0 =>
              amount \in Nat /\ amount > 0 /\ SheetAskHop(amount, path, i) = AskHop(amount, path, i)
         /\ amount \in Nat /\ AskHop(amount, path, i) > 0 =>
              amount > 0 /\ SheetAskHop(amount, path, i) = AskHop(amount, path, i)
<1> DEFINE p == HopPair(path, i)
<1> PICK r \in Nat, s \in Nat :
      r = ReserveOf(pools[p], p, path[i]) /\ s = ReserveOf(pools[p], p, path[i + 1])
  BY HopReserves
<1>1. SheetAskHop(amount, path, i) = SheetAmountIn(amount, r, s)
  BY HopReservesFor DEF SheetAskHop
<1>2. AskHop(amount, path, i) = AmountIn(amount, r, s)
  BY DEF AskHop
<1> HIDE DEF p
<1>3. SheetAmountIn(amount, r, s) > 0 =>
        amount \in Nat /\ amount > 0 /\ SheetAmountIn(amount, r, s) = AmountIn(amount, r, s)
  BY SheetInGives, SheetInIs
<1>4. amount \in Nat /\ AmountIn(amount, r, s) > 0 =>
        amount > 0 /\ SheetAmountIn(amount, r, s) = AmountIn(amount, r, s)
  BY FairIn, SheetInIs
<1>5. SheetAmountIn(amount, r, s) \in Nat \cup {TooMuch}
  BY SheetInGives
<1> QED BY <1>1, <1>2, <1>3, <1>4, <1>5

(* The sheet's amounts along a path. *)
LEMMA SheetOutsAre ==
  ASSUME NEW path, Len(path) \in {2, 3}, NEW amount
  PROVE  LET f == SheetOuts(amount, path)
         IN  /\ f[1] = amount
             /\ \A i \in Hops(path) : f[i + 1] = SheetQuoteHop(f[i], path, i)
<1> DEFINE n == Len(path)
           Is(f) == f = [i \in 1..n |-> IF i = 1 THEN amount ELSE SheetQuoteHop(f[i - 1], path, i - 1)]
           second == SheetQuoteHop(amount, path, 1)
           g == [i \in 1..n |-> IF i = 1 THEN amount ELSE IF i = 2 THEN second
                                ELSE SheetQuoteHop(second, path, 2)]
           out == CHOOSE f : Is(f)
<1>1. \A i \in 1..n : g[i] = IF i = 1 THEN amount ELSE SheetQuoteHop(g[i - 1], path, i - 1)
  <2> TAKE i \in 1..n
  <2>1. g[1] = amount /\ g[2] = second
    OBVIOUS
  <2>2. CASE i = 1
    BY <2>1, <2>2
  <2>3. CASE i = 2
    <3>1. i - 1 = 1 /\ i # 1 /\ g[i] = second
      BY <2>3
    <3> HIDE DEF g
    <3> QED BY <2>1, <3>1
  <2>4. CASE i = 3
    <3>1. i - 1 = 2 /\ i # 1 /\ g[i] = SheetQuoteHop(second, path, 2)
      BY <2>4
    <3> HIDE DEF g, second
    <3> QED BY <2>1, <3>1
  <2>5. i = 1 \/ i = 2 \/ i = 3
    <3>1. n = 2 \/ n = 3
      OBVIOUS
    <3>2. i \in 1..n
      OBVIOUS
    <3> HIDE DEF n
    <3>3. CASE n = 2
      BY ONLY <3>2, <3>3
    <3>4. CASE n = 3
      BY ONLY <3>2, <3>4
    <3> QED BY ONLY <3>1, <3>3, <3>4
  <2> QED BY ONLY <2>2, <2>3, <2>4, <2>5
<1>2. g = [i \in 1..n |-> g[i]]
  OBVIOUS
<1> HIDE DEF g
<1>3. Is(g)
  BY <1>1, <1>2
<1>4. Is(out)
  <2>1. \E f : Is(f)
    BY <1>3
  <2> HIDE DEF Is
  <2> QED BY <2>1
<1>5. SheetOuts(amount, path) = out
  BY DEF SheetOuts
<1> HIDE DEF out
<1>6. out[1] = amount
  BY <1>4
<1>7. ASSUME NEW i \in Hops(path) PROVE out[i + 1] = SheetQuoteHop(out[i], path, i)
  <2>1. i + 1 \in 1..n /\ i + 1 # 1 /\ (i + 1) - 1 = i
    BY DEF Hops
  <2> QED BY <1>4, <2>1
<1> QED BY <1>5, <1>6, <1>7

LEMMA SheetInsAre ==
  ASSUME NEW path, Len(path) \in {2, 3}, NEW amount
  PROVE  LET f == SheetIns(amount, path)
         IN  /\ f[Len(path)] = amount
             /\ \A i \in Hops(path) : f[i] = SheetAskHop(f[i + 1], path, i)
<1> DEFINE n == Len(path)
           Is(f) == f = [i \in 1..n |-> IF i = n THEN amount ELSE SheetAskHop(f[i + 1], path, i)]
           second == SheetAskHop(amount, path, n - 1)
           g == [i \in 1..n |-> IF i = n THEN amount ELSE IF i = n - 1 THEN second
                                ELSE SheetAskHop(second, path, i)]
           in == CHOOSE f : Is(f)
<1>1. \A i \in 1..n : g[i] = IF i = n THEN amount ELSE SheetAskHop(g[i + 1], path, i)
  <2> TAKE i \in 1..n
  <2>1. g[n] = amount /\ g[n - 1] = second
    OBVIOUS
  <2>2. CASE i = n
    BY <2>1, <2>2
  <2>3. CASE i = n - 1
    <3>1. i + 1 = n /\ i # n /\ g[i] = second /\ n - 1 = i
      BY <2>3
    <3>2. second = SheetAskHop(amount, path, i)
      BY <3>1
    <3> HIDE DEF g, second
    <3> QED BY <2>1, <3>1, <3>2
  <2>4. CASE i = 1 /\ n = 3
    <3>1. i + 1 = n - 1 /\ i # n /\ g[i] = SheetAskHop(second, path, i)
      BY <2>4
    <3> HIDE DEF g, second
    <3> QED BY <2>1, <3>1
  <2>5. i = n \/ i = n - 1 \/ (i = 1 /\ n = 3)
    <3>1. n = 2 \/ n = 3
      OBVIOUS
    <3>2. i \in 1..n
      OBVIOUS
    <3> HIDE DEF n
    <3>3. CASE n = 2
      BY ONLY <3>2, <3>3
    <3>4. CASE n = 3
      BY ONLY <3>2, <3>4
    <3> QED BY ONLY <3>1, <3>3, <3>4
  <2> QED BY ONLY <2>2, <2>3, <2>4, <2>5
<1>2. g = [i \in 1..n |-> g[i]]
  OBVIOUS
<1> HIDE DEF g
<1>3. Is(g)
  BY <1>1, <1>2
<1>4. Is(in)
  <2>1. \E f : Is(f)
    BY <1>3
  <2> HIDE DEF Is
  <2> QED BY <2>1
<1>5. SheetIns(amount, path) = in
  BY DEF SheetIns
<1> HIDE DEF in
<1>6. in[n] = amount
  BY <1>4
<1>7. ASSUME NEW i \in Hops(path) PROVE in[i] = SheetAskHop(in[i + 1], path, i)
  <2>1. i \in 1..n /\ i # n
    BY DEF Hops
  <2> QED BY <1>4, <2>1
<1> QED BY <1>5, <1>6, <1>7

(* The sheet and the router agree along a path. *)
LEMMA SheetOutsAgree ==
  ASSUME AllGood(pools), NEW path, IsCandidate(path), NEW amount \in Nat
  PROVE  /\ SheetOuts(amount, path)[Len(path)] = AmountsOut(amount, path)[Len(path)]
         /\ AmountsOut(amount, path) \in [1..Len(path) -> Nat]
         /\ AmountsOut(amount, path)[1] = amount
         /\ \A i \in Hops(path) :
              AmountsOut(amount, path)[i + 1] = QuoteHop(AmountsOut(amount, path)[i], path, i)
<1> PICK f, g : f = SheetOuts(amount, path) /\ g = AmountsOut(amount, path)
  OBVIOUS
<1>1. IsPath(path) /\ Len(path) \in {2, 3} /\ Hops(path) = 1..(Len(path) - 1)
  BY DEF IsCandidate, Hops
<1>2. f[1] = amount /\ \A i \in Hops(path) : f[i + 1] = SheetQuoteHop(f[i], path, i)
  BY <1>1, SheetOutsAre
<1>3. g[1] = amount /\ \A i \in Hops(path) : g[i + 1] = QuoteHop(g[i], path, i)
  BY <1>1, AmountsOutAre
<1>4. g \in [1..Len(path) -> Nat]
  BY <1>1, OutsType
<1>5. ASSUME NEW i \in Hops(path), f[i] = g[i] PROVE f[i + 1] = g[i + 1]
  <2>1. g[i] \in Nat
    BY <1>1, <1>4
  <2> QED BY <1>1, <1>2, <1>3, <1>5, <2>1, SheetQuotes
<1>6. f[1] = g[1] /\ 1 \in Hops(path) /\ 1 + 1 = 2
  <2>1. 1 \in Hops(path) /\ 1 + 1 = 2
    BY <1>1, OneOrTwoHops
  <2> QED BY <1>2, <1>3, <2>1
<1>7. f[2] = g[2]
  BY <1>5, <1>6
<1>8. ASSUME Len(path) = 3 PROVE f[3] = g[3]
  <2>1. 2 \in Hops(path) /\ 2 + 1 = 3
    BY <1>1, <1>8
  <2> QED BY <1>5, <1>7, <2>1
<1> QED BY <1>1, <1>3, <1>4, <1>7, <1>8

LEMMA AllQuoted ==
  ASSUME NEW n \in {2, 3}, NEW f \in [1..n -> Nat]
  PROVE  Quoted(f) <=> f[1] > 0 /\ f[2] > 0 /\ (n = 3 => f[3] > 0)
<1>1. DOMAIN f = 1..n /\ \A i \in 1..n : i = 1 \/ i = 2 \/ (i = 3 /\ n = 3)
  OBVIOUS
<1>2. 1 \in 1..n /\ 2 \in 1..n /\ (n = 3 => 3 \in 1..n)
  OBVIOUS
<1> QED BY <1>1, <1>2 DEF Quoted

(* What is sold for something is quoted all along. *)
LEMMA SoldQuoted ==
  ASSUME AllGood(pools), NEW path, IsCandidate(path), NEW amount \in Nat,
         AmountsOut(amount, path)[Len(path)] > 0
  PROVE  Quoted(AmountsOut(amount, path))
<1> PICK f : f = AmountsOut(amount, path)
  OBVIOUS
<1>1. IsPath(path) /\ Len(path) \in {2, 3} /\ Hops(path) = 1..(Len(path) - 1)
  BY DEF IsCandidate, Hops
<1>2. /\ f \in [1..Len(path) -> Nat] /\ f[Len(path)] > 0
      /\ \A i \in Hops(path) : f[i + 1] = QuoteHop(f[i], path, i)
  BY SheetOutsAgree
<1>3. ASSUME NEW i \in Hops(path), f[i + 1] > 0 PROVE f[i] > 0
  <2>1. f[i] \in Nat
    BY <1>1, <1>2
  <2>2. f[i] # 0
    BY <1>2, <1>3 DEF QuoteHop, AmountOut
  <2> QED BY <2>1, <2>2
<1>4. 1 \in Hops(path) /\ 1 + 1 = 2 /\ (Len(path) = 3 => 2 \in Hops(path) /\ 2 + 1 = 3)
  BY <1>1, OneOrTwoHops
<1>5. f[2] > 0
  BY <1>1, <1>2, <1>3, <1>4
<1>6. f[1] > 0
  BY <1>3, <1>4, <1>5
<1>7. Len(path) = 3 => f[3] > 0
  BY <1>2
<1> QED BY <1>1, <1>2, <1>5, <1>6, <1>7, AllQuoted

LEMMA SheetInsAgree ==
  ASSUME AllGood(pools), NEW path, IsCandidate(path), NEW amount \in Nat
  PROVE  /\ SheetIns(amount, path)[1] \in Nat \cup {TooMuch}
         /\ \/ SheetIns(amount, path)[1] > 0
            \/ Quoted(AmountsIn(amount, path))
            => /\ SheetIns(amount, path)[1] = AmountsIn(amount, path)[1]
               /\ Quoted(AmountsIn(amount, path))
<1> PICK f, g : f = SheetIns(amount, path) /\ g = AmountsIn(amount, path)
  OBVIOUS
<1>1. IsPath(path) /\ Len(path) \in {2, 3} /\ Hops(path) = 1..(Len(path) - 1)
  BY DEF IsCandidate, Hops
<1>2. f[Len(path)] = amount /\ \A i \in Hops(path) : f[i] = SheetAskHop(f[i + 1], path, i)
  BY <1>1, SheetInsAre
<1>3. g[Len(path)] = amount /\ \A i \in Hops(path) : g[i] = AskHop(g[i + 1], path, i)
  BY <1>1, AmountsInAre
<1>4. g \in [1..Len(path) -> Nat]
  BY <1>1, InsType
<1>5. ASSUME NEW i \in Hops(path), f[i + 1] \in Nat \cup {TooMuch}
      PROVE  /\ f[i] \in Nat \cup {TooMuch}
             /\ f[i] > 0 => f[i + 1] \in Nat /\ f[i + 1] > 0 /\ f[i] = AskHop(f[i + 1], path, i)
             /\ f[i + 1] \in Nat /\ AskHop(f[i + 1], path, i) > 0 =>
                  f[i + 1] > 0 /\ f[i] = AskHop(f[i + 1], path, i)
  <2> PICK a \in Nat \cup {TooMuch} : a = f[i + 1]
    BY <1>5
  <2>1. f[i] = SheetAskHop(a, path, i)
    BY <1>2
  <2>2. /\ SheetAskHop(a, path, i) \in Nat \cup {TooMuch}
        /\ SheetAskHop(a, path, i) > 0 =>
             a \in Nat /\ a > 0 /\ SheetAskHop(a, path, i) = AskHop(a, path, i)
        /\ a \in Nat /\ AskHop(a, path, i) > 0 =>
             a > 0 /\ SheetAskHop(a, path, i) = AskHop(a, path, i)
    BY <1>1, SheetAsks
  <2> QED BY <2>1, <2>2
<1>6. /\ 1 \in Hops(path) /\ 1 + 1 = 2
      /\ (Len(path) = 3 => 2 \in Hops(path) /\ 2 + 1 = 3)
  <2>1. CASE Len(path) = 2
    BY ONLY <1>1, <2>1
  <2>2. CASE Len(path) = 3
    BY ONLY <1>1, <2>2
  <2> QED BY <1>1, <2>1, <2>2
<1>7. amount \in Nat \cup {TooMuch}
  OBVIOUS
<1>8. CASE Len(path) = 2
  <2>1. f[2] = amount /\ g[2] = amount /\ g[1] = AskHop(amount, path, 1) /\ g[1] \in Nat
    BY <1>2, <1>3, <1>4, <1>6, <1>8
  <2>2. /\ f[1] \in Nat \cup {TooMuch}
        /\ f[1] > 0 => amount > 0 /\ f[1] = g[1]
        /\ g[1] > 0 => amount > 0 /\ f[1] = g[1]
    BY <1>5, <1>6, <1>7, <2>1
  <2>3. Quoted(g) <=> g[1] > 0 /\ amount > 0
    BY <1>1, <1>4, <1>8, <2>1, AllQuoted
  <2> QED BY <2>2, <2>3
<1>9. CASE Len(path) = 3
  <2>1. /\ f[3] = amount /\ g[3] = amount /\ g[2] = AskHop(amount, path, 2)
        /\ g[1] = AskHop(g[2], path, 1) /\ g[2] \in Nat /\ g[1] \in Nat
    BY <1>2, <1>3, <1>4, <1>6, <1>9
  <2>2. /\ f[2] \in Nat \cup {TooMuch}
        /\ f[2] > 0 => amount > 0 /\ f[2] = g[2]
        /\ g[2] > 0 => amount > 0 /\ f[2] = g[2]
    BY <1>5, <1>6, <1>7, <1>9, <2>1
  <2>3. /\ f[1] \in Nat \cup {TooMuch}
        /\ f[1] > 0 => f[2] \in Nat /\ f[2] > 0 /\ f[1] = AskHop(f[2], path, 1)
        /\ f[2] \in Nat /\ AskHop(f[2], path, 1) > 0 => f[2] > 0 /\ f[1] = AskHop(f[2], path, 1)
    BY <1>5, <1>6, <2>2
  <2>4. Quoted(g) <=> g[1] > 0 /\ g[2] > 0 /\ amount > 0
    BY <1>1, <1>4, <1>9, <2>1, AllQuoted
  <2>5. f[1] > 0 => f[1] = g[1] /\ Quoted(g)
    BY <2>1, <2>2, <2>3, <2>4
  <2>6. Quoted(g) => f[1] = g[1]
    BY <2>1, <2>2, <2>3, <2>4
  <2> QED BY <2>3, <2>5, <2>6
<1> QED BY <1>1, <1>8, <1>9

-----------------------------------------------------------------------------
(* Routes. *)

(* A path whose every hop is a fair trade has its pairs. *)
LEMMA FairPriced ==
  ASSUME AllGood(pools), OnlyMadeTraded, NEW path, IsPath(path),
         NEW amounts \in [1..Len(path) -> Nat], Quoted(amounts),
         \A i \in Hops(path) : FairHop(path, amounts, i)
  PROVE  PairsForPath(path)
<1> SUFFICES ASSUME NEW i \in Hops(path)
             PROVE  LET p == HopPair(path, i)
                    IN  p \in created /\ pools[p].reserve0 # 0 /\ pools[p].reserve1 # 0
  BY DEF PairsForPath
<1> DEFINE p == HopPair(path, i)
           t == path[i]
           s == path[i + 1]
<1>1. p \in Pairs /\ t \in p /\ s \in p /\ t # s
  BY HopTokens
<1>2. i \in 1..Len(path) /\ i + 1 \in 1..Len(path)
  BY DEF Hops, IsPath
<1>3. DOMAIN amounts = 1..Len(path)
  OBVIOUS
<1>4. amounts[i] \in Nat /\ amounts[i + 1] \in Nat /\ amounts[i + 1] > 0
  BY <1>2, <1>3 DEF Quoted
<1> PICK rIn \in Nat, rOut \in Nat :
      rIn = ReserveOf(pools[p], p, t) /\ rOut = ReserveOf(pools[p], p, s)
  BY HopReserves
<1>5. rIn > 0 /\ Fair(amounts[i], amounts[i + 1], rIn, rOut)
  BY DEF FairHop
<1>6. rOut > 0
  <2>1. amounts[i + 1] < rOut
    BY <1>4, <1>5, FairLeaves
  <2> QED BY <1>4, <2>1
<1>7. PICK a, b : Sides(p, a, b)
  BY <1>1, PairSides
<1>8. pools[p].reserve0 > 0 /\ pools[p].reserve1 > 0
  <2> HIDE DEF p, t, s
  <2>1. (t = a /\ s = b) \/ (t = b /\ s = a)
    BY <1>1, <1>7 DEF Sides
  <2> QED BY <1>5, <1>6, <1>7, <2>1, SideRecords
<1>9. p \in created
  BY <1>1, <1>8 DEF OnlyMadeTraded, Traded
<1> QED BY <1>8, <1>9

(* What a route is. *)
LEMMA RoutesAre ==
  ASSUME AllGood(pools), NEW mode \in {"exactIn", "exactOut"}, NEW amount \in Nat,
         NEW a \in Tokens, NEW b \in Tokens, a # b, NEW route \in Routes(mode, amount, a, b)
  PROVE  /\ route.path \in CandidatePaths(a, b) /\ IsCandidate(route.path)
         /\ route = SheetAlong(mode, amount, route.path)
         /\ route.amountIn \in Nat /\ route.amountOut \in Nat
         /\ route.amountIn > 0 /\ route.amountOut > 0
<1>1. PICK path \in CandidatePaths(a, b) :
        route = SheetAlong(mode, amount, path) /\ route.amountIn > 0 /\ route.amountOut > 0
  BY DEF Routes
<1>2. IsCandidate(path)
  BY CandidatesAre
<1>3. route.path = path
  BY <1>1 DEF SheetAlong
<1>4. CASE mode = "exactIn"
  <2>1. route.amountIn = amount /\ route.amountOut = SheetOuts(amount, path)[Len(path)]
    BY <1>1, <1>4 DEF SheetAlong
  <2>2. SheetOuts(amount, path)[Len(path)] \in Nat
    BY <1>2, SheetOutsAgree DEF IsCandidate
  <2> QED BY <1>1, <1>2, <1>3, <2>1, <2>2
<1>5. CASE mode = "exactOut"
  <2>1. route.amountOut = amount /\ route.amountIn = SheetIns(amount, path)[1]
    BY <1>1, <1>5 DEF SheetAlong
  <2>2. SheetIns(amount, path)[1] \in Nat \cup {TooMuch} /\ ~(TooMuch > 0)
    BY <1>2, SheetInsAgree DEF TooMuch
  <2> QED BY <1>1, <1>2, <1>3, <2>1, <2>2
<1> QED BY <1>4, <1>5

(* Of the routes there are, one is at least as good as each. *)
Worth(mode, route) == IF mode = "exactIn" THEN route.amountOut ELSE 0 - route.amountIn

LEMMA BestIsThere ==
  ASSUME AllGood(pools), NEW mode \in {"exactIn", "exactOut"}, NEW amount \in Nat,
         NEW a \in Tokens, NEW b \in Tokens, a # b, NEW route \in Routes(mode, amount, a, b)
  PROVE  \E best \in BestRoutes(mode, amount, a, b) : Worth(mode, best) >= Worth(mode, route)
<1> DEFINE routes == Routes(mode, amount, a, b)
           D == SheetAlong(mode, amount, <<a, b>>)
           V == SheetAlong(mode, amount, <<a, USDC, b>>)
           W(x) == Worth(mode, x)
<1>1. routes \subseteq {D, V}
  BY DEF Routes, CandidatePaths
<1>2. Len(D.path) = 2 /\ Len(V.path) = 3
  BY DEF SheetAlong
<1>3. \A x \in routes : x.amountIn \in Nat /\ x.amountOut \in Nat
  BY RoutesAre
<1>4. \A x \in routes : W(x) \in Int
  BY <1>3 DEF Worth
<1>5. ASSUME NEW x \in routes, NEW y \in routes
      PROVE  Better(mode, x, y) <=>
               W(x) > W(y) \/ (W(x) = W(y) /\ Len(x.path) <= Len(y.path))
  <2>1. /\ x.amountIn \in Nat /\ x.amountOut \in Nat
        /\ y.amountIn \in Nat /\ y.amountOut \in Nat
    BY <1>3
  <2> QED BY <2>1 DEF Better, Worth
<1>6. BestRoutes(mode, amount, a, b) = {x \in routes : \A y \in routes : Better(mode, x, y)}
  BY DEF BestRoutes
<1>7. route \in routes
  OBVIOUS
<1> HIDE DEF routes, D, V, W
<1>8. \E best \in routes : \A y \in routes : Better(mode, best, y)
  <2>1. CASE D \in routes /\ (V \in routes => W(D) >= W(V))
    <3>1. ASSUME NEW y \in routes PROVE Better(mode, D, y)
      <4>1. CASE y = D
        BY <1>2, <1>4, <1>5, <2>1, <4>1
      <4>2. CASE y = V
        <5>1. W(D) \in Int /\ W(V) \in Int /\ W(D) >= W(V)
          BY <1>4, <2>1, <3>1, <4>2
        <5>2. W(D) > W(V) \/ (W(D) = W(V) /\ Len(D.path) <= Len(V.path))
          BY <1>2, <5>1
        <5> QED BY <1>5, <2>1, <3>1, <4>2, <5>2
      <4> QED BY <1>1, <3>1, <4>1, <4>2
    <3> QED BY <2>1, <3>1
  <2>2. CASE V \in routes /\ (D \in routes => W(V) > W(D))
    <3>1. ASSUME NEW y \in routes PROVE Better(mode, V, y)
      <4>1. CASE y = V
        BY <1>2, <1>4, <1>5, <2>2, <4>1
      <4>2. CASE y = D
        BY <1>5, <2>2, <3>1, <4>2
      <4> QED BY <1>1, <3>1, <4>1, <4>2
    <3> QED BY <2>2, <3>1
  <2>3. D \in routes /\ V \in routes => W(D) >= W(V) \/ W(V) > W(D)
    BY <1>4
  <2> QED BY <1>1, <1>7, <2>1, <2>2, <2>3
<1>9. PICK best \in routes : \A y \in routes : Better(mode, best, y)
  BY <1>8
<1>10. Better(mode, best, route)
  BY <1>7, <1>9
<1>11. W(best) >= W(route)
  BY <1>4, <1>5, <1>7, <1>10
<1> QED BY <1>6, <1>9, <1>11 DEF W

(* What a slippage leaves of an amount, and adds to one. *)
LEMMA SlippageBounds ==
  ASSUME NEW amount \in Nat, NEW slippage \in Slippages
  PROVE  MinReceived(amount, slippage) <= amount /\ amount <= MaxSent(amount, slippage)
<1>1. PICK B \in Nat : B = BPS_DENOMINATOR /\ B > 0 /\ slippage \in 0..B
  BY QuotesAssumption
<1>2. ASSUME NEW k \in Nat, k <= B PROVE (amount * k) \div B <= amount
  <2> DEFINE q == (amount * k) \div B
  <2>1. amount * k \in Nat /\ amount * B \in Nat /\ amount * k <= amount * B
    BY <1>2, Products
  <2>2. q \in Nat /\ q * B <= amount * k
    BY <1>1, <2>1, QuotientBack
  <2> HIDE DEF q
  <2>3. B * q <= B * amount
    BY <1>1, <2>1, <2>2, Products
  <2>4. q <= amount
    BY <1>1, <2>2, <2>3, Cancel
  <2> QED BY <2>4 DEF q
<1>3. MinReceived(amount, slippage) <= amount
  BY <1>1, <1>2 DEF MinReceived
<1>4. amount <= MaxSent(amount, slippage)
  <2> DEFINE k == B + slippage
  <2>1. k \in Nat /\ B <= k
    BY <1>1
  <2> HIDE DEF k
  <2>2. amount * B <= amount * k /\ amount * k \in Nat
    BY <1>1, <2>1, Products
  <2>3. amount <= (amount * k) \div B
    BY <1>1, <2>2, FitsInto
  <2> QED BY <1>1, <2>3 DEF MaxSent, k
<1> QED BY <1>3, <1>4

(* What the sheet says of a sale. *)
LEMMA SaleAsQuoted ==
  ASSUME AllGood(pools), OnlyMadeTraded, NEW a \in Tokens, NEW b \in Tokens, a # b,
         NEW amount \in Nat, NEW path, IsCandidate(path)
  PROVE  LET amounts == AmountsOut(amount, path)
             route == SheetAlong("exactIn", amount, path)
         IN  /\ amounts \in [1..Len(path) -> Nat]
             /\ route.amountIn = amount /\ route.amountOut = amounts[Len(path)]
             /\ Quoted(amounts) =>
                  /\ amount > 0 /\ amounts[Len(path)] > 0 /\ PairsForPath(path)
                  /\ Recordable(path, amounts) => Swapped(path, amounts).ok
             /\ route.amountOut > 0 => Quoted(amounts)
<1> PICK f : f = AmountsOut(amount, path)
  OBVIOUS
<1>1. IsPath(path) /\ Simple(path) /\ Len(path) \in {2, 3}
  BY DEF IsCandidate
<1>2. /\ f \in [1..Len(path) -> Nat] /\ f[1] = amount
      /\ SheetOuts(amount, path)[Len(path)] = f[Len(path)]
  BY SheetOutsAgree
<1>3. /\ SheetAlong("exactIn", amount, path).amountIn = amount
      /\ SheetAlong("exactIn", amount, path).amountOut = f[Len(path)]
  BY <1>2 DEF SheetAlong
<1>4. ASSUME Quoted(f)
      PROVE  /\ amount > 0 /\ f[Len(path)] > 0 /\ PairsForPath(path)
             /\ Recordable(path, f) => Swapped(path, f).ok
  <2>1. \A i \in Hops(path) : FairHop(path, f, i)
    BY <1>1, <1>4, ExactInFair
  <2>2. PairsForPath(path)
    BY <1>1, <1>2, <1>4, <2>1, FairPriced
  <2>3. Recordable(path, f) => Swapped(path, f).ok
    BY <1>1, <1>2, <1>4, <2>1, FairPathSettles
  <2>4. DOMAIN f = 1..Len(path) /\ 1 \in 1..Len(path) /\ Len(path) \in 1..Len(path)
    BY <1>1, <1>2
  <2>5. amount > 0 /\ f[Len(path)] > 0
    BY <1>2, <1>4, <2>4 DEF Quoted
  <2> QED BY <2>2, <2>3, <2>5
<1>5. f[Len(path)] > 0 => Quoted(f)
  BY SoldQuoted
<1> QED BY <1>2, <1>3, <1>4, <1>5

(* And of a purchase. *)
LEMMA PurchaseAsQuoted ==
  ASSUME AllGood(pools), OnlyMadeTraded, NEW a \in Tokens, NEW b \in Tokens, a # b,
         NEW amount \in Nat, NEW path, IsCandidate(path)
  PROVE  LET amounts == AmountsIn(amount, path)
             route == SheetAlong("exactOut", amount, path)
         IN  /\ amounts \in [1..Len(path) -> Nat]
             /\ route.amountOut = amount
             /\ Quoted(amounts) =>
                  /\ amount > 0 /\ amounts[1] > 0 /\ PairsForPath(path)
                  /\ route.amountIn = amounts[1]
                  /\ Recordable(path, amounts) => Swapped(path, amounts).ok
             /\ route.amountIn > 0 => Quoted(amounts)
<1> PICK f : f = AmountsIn(amount, path)
  OBVIOUS
<1>1. IsPath(path) /\ Simple(path) /\ Len(path) \in {2, 3}
  BY DEF IsCandidate
<1>2. f \in [1..Len(path) -> Nat] /\ f[Len(path)] = amount
  BY <1>1, InsType, AmountsInAre
<1>3. /\ SheetAlong("exactOut", amount, path).amountOut = amount
      /\ SheetAlong("exactOut", amount, path).amountIn = SheetIns(amount, path)[1]
  BY DEF SheetAlong
<1>4. ASSUME Quoted(f)
      PROVE  /\ amount > 0 /\ f[1] > 0 /\ PairsForPath(path)
             /\ SheetIns(amount, path)[1] = f[1]
             /\ Recordable(path, f) => Swapped(path, f).ok
  <2>1. \A i \in Hops(path) : FairHop(path, f, i)
    BY <1>1, <1>4, ExactOutFair
  <2>2. PairsForPath(path)
    BY <1>1, <1>2, <1>4, <2>1, FairPriced
  <2>3. Recordable(path, f) => Swapped(path, f).ok
    BY <1>1, <1>2, <1>4, <2>1, FairPathSettles
  <2>4. DOMAIN f = 1..Len(path) /\ 1 \in 1..Len(path) /\ Len(path) \in 1..Len(path)
    BY <1>1, <1>2
  <2>5. amount > 0 /\ f[1] > 0
    BY <1>2, <1>4, <2>4 DEF Quoted
  <2>6. SheetIns(amount, path)[1] = f[1]
    BY <1>4, SheetInsAgree
  <2> QED BY <2>2, <2>3, <2>5, <2>6
<1>5. SheetIns(amount, path)[1] > 0 => Quoted(f)
  BY SheetInsAgree
<1> QED BY <1>2, <1>3, <1>4, <1>5

LEMMA SwapsQuoted ==
  ASSUME IInv, OnlyMadeTraded
  PROVE  SwapsAsQuoted
<1>0. AllGood(pools)
  BY DEF IInv, PoolsSound
<1> SUFFICES ASSUME NEW a \in Tokens, NEW b \in Tokens, a # b,
                    NEW amount \in Payments \cup Purchases
             PROVE
    LET sold == BestRoutes("exactIn", amount, a, b)
        bought == BestRoutes("exactOut", amount, a, b)
    IN  /\ \A path \in CandidatePaths(a, b) :
             LET out == AmountsOut(amount, path)
                 in == AmountsIn(amount, path)
             IN  /\ Quoted(out) => \E best \in sold : best.amountOut >= out[Len(path)]
                 /\ Quoted(in) => \E best \in bought : best.amountIn <= in[1]
        /\ \A best \in sold :
             LET amounts == AmountsOut(amount, best.path)
             IN  /\ \A slippage \in Slippages :
                      amounts[Len(best.path)] >= MinReceived(best.amountOut, slippage)
                 /\ Recordable(best.path, amounts) => Swapped(best.path, amounts).ok
        /\ \A best \in bought :
             LET amounts == AmountsIn(amount, best.path)
             IN  /\ \A slippage \in Slippages : amounts[1] <= MaxSent(best.amountIn, slippage)
                 /\ Recordable(best.path, amounts) => Swapped(best.path, amounts).ok
  BY DEF SwapsAsQuoted
<1>1. amount \in Nat
  BY RouterAssumption
<1>2. ASSUME NEW path \in CandidatePaths(a, b), Quoted(AmountsOut(amount, path))
      PROVE  \E best \in BestRoutes("exactIn", amount, a, b) :
               best.amountOut >= AmountsOut(amount, path)[Len(path)]
  <2> DEFINE route == SheetAlong("exactIn", amount, path)
  <2>1. IsCandidate(path)
    BY CandidatesAre
  <2>2. /\ route.amountIn = amount /\ route.amountOut = AmountsOut(amount, path)[Len(path)]
        /\ amount > 0 /\ AmountsOut(amount, path)[Len(path)] > 0 /\ PairsForPath(path)
    BY <1>0, <1>1, <1>2, <2>1, SaleAsQuoted
  <2>3. route \in Routes("exactIn", amount, a, b)
    BY <2>2 DEF Routes
  <2> HIDE DEF route
  <2>4. PICK best \in BestRoutes("exactIn", amount, a, b) :
          Worth("exactIn", best) >= Worth("exactIn", route)
    BY <1>0, <1>1, <2>3, BestIsThere
  <2> QED BY <2>2, <2>4 DEF Worth
<1>3. ASSUME NEW path \in CandidatePaths(a, b), Quoted(AmountsIn(amount, path))
      PROVE  \E best \in BestRoutes("exactOut", amount, a, b) :
               best.amountIn <= AmountsIn(amount, path)[1]
  <2> DEFINE route == SheetAlong("exactOut", amount, path)
  <2>1. IsCandidate(path)
    BY CandidatesAre
  <2>2. /\ route.amountOut = amount /\ route.amountIn = AmountsIn(amount, path)[1]
        /\ amount > 0 /\ AmountsIn(amount, path)[1] > 0 /\ PairsForPath(path)
    BY <1>0, <1>1, <1>3, <2>1, PurchaseAsQuoted
  <2>3. route \in Routes("exactOut", amount, a, b)
    BY <2>2 DEF Routes
  <2> HIDE DEF route
  <2>4. PICK best \in BestRoutes("exactOut", amount, a, b) :
          Worth("exactOut", best) >= Worth("exactOut", route)
    BY <1>0, <1>1, <2>3, BestIsThere
  <2>5. best \in Routes("exactOut", amount, a, b)
    BY <2>4 DEF BestRoutes
  <2>6. best.amountIn \in Nat /\ route.amountIn \in Nat
    BY <1>0, <1>1, <2>3, <2>5, RoutesAre
  <2> QED BY <2>2, <2>4, <2>6 DEF Worth
<1>4. ASSUME NEW best \in BestRoutes("exactIn", amount, a, b)
      PROVE  LET amounts == AmountsOut(amount, best.path)
             IN  /\ \A slippage \in Slippages :
                      amounts[Len(best.path)] >= MinReceived(best.amountOut, slippage)
                 /\ Recordable(best.path, amounts) => Swapped(best.path, amounts).ok
  <2>1. best \in Routes("exactIn", amount, a, b)
    BY <1>4 DEF BestRoutes
  <2>2. /\ IsCandidate(best.path) /\ best = SheetAlong("exactIn", amount, best.path)
        /\ best.amountOut \in Nat /\ best.amountOut > 0
    BY <1>0, <1>1, <2>1, RoutesAre
  <2>3. /\ best.amountOut = AmountsOut(amount, best.path)[Len(best.path)]
        /\ Quoted(AmountsOut(amount, best.path))
        /\ Recordable(best.path, AmountsOut(amount, best.path)) =>
             Swapped(best.path, AmountsOut(amount, best.path)).ok
    <3> PICK path : path = best.path
      OBVIOUS
    <3> QED BY <1>0, <1>1, <2>2, SaleAsQuoted
  <2>4. \A slippage \in Slippages : best.amountOut >= MinReceived(best.amountOut, slippage)
    <3> TAKE slippage \in Slippages
    <3> PICK n \in Nat : n = best.amountOut
      BY <2>2
    <3>1. MinReceived(n, slippage) <= n
      BY SlippageBounds
    <3> QED BY <3>1
  <2> QED BY <2>3, <2>4
<1>5. ASSUME NEW best \in BestRoutes("exactOut", amount, a, b)
      PROVE  LET amounts == AmountsIn(amount, best.path)
             IN  /\ \A slippage \in Slippages : amounts[1] <= MaxSent(best.amountIn, slippage)
                 /\ Recordable(best.path, amounts) => Swapped(best.path, amounts).ok
  <2>1. best \in Routes("exactOut", amount, a, b)
    BY <1>5 DEF BestRoutes
  <2>2. /\ IsCandidate(best.path) /\ best = SheetAlong("exactOut", amount, best.path)
        /\ best.amountIn \in Nat /\ best.amountIn > 0
    BY <1>0, <1>1, <2>1, RoutesAre
  <2>3. /\ best.amountIn = AmountsIn(amount, best.path)[1]
        /\ Recordable(best.path, AmountsIn(amount, best.path)) =>
             Swapped(best.path, AmountsIn(amount, best.path)).ok
    <3> PICK path : path = best.path
      OBVIOUS
    <3> QED BY <1>0, <1>1, <2>2, PurchaseAsQuoted
  <2>4. \A slippage \in Slippages : best.amountIn <= MaxSent(best.amountIn, slippage)
    <3> TAKE slippage \in Slippages
    <3> PICK n \in Nat : n = best.amountIn
      BY <2>2
    <3>1. n <= MaxSent(n, slippage)
      BY SlippageBounds
    <3> QED BY <3>1
  <2> QED BY <2>3, <2>4
<1> QED BY <1>2, <1>3, <1>4, <1>5

-----------------------------------------------------------------------------
(* The sheets' liquidity. *)

LEMMA RootAt == \A y \in Nat : Root(y) \in Nat /\ IsRoot(Root(y), y)
<1> SUFFICES ASSUME NEW y \in Nat PROVE Root(y) \in 0..y /\ IsRoot(Root(y), y)
  OBVIOUS
<1>1. \E z \in 0..y : z * z <= y /\ y < (z + 1) * (z + 1)
  BY RootExists DEF IsRoot
<1> QED BY <1>1 DEF Root, IsRoot

(* The site's square root is the contract's, which is the whole root. *)
LEMMA SqrtIs == \A y \in Nat : Sqrt(y) = Root(y)
<1> SUFFICES ASSUME NEW y \in Nat PROVE Sqrt(y) = Root(y)
  OBVIOUS
<1>1. Root(y) \in Nat /\ IsRoot(Root(y), y)
  BY RootAt
<1>2. CASE y > 3
  <2>1. Sqrt(y) = Newton(y)
    BY <1>2 DEF Sqrt, Newton, Descends, Descent
  <2>2. Newton(y) \in Nat /\ IsRoot(Newton(y), y)
    BY <1>2, NewtonRoot
  <2> QED BY <1>1, <2>1, <2>2, RootOnce
<1>3. CASE y <= 3
  <2>1. Sqrt(y) = IF y # 0 THEN 1 ELSE 0
    BY <1>3 DEF Sqrt
  <2>2. IsRoot(0, 0) /\ (y # 0 => IsRoot(1, y))
    BY <1>3 DEF IsRoot
  <2> QED BY <1>1, <2>1, <2>2, RootOnce
<1> QED BY <1>2, <1>3

LEMMA RootMonotone ==
  ASSUME NEW x \in Nat, NEW y \in Nat, x <= y
  PROVE  Root(x) <= Root(y)
<1> PICK a \in Nat, b \in Nat : a = Root(x) /\ b = Root(y) /\ IsRoot(a, x) /\ IsRoot(b, y)
  BY RootAt
<1> SUFFICES ASSUME b < a PROVE FALSE
  OBVIOUS
<1>1. (b + 1) * (b + 1) <= a * a /\ a * a \in Nat /\ (b + 1) * (b + 1) \in Nat
  <2>1. b + 1 \in Nat /\ b + 1 <= a
    OBVIOUS
  <2> QED BY <2>1, Squares
<1>2. a * a <= x /\ y < (b + 1) * (b + 1)
  BY DEF IsRoot
<1> QED BY <1>1, <1>2

LEMMA QuotientMonotone ==
  ASSUME NEW a \in Nat, NEW b \in Nat, a <= b, NEW d \in Nat, d > 0
  PROVE  a \div d <= b \div d /\ a \div d \in Nat /\ b \div d \in Nat
<1> DEFINE q == a \div d
<1>1. q \in Nat /\ q * d <= a
  BY QuotientBack
<1>2. b \div d \in Nat
  BY QuotientBack
<1> HIDE DEF q
<1>3. q * d \in Nat /\ q * d <= b
  BY <1>1, Products
<1>4. q <= b \div d
  BY <1>1, <1>3, FitsInto
<1> QED BY <1>1, <1>2, <1>4 DEF q

(* The shares a sheet shows for a deposit are no more than the pair mints  *)
(* for at least as much.                                                   *)
LEMMA SharesMore ==
  ASSUME NEW c0 \in Nat, NEW c1 \in Nat, NEW b0 \in Nat, NEW b1 \in Nat, c0 <= b0, c1 <= b1,
         NEW r0 \in Nat, NEW r1 \in Nat, NEW supply \in Nat,
         NEW more \in Nat, supply <= more, supply = 0 => more = 0,
         SharesFor(b0, b1, r0, r1, more) > 0
  PROVE  LiquidityMinted(c0, c1, r0, r1, supply) <= SharesFor(b0, b1, r0, r1, more)
<1>0. MINIMUM_LIQUIDITY \in Nat
  BY PairMathAssumption
<1>1. CASE supply = 0
  <2> PICK k \in Nat, h \in Nat : k = c0 * c1 /\ h = b0 * b1 /\ k <= h
    BY Products, ProductMono
  <2>1. SharesFor(b0, b1, r0, r1, more) = Root(h) - MINIMUM_LIQUIDITY
    BY <1>1 DEF SharesFor
  <2>2. \/ LiquidityMinted(c0, c1, r0, r1, supply) = 0
        \/ LiquidityMinted(c0, c1, r0, r1, supply) = Sqrt(k) - MINIMUM_LIQUIDITY
    BY <1>1 DEF LiquidityMinted
  <2>3. Sqrt(k) = Root(k) /\ Root(k) <= Root(h) /\ Root(k) \in Nat /\ Root(h) \in Nat
    BY SqrtIs, RootMonotone, RootAt
  <2> QED BY <1>0, <2>1, <2>2, <2>3
<1>2. CASE supply # 0 /\ (c0 = 0 \/ c1 = 0)
  <2>1. LiquidityMinted(c0, c1, r0, r1, supply) = 0
    BY <1>2 DEF LiquidityMinted
  <2>2. SharesFor(b0, b1, r0, r1, more) \in Int
    <3>1. \A r \in Nat, b \in Nat : r # 0 => (b * more) \div r \in Nat
      BY Products, QuotientBack
    <3>2. more # 0
      BY <1>2
    <3> QED BY <3>1, <3>2 DEF SharesFor, Smaller
  <2> QED BY <2>1, <2>2
<1>3. CASE supply # 0 /\ c0 # 0 /\ c1 # 0
  <2>0. more # 0
    BY <1>3
  <2>1. r0 # 0 /\ r1 # 0
    BY <2>0 DEF SharesFor
  <2> PICK x0 \in Nat, x1 \in Nat, y0 \in Nat, y1 \in Nat :
        /\ x0 = c0 * supply /\ y0 = b0 * more /\ x0 <= y0
        /\ x1 = c1 * supply /\ y1 = b1 * more /\ x1 <= y1
    BY Products, ProductMono
  <2>2. /\ x0 \div r0 <= y0 \div r0 /\ x0 \div r0 \in Nat /\ y0 \div r0 \in Nat
        /\ x1 \div r1 <= y1 \div r1 /\ x1 \div r1 \in Nat /\ y1 \div r1 \in Nat
    BY <2>1, QuotientMonotone
  <2>3. LiquidityMinted(c0, c1, r0, r1, supply) = Smaller(x0 \div r0, x1 \div r1)
    BY <1>3, <2>1 DEF LiquidityMinted
  <2>4. SharesFor(b0, b1, r0, r1, more) = Smaller(y0 \div r0, y1 \div r1)
    BY <2>0, <2>1 DEF SharesFor
  <2> QED BY <2>2, <2>3, <2>4 DEF Smaller
<1> QED BY <1>1, <1>2, <1>3

LEMMA MintedEitherWay ==
  ASSUME NEW c0 \in Nat, NEW c1 \in Nat, NEW r0 \in Nat, NEW r1 \in Nat, NEW supply \in Nat
  PROVE  LiquidityMinted(c0, c1, r0, r1, supply) = LiquidityMinted(c1, c0, r1, r0, supply)
<1>1. c0 * c1 = c1 * c0
  BY Products
<1>2. r0 # 0 /\ r1 # 0 =>
        Smaller((c0 * supply) \div r0, (c1 * supply) \div r1)
          = Smaller((c1 * supply) \div r1, (c0 * supply) \div r0)
  <2> SUFFICES ASSUME r0 # 0, r1 # 0
               PROVE Smaller((c0 * supply) \div r0, (c1 * supply) \div r1)
                       = Smaller((c1 * supply) \div r1, (c0 * supply) \div r0)
    OBVIOUS
  <2>1. (c0 * supply) \div r0 \in Nat /\ (c1 * supply) \div r1 \in Nat
    BY Products, QuotientBack
  <2> QED BY <2>1 DEF Smaller
<1> QED BY <1>1, <1>2 DEF LiquidityMinted

(* What the pair mints, on what it was given. *)
LEMMA MintsFor ==
  ASSUME NEW q, GoodPool(q), NEW w \in PoolShape, NEW c0 \in Nat, NEW c1 \in Nat,
         w.reserve0 = q.reserve0, w.reserve1 = q.reserve1, w.supply = q.supply,
         q.balance0 + c0 <= w.balance0, q.balance1 + c1 <= w.balance1,
         MintOf(w, FeeOn).ok
  PROVE  LiquidityMinted(c0, c1, q.reserve0, q.reserve1, q.supply) <= MintOf(w, FeeOn).shares
<1> PICK b0 \in Nat, b1 \in Nat :
      b0 = w.balance0 - w.reserve0 /\ b1 = w.balance1 - w.reserve1 /\ c0 <= b0 /\ c1 <= b1
  <2>1. /\ q.balance0 \in Nat /\ q.balance1 \in Nat /\ q.reserve0 \in Nat /\ q.reserve1 \in Nat
        /\ q.reserve0 <= q.balance0 /\ q.reserve1 <= q.balance1
        /\ w.balance0 \in Nat /\ w.balance1 \in Nat
    BY DEF GoodPool, PoolShape
  <2>2. /\ w.balance0 - w.reserve0 \in Nat /\ w.balance1 - w.reserve1 \in Nat
        /\ c0 <= w.balance0 - w.reserve0 /\ c1 <= w.balance1 - w.reserve1
    BY <2>1
  <2> QED BY <2>2
<1>1. q.reserve0 \in Nat /\ q.reserve1 \in Nat /\ q.supply \in Nat
  BY DEF GoodPool, PoolShape
<1>2. w.supply = q.supply
  OBVIOUS
<1> PICK fee \in Nat : fee = FeeShares(w, FeeOn) /\ (q.supply = 0 => fee = 0)
  BY <1>2, FeeSharesAre
<1>3. MintOf(w, FeeOn).shares = SharesFor(b0, b1, q.reserve0, q.reserve1, q.supply + fee)
  <2>1. ~(b0 < 0 \/ b1 < 0)
    OBVIOUS
  <2> QED BY <1>2, <2>1 DEF MintOf
<1>4. MintOf(w, FeeOn).shares > 0
  BY DEF MintOf
<1> PICK r0 \in Nat, r1 \in Nat, supply \in Nat, more \in Nat :
      /\ r0 = q.reserve0 /\ r1 = q.reserve1 /\ supply = q.supply /\ more = q.supply + fee
      /\ supply <= more /\ (supply = 0 => more = 0)
  BY <1>1
<1>5. SharesFor(b0, b1, r0, r1, more) > 0
  BY <1>3, <1>4
<1>6. LiquidityMinted(c0, c1, r0, r1, supply) <= SharesFor(b0, b1, r0, r1, more)
  <2>1. c0 \in Nat /\ c1 \in Nat /\ c0 <= b0 /\ c1 <= b1
    OBVIOUS
  <2>2. supply <= more /\ (supply = 0 => more = 0)
    OBVIOUS
  <2> QED BY ONLY <1>5, <2>1, <2>2, b0 \in Nat, b1 \in Nat, r0 \in Nat, r1 \in Nat,
          supply \in Nat, more \in Nat, SharesMore
<1> QED BY <1>3, <1>6

(* A deposit of both tokens, whichever of them is named first. *)
LEMMA GivenBoth ==
  ASSUME NEW p \in Pairs, NEW a \in p, NEW q, GoodPool(q), NEW x \in Nat, NEW y \in Nat,
         LET w == Given(Given(q, p, a, x), p, Other(a, p), y) IN MintOf(w, FeeOn).ok
  PROVE  LET w == Given(Given(q, p, a, x), p, Other(a, p), y)
             b == Other(a, p)
         IN  LiquidityMinted(x, y, ReserveOf(q, p, a), ReserveOf(q, p, b), q.supply)
               <= MintOf(w, FeeOn).shares
<1> DEFINE b == Other(a, p)
           v == Given(q, p, a, x)
           w == Given(v, p, b, y)
<1> PICK t0, t1 : Sides(p, t0, t1)
  BY PairSides
<1>1. (a = t0 /\ b = t1) \/ (a = t1 /\ b = t0)
  BY SidesAre DEF Sides
<1>2. a \in p /\ b \in p /\ a # b
  BY <1>1 DEF Sides
<1>3. /\ q \in PoolShape /\ q.balance0 \in Nat /\ q.balance1 \in Nat
      /\ q.reserve0 \in Nat /\ q.reserve1 \in Nat /\ q.supply \in Nat
  BY DEF GoodPool, PoolShape
<1> HIDE DEF b
<1>4. /\ v \in PoolShape /\ v.reserve0 = q.reserve0 /\ v.reserve1 = q.reserve1
      /\ v.supply = q.supply
      /\ \A t : BalanceOf(v, p, t) = BalanceOf(q, p, t) + (IF t = a THEN x ELSE 0)
  <2>1. q \in PoolShape
    BY <1>3
  <2> QED BY <2>1, GivenPool
<1> HIDE DEF v
<1>5. /\ w \in PoolShape /\ w.reserve0 = v.reserve0 /\ w.reserve1 = v.reserve1
      /\ w.supply = v.supply
      /\ \A t : BalanceOf(w, p, t) = BalanceOf(v, p, t) + (IF t = b THEN y ELSE 0)
  BY <1>2, <1>4, GivenPool
<1> HIDE DEF w
<1>6. /\ \A r : BalanceOf(r, p, t0) = r.balance0 /\ BalanceOf(r, p, t1) = r.balance1
      /\ \A r : ReserveOf(r, p, t0) = r.reserve0 /\ ReserveOf(r, p, t1) = r.reserve1
  BY SideRecords
<1>7. MintOf(w, FeeOn).ok
  BY DEF w, v, b
<1>8. CASE a = t0 /\ b = t1
  <2>1. w.balance0 = (q.balance0 + x) + 0 /\ w.balance1 = (q.balance1 + 0) + y
    BY <1>2, <1>4, <1>5, <1>6, <1>8
  <2>2. q.balance0 + x <= w.balance0 /\ q.balance1 + y <= w.balance1
    BY <1>3, <2>1
  <2>3. LiquidityMinted(x, y, q.reserve0, q.reserve1, q.supply) <= MintOf(w, FeeOn).shares
    BY <1>4, <1>5, <1>7, <2>2, MintsFor
  <2> QED BY <1>6, <1>8, <2>3 DEF w, v, b
<1>9. CASE a = t1 /\ b = t0
  <2>1. w.balance0 = (q.balance0 + 0) + y /\ w.balance1 = (q.balance1 + x) + 0
    BY <1>2, <1>4, <1>5, <1>6, <1>9
  <2>2. q.balance0 + y <= w.balance0 /\ q.balance1 + x <= w.balance1
    BY <1>3, <2>1
  <2>3. LiquidityMinted(y, x, q.reserve0, q.reserve1, q.supply) <= MintOf(w, FeeOn).shares
    BY <1>4, <1>5, <1>7, <2>2, MintsFor
  <2>4. LiquidityMinted(y, x, q.reserve0, q.reserve1, q.supply)
          = LiquidityMinted(x, y, q.reserve1, q.reserve0, q.supply)
    BY <1>3, MintedEitherWay
  <2> QED BY <1>6, <1>9, <2>3, <2>4 DEF w, v, b
<1> QED BY <1>1, <1>8, <1>9

LEMMA AddsShown ==
  ASSUME IInv
  PROVE  AddsAsShown
<1> SUFFICES ASSUME NEW p \in created, NEW a \in p, NEW amountA \in Deposits,
                    NEW slippage \in Slippages
             PROVE
    LET b == Other(a, p)
        r == ReservesFor(p, a)
        first == r = <<0, 0>>
        amountB == IF first THEN amountA ELSE RatioQuote(amountA, r[1], r[2])
        add == IF first THEN AmountsToAdd(p, a, b, amountA, amountB)
               ELSE OptimalAmount(amountA, amountB, MinReceived(amountA, slippage),
                                  MinReceived(amountB, slippage), r[1], r[2])
        m == MintOf(Given(Given(pools[p], p, a, add.amountA), p, b, add.amountB), FeeOn)
    IN  amountB > 0 =>
          /\ add.ok /\ add.amountA = amountA /\ add.amountB = amountB
          /\ m.ok => m.shares >= LiquidityMinted(amountA, amountB, r[1], r[2], pools[p].supply)
  BY DEF AddsAsShown
<1> DEFINE b == Other(a, p)
           r == ReservesFor(p, a)
           first == r = <<0, 0>>
           amountB == IF first THEN amountA ELSE RatioQuote(amountA, r[1], r[2])
           add == IF first THEN AmountsToAdd(p, a, b, amountA, amountB)
                  ELSE OptimalAmount(amountA, amountB, MinReceived(amountA, slippage),
                                     MinReceived(amountB, slippage), r[1], r[2])
           m == MintOf(Given(Given(pools[p], p, a, add.amountA), p, b, add.amountB), FeeOn)
<1>1. p \in Pairs /\ GoodPool(pools[p]) /\ amountA \in Nat
  BY RouterAssumption DEF IInv, PoolsSound, AllGood
<1> PICK rA \in Nat, rB \in Nat :
      rA = ReserveOf(pools[p], p, a) /\ rB = ReserveOf(pools[p], p, b)
  BY <1>1, ReserveType DEF GoodPool
<1>2. r = <<rA, rB>> /\ r[1] = rA /\ r[2] = rB
  <2>1. PICK t0, t1 : Sides(p, t0, t1)
    BY <1>1, PairSides
  <2>2. (a = t0 /\ b = t1) \/ (a = t1 /\ b = t0)
    BY <2>1, SidesAre DEF Sides
  <2> HIDE DEF b
  <2> QED BY <2>1, <2>2 DEF ReservesFor, ReserveOf, Sides
<1>3. first <=> rA = 0 /\ rB = 0
  BY <1>2
<1> HIDE DEF r, first, b
<1>4. CASE first
  <2>1. amountB = amountA
    BY <1>4
  <2>2. add.ok /\ add.amountA = amountA /\ add.amountB = amountA
    BY <1>3, <1>4, <2>1 DEF AmountsToAdd
  <2>3. add.ok /\ add.amountA = amountA /\ add.amountB = amountB /\ amountB \in Nat
    BY <1>1, <2>1, <2>2
  <2> HIDE DEF add, amountB
  <2>4. m.ok => LiquidityMinted(amountA, amountB, rA, rB, pools[p].supply) <= m.shares
    BY <1>1, <2>3, GivenBoth DEF b
  <2>5. m.ok => m.shares >= LiquidityMinted(amountA, amountB, rA, rB, pools[p].supply)
    BY <2>4
  <2> QED BY <1>2, <2>3, <2>5 DEF add, amountB, r, first, b
<1>5. CASE ~first
  <2> SUFFICES ASSUME amountB > 0
               PROVE  /\ add.ok /\ add.amountA = amountA /\ add.amountB = amountB
                      /\ m.ok => m.shares >=
                           LiquidityMinted(amountA, amountB, r[1], r[2], pools[p].supply)
    BY DEF r, first, b
  <2>1. amountB = RatioQuote(amountA, rA, rB)
    BY <1>2, <1>5
  <2>2. /\ amountA > 0 /\ rA > 0 /\ rB > 0
        /\ amountB = (amountA * rB) \div rA
    BY <1>1, <2>1 DEF RatioQuote
  <2>3. amountB \in Nat
    BY <1>1, <2>2, Products, QuotientBack
  <2>4. add = OptimalAmount(amountA, amountB, MinReceived(amountA, slippage),
                            MinReceived(amountB, slippage), rA, rB)
    BY <1>2, <1>5
  <2> HIDE DEF add
  <2> PICK quoted \in Nat : quoted = amountB
    BY <2>3
  <2> HIDE DEF amountB
  <2>5. Quote(amountA, rA, rB) = quoted
    BY <2>2 DEF Quote
  <2>6. MinReceived(quoted, slippage) <= quoted
    BY SlippageBounds
  <2>7. add.ok /\ add.amountA = amountA /\ add.amountB = quoted
    <3>1. quoted <= quoted /\ rA > 0 /\ rB > 0 /\ quoted >= MinReceived(quoted, slippage)
      BY <2>2, <2>6 DEF MinReceived
    <3> QED BY <2>2, <2>4, <2>5, <3>1 DEF OptimalAmount
  <2>8. m.ok => LiquidityMinted(amountA, quoted, rA, rB, pools[p].supply) <= m.shares
    BY <1>1, <2>7, GivenBoth DEF b
  <2>9. m.ok => m.shares >= LiquidityMinted(amountA, quoted, rA, rB, pools[p].supply)
    BY <2>8
  <2> QED BY <1>2, <2>7, <2>9
<1> QED BY <1>4, <1>5 DEF add, amountB, r, first, b

(* What a payment may be short of what was shown. *)
PaidAs(paid, shown, root, g) ==
  /\ paid \in Nat /\ shown \in Nat
  /\ g = 0 => paid >= shown
  /\ g > 0 => (paid + 1) * (6 * root) > shown * (6 * root - g)

(* What is paid of n shares out of s with the protocol's added, against    *)
(* what their sheet shows: no less but for a sixth of the growth.          *)
LEMMA PaidPart ==
  ASSUME NEW n \in Nat, NEW b \in Nat, NEW r \in Nat, r <= b, NEW s \in Nat, s > 0,
         NEW fee \in Nat, NEW root \in Nat, NEW g \in Nat, g <= root,
         fee * (6 * root - g) <= s * g, g = 0 => fee = 0
  PROVE  PaidAs((n * b) \div (s + fee), (n * r) \div s, root, g)
<1> DEFINE paid == (n * b) \div (s + fee)
           shown == (n * r) \div s
           W == 6 * root
           D == W - g
           t == s + fee
           P == paid + 1
<1>1. n * r \in Nat /\ n * b \in Nat /\ n * r <= n * b
  BY Products
<1>2. t \in Nat /\ t > 0 /\ W \in Nat /\ D \in Nat
  OBVIOUS
<1>3. shown \in Nat /\ shown * s <= n * r
  BY <1>1, QuotientBack
<1>4. paid \in Nat /\ P \in Nat /\ n * b < P * t
  <2> HIDE DEF t
  <2>1. paid \in Nat /\ n * b < paid * t + t
    <3>1. paid = (n * b) \div t
      BY DEF t
    <3> HIDE DEF paid
    <3> QED BY <1>1, <1>2, <3>1, QuotientBack
  <2> HIDE DEF paid
  <2>2. P * t = paid * t + t
    BY <1>2, <2>1, Z3
  <2> QED BY <2>1, <2>2
<1>5. CASE g = 0
  <2>1. s + fee = s
    BY <1>5
  <2>2. shown <= (n * b) \div s
    BY <1>1, QuotientMonotone
  <2> QED BY <1>3, <1>4, <1>5, <2>1, <2>2 DEF PaidAs
<1>6. CASE g > 0
  <2>1. D > 0 /\ fee * D <= s * g
    BY <1>6
  <2>2. D + g = W
    BY <1>2
  <2>t. t = s + fee
    OBVIOUS
  <2> HIDE DEF P, paid, shown, t, D, W
  <2> SUFFICES ASSUME P * W <= shown * D PROVE FALSE
    BY <1>2, <1>3, <1>4, <1>6, Products DEF PaidAs, P, paid, shown, t, D, W
  <2>3. t * D <= s * W
    <3>1. t * D = s * D + fee * D /\ s * W = s * D + s * g
      BY <1>2, <2>2, <2>t, Z3
    <3>2. s * D \in Nat /\ fee * D \in Nat /\ s * g \in Nat
      BY <1>2, Products
    <3> QED BY <2>1, <3>1, <3>2
  <2>4. t * D \in Nat /\ s * W \in Nat /\ P * W \in Nat /\ shown * D \in Nat /\ shown * s \in Nat /\ P * t \in Nat
    BY <1>2, <1>3, <1>4, Products
  <2>5. P * (t * D) <= P * (s * W)
    BY <1>4, <2>3, <2>4, Products
  <2>6. s * (P * W) <= s * (shown * D)
    BY <2>4, Products
  <2>7. D * (P * t) = P * (t * D) /\ s * (P * W) = P * (s * W) /\ s * (shown * D) = D * (shown * s)
    BY <1>2, <1>3, <1>4, Z3
  <2>8. D * (P * t) \in Nat /\ P * (s * W) \in Nat /\ D * (shown * s) \in Nat
    BY <1>2, <1>4, <2>4, Products
  <2>9. D * (P * t) <= D * (shown * s)
    BY <2>5, <2>6, <2>7, <2>8
  <2>10. P * t <= shown * s
    BY <1>2, <2>1, <2>4, <2>9, Cancel
  <2> QED BY <1>1, <1>3, <1>4, <2>4, <2>10
<1> QED BY <1>3, <1>4, <1>5, <1>6 DEF PaidAs

(* And where that sixth is within the slippage, the minimum is paid. *)
LEMMA PaidMin ==
  ASSUME NEW paid \in Nat, NEW shown \in Nat, NEW root \in Nat, NEW g \in Nat, g <= root,
         NEW slippage \in Slippages,
         g = 0 => paid >= shown,
         g > 0 => (paid + 1) * (6 * root) > shown * (6 * root - g),
         g * BPS_DENOMINATOR <= 6 * root * slippage
  PROVE  paid >= MinReceived(shown, slippage)
<1>1. PICK B \in Nat : B = BPS_DENOMINATOR /\ B > 0 /\ slippage \in 0..B
  BY QuotesAssumption
<1> PICK k \in Nat : k = B - slippage
  BY <1>1
<1> DEFINE m == (shown * k) \div B
           W == 6 * root
           D == W - g
           P == paid + 1
<1>2. MinReceived(shown, slippage) = m
  BY <1>1 DEF MinReceived
<1>3. m \in Nat /\ m * B <= shown * k /\ shown * k \in Nat
  <2>1. shown * k \in Nat
    BY Products
  <2> QED BY <1>1, <2>1, QuotientBack
<1>4. CASE g = 0
  <2>1. MinReceived(shown, slippage) <= shown
    BY SlippageBounds
  <2> QED BY <1>2, <1>3, <1>4, <2>1
<1>5. CASE g > 0
  <2>1. W \in Nat /\ D \in Nat /\ P \in Nat /\ D = W - g /\ W > 0 /\ P = paid + 1
    BY <1>5
  <2>2. P * W > shown * D
    BY <1>5
  <2>3. g * B <= W * slippage
    BY <1>1
  <2> HIDE DEF m, W, D, P
  <2>4. W * k <= D * B
    <3>1. W * k = W * B - W * slippage /\ D * B = W * B - g * B
      BY <1>1, <2>1, Z3
    <3>2. W * B \in Nat /\ W * slippage \in Nat /\ g * B \in Nat
      BY <1>1, <2>1, Products
    <3> QED BY <2>3, <3>1, <3>2
  <2> SUFFICES ASSUME paid < m PROVE FALSE
    BY <1>2, <1>3
  <2>5. P * B <= m * B /\ P * B \in Nat /\ m * B \in Nat
    BY <1>1, <1>3, <2>1, Products, ProductMono
  <2>6. W * (P * B) <= W * (shown * k)
    BY <1>3, <2>1, <2>5, Products
  <2>7. W * k \in Nat /\ D * B \in Nat /\ P * W \in Nat /\ shown * D \in Nat
    BY <1>1, <2>1, Products
  <2>8. shown * (W * k) <= shown * (D * B)
    BY <2>4, <2>7, Products
  <2>9. /\ W * (P * B) = B * (P * W) /\ W * (shown * k) = shown * (W * k)
        /\ shown * (D * B) = B * (shown * D)
    BY <1>1, <2>1, Z3
  <2>10. B * (P * W) \in Nat /\ shown * (W * k) \in Nat /\ B * (shown * D) \in Nat
    BY <1>1, <2>7, Products
  <2>11. B * (P * W) <= B * (shown * D)
    BY <2>6, <2>8, <2>9, <2>10
  <2>12. P * W <= shown * D
    BY <1>1, <2>7, <2>11, Cancel
  <2> QED BY <2>2, <2>7, <2>12
<1> QED BY <1>4, <1>5

LEMMA PositionsPay ==
  ASSUME IInv
  PROVE  PositionsPayWhatTheyShow
<1> SUFFICES ASSUME NEW p \in created, NEW liquidity \in Removals, liquidity <= pools[p].supply
             PROVE
    LET q == pools[p]
        shown == RemoveAmounts(liquidity, p)
        b == BurnOf(q, liquidity, FeeOn)
        root == Root(Product(q))
        Pays(paid, promised) ==
          /\ Growth(q) = 0 => paid >= promised
          /\ Growth(q) > 0 => (paid + 1) * (6 * root) > promised * (6 * root - Growth(q))
          /\ \A slippage \in Slippages :
               Growth(q) * BPS_DENOMINATOR <= 6 * root * slippage =>
                 paid >= MinReceived(promised, slippage)
    IN  Pays(b.amount0, shown[1]) /\ Pays(b.amount1, shown[2])
  BY DEF PositionsPayWhatTheyShow
<1> DEFINE q == pools[p]
           root == Root(Product(q))
           g == Growth(q)
           fee == FeeShares(q, FeeOn)
           shown == RemoveAmounts(liquidity, p)
           burn == BurnOf(q, liquidity, FeeOn)
           Pays(paid, promised) ==
             /\ g = 0 => paid >= promised
             /\ g > 0 => (paid + 1) * (6 * root) > promised * (6 * root - g)
             /\ \A slippage \in Slippages :
                  g * BPS_DENOMINATOR <= 6 * root * slippage =>
                    paid >= MinReceived(promised, slippage)
<1>1. GoodPool(q) /\ q \in PoolShape /\ liquidity \in Nat
  BY RouterAssumption DEF IInv, PoolsSound, AllGood, GoodPool
<1> PICK b0 \in Nat, b1 \in Nat, r0 \in Nat, r1 \in Nat, s \in Nat, n \in Nat :
      /\ b0 = q.balance0 /\ b1 = q.balance1 /\ r0 = q.reserve0 /\ r1 = q.reserve1
      /\ s = q.supply /\ r0 <= b0 /\ r1 <= b1 /\ n = liquidity
  BY <1>1 DEF GoodPool, PoolShape
<1>2. /\ fee \in Nat /\ root \in Nat /\ g \in Nat /\ g <= root
      /\ fee * (6 * root - g) <= s * g
      /\ g = 0 \/ s = 0 => fee = 0
  BY <1>1, FeeSharesAre
<1>3. /\ burn.amount0 = IF s + fee = 0 THEN 0 ELSE (n * b0) \div (s + fee)
      /\ burn.amount1 = IF s + fee = 0 THEN 0 ELSE (n * b1) \div (s + fee)
  BY DEF BurnOf
<1>4. shown = IF n <= 0 \/ s <= 0 THEN <<0, 0>> ELSE <<(n * r0) \div s, (n * r1) \div s>>
  BY DEF RemoveAmounts
<1> HIDE DEF q, root, g, fee, shown, burn
<1>5. ASSUME NEW paid \in Nat, NEW promised \in Nat,
             g = 0 => paid >= promised,
             g > 0 => (paid + 1) * (6 * root) > promised * (6 * root - g)
      PROVE  Pays(paid, promised)
  BY <1>2, <1>5, PaidMin
<1>6. CASE s = 0
  <2>1. burn.amount0 = 0 /\ burn.amount1 = 0 /\ shown[1] = 0 /\ shown[2] = 0
    BY <1>2, <1>3, <1>4, <1>6
  <2>2. g > 0 => (0 + 1) * (6 * root) > 0 * (6 * root - g)
    BY <1>2
  <2>3. Pays(0, 0)
    <3> HIDE DEF Pays
    <3> QED BY <2>2, <1>5
  <2> QED BY <2>1, <2>3 DEF q, root, g, shown, burn
<1>7. CASE s # 0
  <2>1. shown[1] = (n * r0) \div s /\ shown[2] = (n * r1) \div s
    <3>1. CASE n = 0
      <4>1. n * r0 = 0 /\ n * r1 = 0
        BY <3>1
      <4>2. 0 \div s = 0
        BY <1>7
      <4> QED BY <1>4, <3>1, <4>1, <4>2
    <3>2. CASE n # 0
      BY <1>4, <1>7, <3>2
    <3> QED BY <3>1, <3>2
  <2>2. burn.amount0 = (n * b0) \div (s + fee) /\ burn.amount1 = (n * b1) \div (s + fee)
    BY <1>2, <1>3, <1>7
  <2>3. s > 0 /\ r0 <= b0 /\ r1 <= b1
    BY <1>7
  <2> HIDE DEF Pays
  <2>p. /\ PaidAs((n * b0) \div (s + fee), (n * r0) \div s, root, g)
        /\ PaidAs((n * b1) \div (s + fee), (n * r1) \div s, root, g)
    BY <1>2, <2>3, PaidPart
  <2>q. PaidAs(burn.amount0, shown[1], root, g) /\ PaidAs(burn.amount1, shown[2], root, g)
    BY <2>1, <2>2, <2>p
  <2>4. Pays(burn.amount0, shown[1])
    BY <1>5, <2>q DEF PaidAs
  <2>5. Pays(burn.amount1, shown[2])
    BY <1>5, <2>q DEF PaidAs
  <2> QED BY <2>4, <2>5 DEF Pays, q, root, g, shown, burn
<1> QED BY <1>6, <1>7

-----------------------------------------------------------------------------
(* For any tokens, pools and gifts: a quoted path settles and its price is *)
(* tight; what the Swap sheet quotes the router carries out within its     *)
(* slippage bound and no path it may take is better; what the Add sheet    *)
(* fills in is taken to the unit; and a position pays at least what it     *)
(* shows, less at most a sixth of the pair's growth while the protocol     *)
(* takes its fee.                                                          *)
THEOREM TradesStayFair == Spec => []TradesAreFair
<1>1. IInv /\ OnlyMadeTraded => SheetsKeepTheirWord
  BY SwapsQuoted, AddsShown, PositionsPay DEF SheetsKeepTheirWord
<1>2. Spec => []SheetsKeepTheirWord
  BY <1>1, RouterInvariance, OnlyMade, PTL
<1>3. QuotesHold /\ SheetsKeepTheirWord => TradesAreFair
  BY DEF TradesAreFair
<1> QED BY <1>2, <1>3, QuotesAlwaysHold, PTL
=============================================================================
