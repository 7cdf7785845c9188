--------------------------- MODULE ArithmeticProofs ---------------------------
(***************************************************************************)
(* What sums over finite sets do, for every set and all amounts, that      *)
(* every number has a whole square root, and what the arithmetic of the    *)
(* curve and of the launch pool (CurveMath) promises for every reserve,    *)
(* amount and fee.  The induction theorems of the library take an          *)
(* operator; here an induction runs over a set of subsets instead, and     *)
(* rests on the fact that strict inclusion of finite subsets is well       *)
(* founded.                                                                *)
(***************************************************************************)
EXTENDS Sums, CurveMath, FiniteSetTheorems, TLAPS

Pick(s) == CHOOSE x \in s : TRUE

(* f adds up v over every subset of S. *)
Adds(f, v, S) ==
  f = [s \in SUBSET S |-> IF s = {} THEN 0 ELSE v[Pick(s)] + f[s \ {Pick(s)}]]

(* A sum is what the recursive function that adds up returns. *)
LEMMA SumIs == \A S, v : SumOver(S, v) = (CHOOSE f : Adds(f, v, S))[S]
BY DEF SumOver, MapThenSumSet, MapThenFoldSet, Adds, Pick

(* Induction over the subsets of a finite set. *)
LEMMA SubsetInduction ==
  ASSUME NEW S, IsFiniteSet(S), NEW Good,
         \A T \in SUBSET S : (\A U \in SUBSET T : U # T => U \in Good) => T \in Good
  PROVE  SUBSET S \subseteq Good
<1> DEFINE Bad == {T \in SUBSET S : T \notin Good}
<1> SUFFICES ASSUME Bad # {} PROVE FALSE
  OBVIOUS
<1>1. Bad \subseteq FiniteSubsetsOf(S)
  BY FS_Subset DEF FiniteSubsetsOf
<1>2. PICK T \in Bad : \A U \in Bad : <<U, T>> \notin StrictSubsetOrdering(S)
  <2> HIDE DEF Bad
  <2>1. IsWellFoundedOn(StrictSubsetOrdering(S), FiniteSubsetsOf(S))
    BY FS_StrictSubsetOrderingWellFounded
  <2> QED BY <1>1, <2>1, WFMin
<1>3. ASSUME NEW U \in SUBSET T, U # T PROVE U \in Good
  BY <1>2, <1>3 DEF StrictSubsetOrdering
<1> QED BY <1>2, <1>3

(* The member picked is one. *)
LEMMA PickIn == \A s : s # {} => Pick(s) \in s
BY DEF Pick

(* One step of adding up. *)
LEMMA AddsAt ==
  ASSUME NEW S, NEW v, NEW f, Adds(f, v, S), NEW s \in SUBSET S
  PROVE  f[s] = IF s = {} THEN 0 ELSE v[Pick(s)] + f[s \ {Pick(s)}]
BY DEF Adds

(* There is one way at most to add up. *)
LEMMA AddsOnce ==
  ASSUME NEW S, IsFiniteSet(S), NEW v, NEW U, NEW W, S \subseteq U, S \subseteq W,
         NEW f, Adds(f, v, U), NEW g, Adds(g, v, W)
  PROVE  f[S] = g[S]
<1> DEFINE Good == {T \in SUBSET S : f[T] = g[T]}
<1>1. ASSUME NEW T \in SUBSET S, \A V \in SUBSET T : V # T => V \in Good PROVE T \in Good
  <2>1. /\ f[T] = IF T = {} THEN 0 ELSE v[Pick(T)] + f[T \ {Pick(T)}]
        /\ g[T] = IF T = {} THEN 0 ELSE v[Pick(T)] + g[T \ {Pick(T)}]
    BY AddsAt
  <2>2. CASE T = {}
    BY <2>1, <2>2
  <2>3. CASE T # {}
    <3>1. T \ {Pick(T)} \in SUBSET T /\ T \ {Pick(T)} # T
      BY <2>3, PickIn
    <3>2. f[T \ {Pick(T)}] = g[T \ {Pick(T)}]
      BY <1>1, <3>1
    <3> QED BY <2>1, <2>3, <3>2
  <2> QED BY <2>2, <2>3
<1> HIDE DEF Good
<1>2. SUBSET S \subseteq Good
  BY <1>1, SubsetInduction
<1> QED BY <1>2 DEF Good

(* The amounts of a finite set can be added up. *)
LEMMA AddsExists ==
  ASSUME NEW S, IsFiniteSet(S), NEW v
  PROVE  \E f : Adds(f, v, S)
<1> DEFINE Good == {T \in SUBSET S : \E f : Adds(f, v, T)}
<1>1. ASSUME NEW T \in SUBSET S, \A V \in SUBSET T : V # T => V \in Good PROVE T \in Good
  <2> DEFINE F(V) == CHOOSE f : Adds(f, v, V)
             rest(s) == s \ {Pick(s)}
             g == [s \in SUBSET T |-> IF s = {} THEN 0 ELSE v[Pick(s)] + F(rest(s))[rest(s)]]
  <2>1. \A s \in SUBSET T : s # {} => rest(s) \in SUBSET T /\ rest(s) # T
    BY PickIn
  <2>2. \A V \in SUBSET T : V # T => Adds(F(V), v, V)
    BY <1>1
  <2> HIDE DEF F
  <2>3. ASSUME NEW u \in SUBSET T, u # T PROVE g[u] = F(u)[u]
    <3>1. F(u)[u] = IF u = {} THEN 0 ELSE v[Pick(u)] + F(u)[rest(u)]
      BY <2>2, <2>3, AddsAt
    <3>2. u # {} => F(u)[rest(u)] = F(rest(u))[rest(u)]
      <4> SUFFICES ASSUME u # {} PROVE F(u)[rest(u)] = F(rest(u))[rest(u)]
        OBVIOUS
      <4>1. IsFiniteSet(rest(u))
        BY FS_Subset
      <4>2. Adds(F(u), v, u) /\ Adds(F(rest(u)), v, rest(u))
        BY <2>1, <2>2, <2>3
      <4>3. rest(u) \subseteq u
        OBVIOUS
      <4> HIDE DEF rest
      <4> QED BY <4>1, <4>2, <4>3, AddsOnce
    <3> QED BY <3>1, <3>2
  <2>4. Adds(g, v, T)
    <3>1. \A s \in SUBSET T : s # {} => g[rest(s)] = F(rest(s))[rest(s)]
      BY <2>1, <2>3
    <3> QED BY <3>1 DEF Adds
  <2> QED BY <2>4
<1> HIDE DEF Good
<1>2. SUBSET S \subseteq Good
  BY <1>1, SubsetInduction
<1> QED BY <1>2 DEF Good

(* A sum is the picked amount and the sum of the rest. *)
LEMMA SumPick ==
  ASSUME NEW S, IsFiniteSet(S), NEW v
  PROVE  SumOver(S, v) = IF S = {} THEN 0 ELSE v[Pick(S)] + SumOver(S \ {Pick(S)}, v)
<1> DEFINE F(V) == CHOOSE f : Adds(f, v, V)
           rest == S \ {Pick(S)}
<1>1. IsFiniteSet(rest) /\ rest \subseteq S
  BY FS_Subset
<1>2. Adds(F(S), v, S) /\ Adds(F(rest), v, rest)
  BY <1>1, AddsExists
<1>3. SumOver(S, v) = F(S)[S] /\ SumOver(rest, v) = F(rest)[rest]
  BY SumIs
<1> HIDE DEF F, rest
<1>4. F(S)[rest] = F(rest)[rest]
  BY <1>1, <1>2, AddsOnce
<1>5. F(S)[S] = IF S = {} THEN 0 ELSE v[Pick(S)] + F(S)[rest]
  BY <1>2, AddsAt DEF rest
<1> QED BY <1>3, <1>4, <1>5 DEF rest

(* Amounts are added up in any order. *)
THEOREM SumEmpty == \A v : SumOver({}, v) = 0
BY SumPick, FS_EmptySet

(* Integers sum to an integer. *)
LEMMA SumInt ==
  ASSUME NEW S, IsFiniteSet(S), NEW v, \A a \in S : v[a] \in Int
  PROVE  SumOver(S, v) \in Int
<1> DEFINE Good == {T \in SUBSET S : SumOver(T, v) \in Int}
<1>1. ASSUME NEW T \in SUBSET S, \A V \in SUBSET T : V # T => V \in Good PROVE T \in Good
  <2>1. IsFiniteSet(T)
    BY FS_Subset
  <2>2. SumOver(T, v) = IF T = {} THEN 0 ELSE v[Pick(T)] + SumOver(T \ {Pick(T)}, v)
    BY <2>1, SumPick
  <2>3. T # {} => Pick(T) \in T
    BY PickIn
  <2>4. T # {} => T \ {Pick(T)} \in SUBSET T /\ T \ {Pick(T)} # T
    BY <2>3
  <2>5. T # {} => SumOver(T \ {Pick(T)}, v) \in Int
    BY <1>1, <2>4
  <2> QED BY <2>2, <2>3, <2>5
<1> HIDE DEF Good
<1>2. SUBSET S \subseteq Good
  BY <1>1, SubsetInduction
<1> QED BY <1>2 DEF Good

(* ... in any order. *)
THEOREM SumRemove ==
  ASSUME NEW S, IsFiniteSet(S), NEW v, \A a \in S : v[a] \in Int, NEW a \in S
  PROVE  SumOver(S, v) = v[a] + SumOver(S \ {a}, v)
<1> DEFINE Good == {T \in SUBSET S : \A b \in T : SumOver(T, v) = v[b] + SumOver(T \ {b}, v)}
<1>1. ASSUME NEW T \in SUBSET S, \A V \in SUBSET T : V # T => V \in Good PROVE T \in Good
  <2> SUFFICES ASSUME NEW b \in T PROVE SumOver(T, v) = v[b] + SumOver(T \ {b}, v)
    OBVIOUS
  <2> DEFINE x == Pick(T)
  <2>1. IsFiniteSet(T) /\ x \in T
    BY FS_Subset, PickIn
  <2>2. SumOver(T, v) = v[x] + SumOver(T \ {x}, v)
    BY <2>1, SumPick
  <2> HIDE DEF x
  <2>3. CASE b = x
    BY <2>2, <2>3
  <2>4. CASE b # x
    <3>1. /\ T \ {x} \in SUBSET T /\ T \ {x} # T /\ b \in T \ {x}
          /\ T \ {b} \in SUBSET T /\ T \ {b} # T /\ x \in T \ {b}
      BY <2>1, <2>4
    <3>2. /\ SumOver(T \ {x}, v) = v[b] + SumOver((T \ {x}) \ {b}, v)
          /\ SumOver(T \ {b}, v) = v[x] + SumOver((T \ {b}) \ {x}, v)
      BY <1>1, <3>1
    <3> DEFINE rest == (T \ {x}) \ {b}
    <3>3. (T \ {x}) \ {b} = rest /\ (T \ {b}) \ {x} = rest
      OBVIOUS
    <3>4. SumOver(rest, v) \in Int /\ v[x] \in Int /\ v[b] \in Int
      BY <2>1, FS_Subset, SumInt
    <3>5. /\ SumOver(T \ {x}, v) = v[b] + SumOver(rest, v)
          /\ SumOver(T \ {b}, v) = v[x] + SumOver(rest, v)
      BY <3>2, <3>3
    <3> DEFINE n == SumOver(rest, v)
               m == SumOver(T \ {b}, v)
    <3> HIDE DEF rest, n, m
    <3>6. SumOver(T, v) = v[b] + m
      BY <2>2, <3>4, <3>5 DEF n, m
    <3> QED BY <3>6 DEF m
  <2> QED BY <2>3, <2>4
<1> HIDE DEF Good
<1>2. SUBSET S \subseteq Good
  BY <1>1, SubsetInduction
<1>3. S \in Good
  BY <1>2
<1> QED BY <1>3 DEF Good

(* Induction over the subsets of a finite set, one member at a time. *)
LEMMA MemberInduction ==
  ASSUME NEW S, IsFiniteSet(S), NEW Good, {} \in Good,
         \A T \in SUBSET S : \A a \in T : T \ {a} \in Good => T \in Good
  PROVE  S \in Good
<1>1. ASSUME NEW T \in SUBSET S, \A U \in SUBSET T : U # T => U \in Good PROVE T \in Good
  <2>1. CASE T = {}
    BY <2>1
  <2>2. ASSUME NEW a \in T PROVE T \in Good
    <3>1. T \ {a} \in SUBSET T /\ T \ {a} # T
      OBVIOUS
    <3> QED BY <1>1, <3>1
  <2> QED BY <2>1, <2>2
<1> QED BY <1>1, SubsetInduction

(* Sums are linear. *)
THEOREM SumLinear ==
  ASSUME NEW S, IsFiniteSet(S), NEW u, NEW v, NEW w, NEW c \in Int,
         \A a \in S : u[a] \in Int /\ v[a] \in Int /\ w[a] = u[a] + c * v[a]
  PROVE  SumOver(S, w) = SumOver(S, u) + c * SumOver(S, v)
<1> DEFINE Good == {T \in SUBSET S : SumOver(T, w) = SumOver(T, u) + c * SumOver(T, v)}
<1>1. {} \in Good
  BY SumEmpty
<1>2. ASSUME NEW T \in SUBSET S, NEW a \in T, T \ {a} \in Good PROVE T \in Good
  <2> DEFINE rest == T \ {a}
             U == SumOver(rest, u)
             V == SumOver(rest, v)
             W == SumOver(rest, w)
  <2>1. IsFiniteSet(T) /\ IsFiniteSet(rest)
    BY FS_Subset
  <2>2. \A b \in T : u[b] \in Int /\ v[b] \in Int /\ w[b] \in Int
    OBVIOUS
  <2>3. /\ SumOver(T, u) = u[a] + U
        /\ SumOver(T, v) = v[a] + V
        /\ SumOver(T, w) = w[a] + W
    BY <2>1, <2>2, SumRemove
  <2>4. U \in Int /\ V \in Int /\ W \in Int
    BY <2>1, <2>2, SumInt
  <2>5. W = U + c * V
    BY <1>2
  <2> HIDE DEF rest, U, V, W
  <2>6. c * (v[a] + V) = c * v[a] + c * V
    BY <2>2, <2>4
  <2>7. SumOver(T, w) = SumOver(T, u) + c * SumOver(T, v)
    BY <2>2, <2>3, <2>4, <2>5, <2>6
  <2> QED BY <2>7
<1> HIDE DEF Good
<1>3. S \in Good
  BY <1>1, <1>2, MemberInduction
<1> QED BY <1>3 DEF Good

(* Only the amounts of the members count. *)
THEOREM SumSame ==
  ASSUME NEW S, IsFiniteSet(S), NEW v, NEW w, \A a \in S : v[a] \in Int /\ w[a] = v[a]
  PROVE  SumOver(S, w) = SumOver(S, v)
<1>1. SumOver(S, w) = SumOver(S, v) + 0 * SumOver(S, v)
  <2>1. \A a \in S : v[a] \in Int /\ w[a] = v[a] + 0 * v[a]
    OBVIOUS
  <2> QED BY <2>1, SumLinear
<1>2. SumOver(S, v) \in Int
  BY SumInt
<1> QED BY <1>1, <1>2

(* Zeros sum to zero. *)
THEOREM SumZero ==
  ASSUME NEW S, IsFiniteSet(S), NEW v, \A a \in S : v[a] = 0
  PROVE  SumOver(S, v) = 0
<1>1. SumOver(S, v) = SumOver(S, v) + 1 * SumOver(S, v)
  BY SumLinear
<1>2. SumOver(S, v) \in Int
  BY SumInt
<1> QED BY <1>1, <1>2, SMTT(40)

(* Larger amounts sum to no less. *)
THEOREM SumMonotone ==
  ASSUME NEW S, IsFiniteSet(S), NEW v, NEW w,
         \A a \in S : v[a] \in Int /\ w[a] \in Int /\ v[a] <= w[a]
  PROVE  SumOver(S, v) <= SumOver(S, w)
<1> DEFINE Good == {T \in SUBSET S : SumOver(T, v) <= SumOver(T, w)}
<1>1. {} \in Good
  BY SumEmpty
<1>2. ASSUME NEW T \in SUBSET S, NEW a \in T, T \ {a} \in Good PROVE T \in Good
  <2> DEFINE rest == T \ {a}
  <2>1. IsFiniteSet(T) /\ IsFiniteSet(rest)
    BY FS_Subset
  <2>2. \A b \in T : v[b] \in Int /\ w[b] \in Int
    OBVIOUS
  <2>3. SumOver(T, v) = v[a] + SumOver(rest, v) /\ SumOver(T, w) = w[a] + SumOver(rest, w)
    BY <2>1, <2>2, SumRemove
  <2>4. SumOver(rest, v) \in Int /\ SumOver(rest, w) \in Int
    BY <2>1, <2>2, SumInt
  <2>5. v[a] <= w[a] /\ SumOver(rest, v) <= SumOver(rest, w)
    BY <1>2
  <2> HIDE DEF rest
  <2>6. SumOver(T, v) <= SumOver(T, w)
    BY <2>2, <2>3, <2>4, <2>5
  <2> QED BY <2>6
<1> HIDE DEF Good
<1>3. S \in Good
  BY <1>1, <1>2, MemberInduction
<1> QED BY <1>3 DEF Good

(* Natural numbers sum to a natural number. *)
THEOREM SumNat ==
  ASSUME NEW S, IsFiniteSet(S), NEW v, \A a \in S : v[a] \in Nat
  PROVE  SumOver(S, v) \in Nat
<1> DEFINE none == [a \in S |-> 0]
<1>1. SumOver(S, none) = 0 /\ SumOver(S, v) \in Int
  BY SumZero, SumInt
<1>2. SumOver(S, none) <= SumOver(S, v)
  BY SumMonotone
<1> QED BY <1>1, <1>2

(* Changing the amount of one member. *)
THEOREM SumChange ==
  ASSUME NEW S, IsFiniteSet(S), NEW v, NEW w, NEW a \in S,
         \A b \in S : v[b] \in Int /\ w[b] \in Int /\ (b # a => w[b] = v[b])
  PROVE  SumOver(S, w) = SumOver(S, v) + (w[a] - v[a])
<1> DEFINE rest == S \ {a}
<1>1. IsFiniteSet(rest)
  BY FS_Subset
<1>2. SumOver(S, v) = v[a] + SumOver(rest, v) /\ SumOver(S, w) = w[a] + SumOver(rest, w)
  BY SumRemove
<1>3. SumOver(rest, w) = SumOver(rest, v) /\ SumOver(rest, v) \in Int
  BY <1>1, SumSame, SumInt
<1> HIDE DEF rest
<1> QED BY <1>2, <1>3

(* Adding to the amount of one, member or not. *)
THEOREM SumAdded ==
  ASSUME NEW S, IsFiniteSet(S), NEW v, NEW w, NEW a, NEW d \in Int,
         \A b \in S : v[b] \in Int /\ w[b] = v[b] + (IF b = a THEN d ELSE 0)
  PROVE  SumOver(S, w) = SumOver(S, v) + (IF a \in S THEN d ELSE 0)
<1>1. CASE a \in S
  <2>1. \A b \in S : v[b] \in Int /\ w[b] \in Int /\ (b # a => w[b] = v[b])
    OBVIOUS
  <2>2. SumOver(S, w) = SumOver(S, v) + (w[a] - v[a])
    BY <1>1, <2>1, SumChange
  <2>3. w[a] - v[a] = d
    BY <1>1
  <2> QED BY <1>1, <2>2, <2>3
<1>2. CASE a \notin S
  <2>1. \A b \in S : v[b] \in Int /\ w[b] = v[b]
    BY <1>2
  <2>2. SumOver(S, w) = SumOver(S, v) /\ SumOver(S, v) \in Int
    BY <2>1, SumSame, SumInt
  <2> QED BY <1>2, <2>2
<1> QED BY <1>1, <1>2

(* Members without an amount do not count. *)
THEOREM SumPart ==
  ASSUME NEW S, IsFiniteSet(S), NEW T, T \subseteq S, NEW v,
         \A a \in S : v[a] \in Int /\ (a \notin T => v[a] = 0)
  PROVE  SumOver(S, v) = SumOver(T, v)
<1> DEFINE Good == {U \in SUBSET S : SumOver(U, v) = SumOver(U \cap T, v)}
<1>1. {} \in Good
  BY SumEmpty
<1>2. ASSUME NEW U \in SUBSET S, NEW a \in U, U \ {a} \in Good PROVE U \in Good
  <2>1. IsFiniteSet(U) /\ IsFiniteSet(U \ {a}) /\ IsFiniteSet(U \cap T)
    BY FS_Subset
  <2>2. SumOver(U, v) = v[a] + SumOver(U \ {a}, v) /\ SumOver(U \ {a}, v) \in Int
    BY <2>1, SumRemove, SumInt
  <2>3. SumOver(U \ {a}, v) = SumOver((U \ {a}) \cap T, v)
    BY <1>2
  <2>4. CASE a \in T
    <3>1. SumOver(U \cap T, v) = v[a] + SumOver((U \cap T) \ {a}, v)
      BY <2>1, <2>4, SumRemove
    <3>2. (U \cap T) \ {a} = (U \ {a}) \cap T
      OBVIOUS
    <3> QED BY <2>2, <2>3, <3>1, <3>2
  <2>5. CASE a \notin T
    <3>1. (U \ {a}) \cap T = U \cap T /\ v[a] = 0
      BY <2>5
    <3>2. SumOver(U \ {a}, v) = SumOver(U \cap T, v)
      BY <2>3, <3>1
    <3>3. SumOver(U, v) = SumOver(U \cap T, v)
      BY <2>2, <3>1, <3>2
    <3> QED BY <3>3
  <2> QED BY <2>4, <2>5
<1> HIDE DEF Good
<1>3. S \in Good /\ S \cap T = T
  BY <1>1, <1>2, MemberInduction
<1> QED BY <1>3 DEF Good

(* An amount is part of the sum of natural amounts. *)
THEOREM SumMember ==
  ASSUME NEW S, IsFiniteSet(S), NEW v, \A b \in S : v[b] \in Nat, NEW a \in S
  PROVE  v[a] <= SumOver(S, v)
<1> DEFINE rest == S \ {a}
<1>1. IsFiniteSet(rest) /\ \A b \in rest : v[b] \in Nat
  BY FS_Subset
<1>2. SumOver(rest, v) \in Nat
  BY <1>1, SumNat
<1>3. SumOver(S, v) = v[a] + SumOver(rest, v)
  BY SumRemove
<1> HIDE DEF rest
<1> QED BY <1>2, <1>3
-----------------------------------------------------------------------------
(* Whole numbers. *)

(* Induction over the natural numbers, by induction over the subsets of    *)
(* each 0..n.                                                              *)
LEMMA NatSteps ==
  ASSUME NEW Good, 0 \in Good, \A n \in Nat : n \in Good => n + 1 \in Good
  PROVE  Nat \subseteq Good
<1> SUFFICES ASSUME NEW n \in Nat PROVE n \in Good
  OBVIOUS
<1> DEFINE S == 0..n
           Fine == {T \in SUBSET S : \A m \in S : T = 0..m => m \in Good}
<1>1. ASSUME NEW T \in SUBSET S, \A U \in SUBSET T : U # T => U \in Fine
      PROVE  T \in Fine
  <2> SUFFICES ASSUME NEW m \in 0..n, T = 0..m PROVE m \in Good
    OBVIOUS
  <2>1. CASE m = 0
    BY <2>1
  <2>2. CASE m # 0
    <3>1. /\ m - 1 \in 0..n /\ m - 1 \in Nat /\ (m - 1) + 1 = m
          /\ 0..(m - 1) \subseteq T /\ m \in T /\ m \notin 0..(m - 1)
      BY <2>2
    <3>2. 0..(m - 1) \in SUBSET T /\ 0..(m - 1) # T
      BY <3>1
    <3>3. 0..(m - 1) \in Fine
      BY <1>1, <3>2
    <3>4. m - 1 \in Good
      BY <3>1, <3>3
    <3> QED BY <3>1, <3>4
  <2> QED BY <2>1, <2>2
<1>2. IsFiniteSet(S)
  BY FS_Interval
<1> HIDE DEF Fine, S
<1>3. SUBSET S \subseteq Fine
  BY <1>1, <1>2, SubsetInduction
<1>4. 0..n \in Fine /\ n \in S
  BY <1>3 DEF S
<1> QED BY <1>4 DEF Fine

(* The first of some numbers. *)
LEMMA HasFirst ==
  ASSUME NEW N, N \subseteq Nat, N # {}
  PROVE  \E n \in N : \A m \in N : n <= m
<1> SUFFICES ASSUME \A n \in N : \E m \in N : m < n PROVE FALSE
  OBVIOUS
<1> DEFINE Good == {n \in Nat : \A m \in N : n <= m}
<1>1. 0 \in Good
  OBVIOUS
<1>2. \A n \in Nat : n \in Good => n + 1 \in Good
  <2> SUFFICES ASSUME NEW n \in Nat, \A m \in N : n <= m, NEW m \in N PROVE n + 1 <= m
    OBVIOUS
  <2>1. n # m
    OBVIOUS
  <2> QED BY <2>1
<1> HIDE DEF Good
<1>3. Nat \subseteq Good
  BY <1>1, <1>2, NatSteps
<1>4. PICK n \in N : TRUE
  OBVIOUS
<1>5. n + 1 \in Good
  BY <1>3, <1>4
<1> QED BY <1>4, <1>5 DEF Good

(* Squares grow. *)
LEMMA Squares ==
  ASSUME NEW a \in Nat, NEW b \in Nat, a <= b
  PROVE  a * a \in Nat /\ b * b \in Nat /\ a * a <= b * b
<1>1. a * a <= a * b /\ a * b <= b * b
  BY SMT
<1> QED BY <1>1, SMT

LEMMA NextSquare ==
  ASSUME NEW a \in Nat
  PROVE  (a + 1) * (a + 1) = (a * a + a + a) + 1 /\ a * a \in Nat
BY SMT

IsRoot(r, y) == r * r <= y /\ y < (r + 1) * (r + 1)

(* Every number has a whole square root, *)
LEMMA RootExists == \A y \in Nat : \E r \in 0..y : IsRoot(r, y)
<1> DEFINE Good == {y \in Nat : \E r \in 0..y : IsRoot(r, y)}
<1>1. 0 \in Good
  BY DEF IsRoot
<1>2. ASSUME NEW y \in Nat, y \in Good PROVE y + 1 \in Good
  <2>1. PICK r \in 0..y : IsRoot(r, y)
    BY <1>2
  <2>2. r \in Nat /\ r + 1 \in Nat /\ r \in 0..(y + 1) /\ r + 1 \in 0..(y + 1)
    OBVIOUS
  <2> DEFINE sq == r * r
             up == (r + 1) * (r + 1)
             upper == ((r + 1) + 1) * ((r + 1) + 1)
  <2>3. sq \in Nat /\ up \in Nat /\ upper = (up + (r + 1) + (r + 1)) + 1
    BY <2>2, NextSquare, Squares
  <2>4. sq <= y /\ y < up
    BY <2>1 DEF IsRoot
  <2> HIDE DEF sq, up, upper
  <2>5. \/ sq <= y + 1 /\ y + 1 < up
        \/ up <= y + 1 /\ y + 1 < upper
    BY <2>2, <2>3, <2>4
  <2>6. IsRoot(r, y + 1) \/ IsRoot(r + 1, y + 1)
    BY <2>5 DEF IsRoot, sq, up, upper
  <2> QED BY <2>2, <2>6
<1> HIDE DEF Good
<1>3. Nat \subseteq Good
  BY <1>1, <1>2, NatSteps
<1> QED BY <1>3 DEF Good

(* and only one. *)
LEMMA RootOnce ==
  ASSUME NEW y \in Nat, NEW r \in Nat, NEW s \in Nat, IsRoot(r, y), IsRoot(s, y)
  PROVE  r = s
<1>1. ASSUME NEW a \in Nat, NEW b \in Nat, IsRoot(a, y), IsRoot(b, y) PROVE ~(a < b)
  <2> SUFFICES ASSUME a < b PROVE FALSE
    OBVIOUS
  <2>1. a + 1 \in Nat /\ a + 1 <= b
    OBVIOUS
  <2> DEFINE up == (a + 1) * (a + 1)
             sq == b * b
  <2>2. up \in Nat /\ sq \in Nat /\ up <= sq
    BY <2>1, Squares
  <2>3. y < up /\ sq <= y
    BY <1>1 DEF IsRoot
  <2> HIDE DEF up, sq
  <2> QED BY <2>2, <2>3
<1>2. ~(r < s) /\ ~(s < r)
  BY <1>1
<1> QED BY <1>2

(* Products. *)
LEMMA Products ==
  /\ \A a, b \in Nat : a * b \in Nat
  /\ \A a \in Nat, b, c \in Int : b <= c => a * b <= a * c
  /\ \A a, b, c \in Int : a * (b + c) = a * b + a * c
  /\ \A a, b, c \in Int : a * (b - c) = a * b - a * c
  /\ \A a, b \in Int : a * b = b * a
OBVIOUS

LEMMA ProductMono ==
  ASSUME NEW a \in Nat, NEW b \in Nat, NEW c \in Nat, NEW d \in Nat, a <= c, b <= d
  PROVE  a * b <= c * d
<1>1. a * b <= a * d
  BY Products
<1>2. d * a <= d * c
  BY Products
<1>3. d * a = a * d /\ d * c = c * d
  BY Products
<1> QED BY <1>1, <1>2, <1>3

(* Multiplying by a positive number keeps only an order that was there. *)
LEMMA Cancel ==
  ASSUME NEW a \in Int, NEW b \in Int, NEW c \in Nat, 0 < c, c * a <= c * b
  PROVE  a <= b
<1>1. SUFFICES ASSUME b < a PROVE FALSE
  OBVIOUS
<1>2. b + 1 <= a
  BY <1>1
<1>3. c * (b + 1) <= c * a
  BY <1>2, Products
<1>4. c * (b + 1) = c * b + c
  OBVIOUS
<1> QED BY <1>3, <1>4

-----------------------------------------------------------------------------
(* Pools and their shares. *)

(* A rounded quotient, multiplied back, is at most what was divided. *)
LEMMA QuotientBack ==
  ASSUME NEW a \in Nat, NEW b \in Nat, b > 0
  PROVE  a \div b \in Nat /\ (a \div b) * b <= a /\ a < (a \div b) * b + b
BY SMT

(* Two sides that each keep their share keep it as a product. *)
LEMMA ScaledProduct ==
  ASSUME NEW x \in Nat, NEW y \in Nat, NEW x2 \in Nat, NEW y2 \in Nat,
         NEW s \in Nat, NEW s2 \in Nat,
         x * s2 <= x2 * s, y * s2 <= y2 * s
  PROVE  (x * y) * (s2 * s2) <= (x2 * y2) * (s * s)
<1> DEFINE a == x * s2
           b == y * s2
           c == x2 * s
           d == y2 * s
<1>1. a \in Nat /\ b \in Nat /\ c \in Nat /\ d \in Nat /\ a <= c /\ b <= d
  BY SMT
<1>2. a * b = (x * y) * (s2 * s2) /\ c * d = (x2 * y2) * (s * s)
  BY Z3
<1> HIDE DEF a, b, c, d
<1>3. a * b <= a * d /\ a * d <= c * d /\ a * b \in Nat /\ a * d \in Nat /\ c * d \in Nat
  BY <1>1, SMT
<1>4. a * b <= c * d
  BY <1>3
<1> QED BY <1>2, <1>4

(* What is added to one side of a pool buys at most its part of it, *)
LEMMA ShareBought ==
  ASSUME NEW reserve \in Nat, reserve > 0, NEW amount \in Nat, NEW supply \in Nat,
         NEW shares \in Nat, shares <= (amount * supply) \div reserve
  PROVE  reserve * (supply + shares) <= (reserve + amount) * supply
<1> DEFINE w == amount * supply
           q == w \div reserve
           u == shares * reserve
           v == reserve * supply
<1>1. w \in Nat /\ u \in Nat /\ v \in Nat
  BY SMT
<1>2. /\ reserve * (supply + shares) = v + u
      /\ (reserve + amount) * supply = v + w
  BY Z3
<1>3. shares <= q
  OBVIOUS
<1> HIDE DEF w
<1>4. q \in Nat /\ q * reserve <= w
  BY <1>1, QuotientBack
<1> HIDE DEF q
<1>5. shares * reserve <= q * reserve /\ q * reserve \in Nat
  BY <1>3, <1>4, SMT
<1>6. u <= w
  BY <1>1, <1>4, <1>5
<1> HIDE DEF u, v
<1>7. v + u <= v + w
  BY <1>1, <1>6
<1> QED BY <1>2, <1>7

(* and what is paid out of it for shares leaves the others theirs. *)
LEMMA ShareSold ==
  ASSUME NEW balance \in Nat, NEW supply \in Nat, supply > 0,
         NEW shares \in Nat, shares <= supply,
         NEW amount, amount = (shares * balance) \div supply
  PROVE  /\ amount \in Nat /\ amount <= balance
         /\ balance * (supply - shares) <= (balance - amount) * supply
         /\ balance > 0 /\ shares < supply => amount < balance
<1> DEFINE w == shares * balance
           v == supply * balance
           u == amount * supply
           left == balance - amount
           rest == supply - shares
<1>1. w \in Nat /\ v \in Nat /\ w <= v
  BY SMT
<1>2. amount \in Nat /\ u <= w
  <2>1. amount = w \div supply
    OBVIOUS
  <2> HIDE DEF w
  <2> QED BY <1>1, <2>1, QuotientBack
<1>3. u \in Nat
  BY <1>2, SMT
<1>4. amount <= balance
  <2> SUFFICES ASSUME balance + 1 <= amount PROVE FALSE
    BY <1>2
  <2>1. (balance + 1) * supply <= amount * supply /\ (balance + 1) * supply = v + supply
    BY <1>2, SMT
  <2> HIDE DEF u, v, w
  <2> QED BY <1>1, <1>2, <1>3, <2>1 DEF u
<1>5. balance > 0 /\ shares < supply => amount < balance
  <2> SUFFICES ASSUME balance > 0, shares < supply, amount = balance PROVE FALSE
    BY <1>2, <1>4
  <2>1. shares * balance < supply * balance
    BY SMT
  <2>2. u = v
    BY <1>2, SMT
  <2> HIDE DEF u, v, w
  <2> QED BY <1>1, <1>2, <1>3, <2>1, <2>2 DEF v, w
<1>6. left \in Nat /\ rest \in Nat
  BY <1>2, <1>4
<1>7. balance * rest = v - w /\ left * supply = v - u
  BY <1>2, Z3
<1> HIDE DEF u, v, w
<1>8. v - w <= v - u
  BY <1>1, <1>2, <1>3
<1> QED BY <1>2, <1>4, <1>5, <1>7, <1>8

-----------------------------------------------------------------------------
(* Swaps, as numbers: reserves, what a swap leaves, and a fee on what came *)
(* in.                                                                     *)

(* A balance less the fee on a part of it is at most the balance. *)
LEMMA AfterFee ==
  ASSUME NEW fee \in Nat, NEW base \in Nat, fee <= base,
         NEW b \in Nat, NEW in \in Nat, in <= b
  PROVE  /\ b * base - in * fee \in Nat
         /\ b * base - in * fee <= base * b
<1>1. in * fee <= b * base
  BY ProductMono
<1>2. in * fee \in Nat /\ b * base \in Nat
  BY Products
<1>3. b * base = base * b
  BY Products
<1> QED BY <1>1, <1>2, <1>3

(* Balances that make up a product after the fee make it up before. *)
LEMMA FeeKeepsProduct ==
  ASSUME NEW fee \in Nat, NEW base \in Nat, fee < base,
         NEW b0 \in Nat, NEW b1 \in Nat, NEW k \in Nat,
         NEW in0 \in 0..b0, NEW in1 \in 0..b1,
         (b0 * base - in0 * fee) * (b1 * base - in1 * fee) >= k * base * base
  PROVE  k <= b0 * b1
<1> DEFINE adj0 == b0 * base - in0 * fee
           adj1 == b1 * base - in1 * fee
<1>1. adj0 * adj1 >= k * base * base
  OBVIOUS
<1>2. adj0 \in Nat /\ adj0 <= base * b0 /\ adj1 \in Nat /\ adj1 <= base * b1
  BY AfterFee
<1> HIDE DEF adj0, adj1
<1>3. base * b0 \in Nat /\ base * b1 \in Nat /\ b0 * b1 \in Nat
  BY Products
<1>4. adj0 * adj1 <= (base * b0) * (base * b1)
  BY <1>2, <1>3, ProductMono
<1>5. /\ (base * b0) * (base * b1) = base * (base * (b0 * b1))
      /\ k * base * base = base * (base * k)
  BY Z3
<1>6. /\ adj0 * adj1 \in Nat
      /\ base * (b0 * b1) \in Nat /\ base * k \in Nat
      /\ base * (base * (b0 * b1)) \in Nat /\ base * (base * k) \in Nat
  BY <1>2, <1>3, Products
<1>7. base * (base * k) <= base * (base * (b0 * b1))
  BY <1>1, <1>4, <1>5, <1>6
<1>8. base * k <= base * (b0 * b1)
  BY <1>6, <1>7, Cancel
<1> QED BY <1>3, <1>6, <1>8, Cancel

(* What a constant-product quote gives is below the reserve, and the       *)
(* reserves it leaves, less the fee, make up the product there was.        *)
LEMMA QuoteKeeps ==
  ASSUME NEW fee \in Nat, NEW base \in Nat, fee < base,
         NEW a \in Nat, NEW rIn \in Nat, NEW rOut \in Nat, a > 0, rIn > 0, rOut > 0
  PROVE  LET out == (a * (base - fee) * rOut) \div (rIn * base + a * (base - fee))
         IN  /\ out \in Nat /\ out < rOut
             /\ ((rIn + a) * base - a * fee) * ((rOut - out) * base)
                  >= rIn * rOut * base * base
<1> DEFINE net  == a * (base - fee)
           d    == rIn * base + net
           out  == (a * (base - fee) * rOut) \div (rIn * base + a * (base - fee))
<1>1. fee \in Nat /\ base \in Nat /\ base > 0 /\ base - fee \in Nat /\ base - fee > 0
  OBVIOUS
<1>2. net \in Nat
  BY <1>1, Products
<1>3. rIn * base \in Nat /\ rIn * base > 0
  BY <1>1, Cancel, Products, Z3
<1>4. d \in Nat /\ d > 0 /\ d = rIn * base + net
  BY <1>2, <1>3
<1>5. net * rOut \in Nat
  BY <1>2, Products
<1>6. out = (net * rOut) \div d
  OBVIOUS
<1>7. (rIn + a) * base - a * fee = d
  BY <1>1, Z3
<1> HIDE DEF net, d, out
<1>8. out \in Nat /\ out * d <= net * rOut
  BY <1>4, <1>5, <1>6, QuotientBack
<1>9. out < rOut
  <2>1. SUFFICES ASSUME rOut <= out PROVE FALSE
    BY <1>8
  <2>2. d * rOut <= d * out
    BY <1>4, <1>8, <2>1, Products
  <2>3. d * rOut = (rIn * base) * rOut + net * rOut /\ d * out = out * d
    BY <1>2, <1>3, <1>4, <1>8
  <2>4. (rIn * base) * rOut > 0
    BY <1>3, Z3
  <2>5. /\ d * rOut \in Nat /\ out * d \in Nat /\ (rIn * base) * rOut \in Nat
    BY <1>3, <1>4, <1>8, Products
  <2> QED BY <1>5, <1>8, <2>2, <2>3, <2>4, <2>5
<1>10. (rIn * base) * rOut <= d * (rOut - out)
  <2>1. d * (rOut - out) = d * rOut - out * d
    BY <1>4, <1>8
  <2>2. d * rOut = (rIn * base) * rOut + net * rOut
    BY <1>2, <1>3, <1>4
  <2>3. d * rOut \in Nat /\ out * d \in Nat /\ (rIn * base) * rOut \in Nat
    BY <1>3, <1>4, <1>8, Products
  <2> QED BY <1>5, <1>8, <2>1, <2>2, <2>3
<1>11. base * ((rIn * base) * rOut) <= base * (d * (rOut - out))
  BY <1>1, <1>3, <1>4, <1>8, <1>9, <1>10, Products
<1>12. /\ base * ((rIn * base) * rOut) = rIn * rOut * base * base
       /\ base * (d * (rOut - out)) = d * ((rOut - out) * base)
  BY <1>1, <1>4, <1>8, Z3
<1>13. d * ((rOut - out) * base) >= rIn * rOut * base * base
  BY <1>11, <1>12
<1> QED BY <1>7, <1>8, <1>9, <1>13 DEF out

-----------------------------------------------------------------------------
(* Roots by Newton's iteration. *)

(* One step of Newton's iteration. *)
Descent(y, x) == (y \div x + x) \div 2

(* Newton's iteration as a function on 1..m: what _sqrt's loop returns     *)
(* when it is at x.                                                        *)
Descends(f, y, m) ==
  f = [x \in 1..m |-> IF Descent(y, x) < x THEN f[Descent(y, x)] ELSE x]

LEMMA DescentType ==
  ASSUME NEW y \in Nat, y > 0, NEW x \in Nat, x > 0
  PROVE  Descent(y, x) \in Nat /\ Descent(y, x) > 0
<1> DEFINE q == y \div x
<1>1. q \in Nat
  BY QuotientBack
<1>2. q + x >= 2
  <2>1. CASE x >= 2
    BY <1>1, <2>1
  <2>2. CASE x = 1
    <3>1. q = y
      BY <2>2
    <3> QED BY <2>2, <3>1
  <2> QED BY <2>1, <2>2
<1> HIDE DEF q
<1>3. (q + x) \div 2 \in Nat /\ (q + x) \div 2 > 0
  BY <1>1, <1>2
<1> QED BY <1>3 DEF Descent, q

(* The loop ends, wherever it starts. *)
LEMMA DescendsExists ==
  ASSUME NEW y \in Nat, y > 0
  PROVE  \A m \in Nat : \E f : Descends(f, y, m)
<1> DEFINE Good == {m \in Nat : \E f : Descends(f, y, m)}
<1>1. 0 \in Good
  <2>1. Descends([x \in 1..0 |-> 0], y, 0)
    BY DEF Descends
  <2> QED BY <2>1
<1>2. ASSUME NEW m \in Nat, m \in Good PROVE m + 1 \in Good
  <2>1. PICK f : Descends(f, y, m)
    BY <1>2
  <2> DEFINE n == m + 1
             g == [x \in 1..n |-> IF Descent(y, x) < x THEN f[Descent(y, x)] ELSE x]
  <2>2. \A x \in 1..n : Descent(y, x) \in Nat /\ Descent(y, x) > 0
    BY DescentType
  <2>3. \A x \in 1..m : f[x] = IF Descent(y, x) < x THEN f[Descent(y, x)] ELSE x
    BY <2>1 DEF Descends
  <2>4. \A x \in 1..m : x \in 1..n
    OBVIOUS
  <2>5. \A x \in 1..m : g[x] = f[x]
    BY <2>3, <2>4
  <2>6. \A x \in 1..n : Descent(y, x) < x => Descent(y, x) \in 1..m
    BY <2>2
  <2>7. \A x \in 1..n : Descent(y, x) < x => g[Descent(y, x)] = f[Descent(y, x)]
    BY <2>5, <2>6
  <2>8. g = [x \in 1..n |-> IF Descent(y, x) < x THEN g[Descent(y, x)] ELSE x]
    BY <2>7
  <2> HIDE DEF g
  <2>9. Descends(g, y, n)
    BY <2>8 DEF Descends
  <2> QED BY <2>9
<1> HIDE DEF Good
<1>3. Nat \subseteq Good
  BY <1>1, <1>2, NatSteps
<1> QED BY <1>3 DEF Good

(* A step down from a number that is not below the root is not below it, *)
LEMMA DescentStays ==
  ASSUME NEW y \in Nat, y > 0, NEW x \in Nat, x > 0
  PROVE  y < (Descent(y, x) + 1) * (Descent(y, x) + 1)
<1> DEFINE q == y \div x
           s == (q + 1) + x
           d == Descent(y, x)
           e == d + 1
           k == (q + 1) * x
           diff == (q + 1) - x
<1>1. q \in Nat /\ y < q * x + x /\ q * x \in Nat
  BY QuotientBack, SMT
<1>2. k = q * x + x /\ k \in Nat
  BY <1>1, SMT
<1> HIDE DEF q
<1>3. d \in Nat /\ 2 * e >= s
  <2>1. (q + x) \div 2 \in Nat /\ 2 * ((q + x) \div 2) + 1 >= q + x
    BY <1>1
  <2>2. d = (q + x) \div 2
    BY DEF Descent, q
  <2> QED BY <1>1, <2>1, <2>2
<1> HIDE DEF d
<1>4. s * s <= (2 * e) * (2 * e)
  BY <1>1, <1>3, Squares
<1>5. (2 * e) * (2 * e) = 4 * (e * e)
  BY <1>3, Z3
<1>6. s * s = 4 * k + diff * diff
  BY <1>1, Z3
<1>7. diff * diff >= 0 /\ diff * diff \in Int /\ e * e \in Nat /\ s * s \in Nat
  BY <1>1, <1>3, SMT
<1>8. y < e * e
  <2> DEFINE ee == e * e
             dd == diff * diff
             ss == s * s
  <2>1. ss <= 4 * ee /\ ss = 4 * k + dd /\ dd >= 0 /\ dd \in Int /\ ee \in Nat /\ ss \in Nat
    BY <1>4, <1>5, <1>6, <1>7
  <2>2. y < k
    BY <1>1, <1>2
  <2> HIDE DEF ee, dd, ss, k
  <2>3. y < ee
    BY <1>2, <2>1, <2>2
  <2> QED BY <2>3 DEF ee
<1> QED BY <1>8 DEF d

(* and where it stops descending, it is the root. *)
LEMMA DescentStops ==
  ASSUME NEW y \in Nat, y > 0, NEW x \in Nat, x > 0, Descent(y, x) >= x,
         y < (x + 1) * (x + 1)
  PROVE  IsRoot(x, y)
<1> DEFINE q == y \div x
<1>1. q \in Nat /\ q * x <= y
  BY QuotientBack
<1> HIDE DEF q
<1>2. q >= x
  <2>1. (q + x) \div 2 >= x
    BY DEF Descent, q
  <2> QED BY <1>1, <2>1
<1>3. x * x <= q * x /\ x * x \in Nat /\ q * x \in Nat
  BY <1>1, <1>2, SMT
<1> QED BY <1>1, <1>3 DEF IsRoot

LEMMA DescendsToRoot ==
  ASSUME NEW y \in Nat, y > 0, NEW m \in Nat, NEW f, Descends(f, y, m),
         NEW x \in 1..m, y < (x + 1) * (x + 1)
  PROVE  f[x] \in Nat /\ IsRoot(f[x], y)
<1> DEFINE Lands(z) == y < (z + 1) * (z + 1) => f[z] \in Nat /\ IsRoot(f[z], y)
           Good == {n \in Nat : \A z \in 1..m : z <= n => Lands(z)}
<1>1. 0 \in Good
  OBVIOUS
<1>2. ASSUME NEW n \in Nat, n \in Good PROVE n + 1 \in Good
  <2>1. SUFFICES ASSUME NEW z \in 1..m, z = n + 1, y < (z + 1) * (z + 1)
                 PROVE  f[z] \in Nat /\ IsRoot(f[z], y)
    BY <1>2
  <2> DEFINE d == Descent(y, z)
  <2>2. f[z] = IF d < z THEN f[d] ELSE z
    BY DEF Descends
  <2>3. z \in Nat /\ z > 0 /\ d \in Nat /\ d > 0
    BY DescentType
  <2>4. CASE d < z
    <3>1. y < (d + 1) * (d + 1)
      BY <2>3, DescentStays
    <3> HIDE DEF d
    <3>2. d \in 1..m /\ d <= n
      BY <2>1, <2>3, <2>4
    <3>3. Lands(d)
      BY <1>2, <3>2
    <3> QED BY <2>2, <2>4, <3>1, <3>3
  <2>5. CASE ~(d < z)
    <3>1. IsRoot(z, y)
      BY <2>1, <2>3, <2>5, DescentStops
    <3> QED BY <2>2, <2>3, <2>5, <3>1
  <2> QED BY <2>4, <2>5
<1> HIDE DEF Good, Lands
<1>3. Nat \subseteq Good
  BY <1>1, <1>2, NatSteps
<1>4. x \in Nat /\ x <= x
  OBVIOUS
<1>5. Lands(x)
  BY <1>3, <1>4 DEF Good
<1> QED BY <1>5 DEF Lands

(* The iteration from above the root is the root. *)
Newton(y) == (CHOOSE f : Descends(f, y, y \div 2 + 1))[y \div 2 + 1]

LEMMA NewtonRoot ==
  ASSUME NEW y \in Nat, y > 3
  PROVE  Newton(y) \in Nat /\ IsRoot(Newton(y), y)
<1> DEFINE m == y \div 2 + 1
           f == CHOOSE g : Descends(g, y, m)
<1>1. Newton(y) = f[m]
  BY DEF Newton
<1>2. m \in Nat /\ m > 0 /\ y < (m + 1) * (m + 1)
  <2> DEFINE h == y \div 2
  <2>1. h \in Nat /\ y <= 2 * h + 1
    OBVIOUS
  <2> HIDE DEF h
  <2>2. 2 * h + 1 < ((h + 1) + 1) * ((h + 1) + 1)
    BY <2>1, Z3
  <2>3. ((h + 1) + 1) * ((h + 1) + 1) \in Nat
    BY <2>1, Squares
  <2> QED BY <2>1, <2>2, <2>3 DEF h
<1>3. Descends(f, y, m)
  BY <1>2, DescendsExists
<1> HIDE DEF f, m
<1>4. m \in 1..m
  BY <1>2
<1>5. f[m] \in Nat /\ IsRoot(f[m], y)
  BY <1>2, <1>3, <1>4, DescendsToRoot
<1> QED BY <1>1, <1>5

-----------------------------------------------------------------------------
(* The curve and the launch pool *)

(* Whole-number division, as an interval for the dividend. *)
LEMMA DivBounds ==
  ASSUME NEW a \in Int, NEW b \in Nat, b > 0
  PROVE  /\ a \div b \in Int
         /\ (a \div b) * b <= a
         /\ a < (a \div b + 1) * b
BY Z3

(* Multiplying by a natural number keeps an order, *)
LEMMA MulMono ==
  ASSUME NEW a \in Int, NEW b \in Int, NEW c \in Nat, a <= b
  PROVE  a * c <= b * c
BY Z3

(* and only an order that was there. *)
LEMMA MulCancel ==
  ASSUME NEW a \in Int, NEW b \in Int, NEW c \in Nat, a * c < b * c
  PROVE  a < b
BY MulMono, Z3

(* A rounded-up quotient is the least whole number that covers the dividend. *)
LEMMA DivCeilBounds ==
  ASSUME NEW a \in Int, NEW b \in Nat, b > 0
  PROVE  /\ DivCeil(a, b) \in Int
         /\ a <= DivCeil(a, b) * b
         /\ (DivCeil(a, b) - 1) * b < a
BY DivBounds, Z3 DEF DivCeil

(* ... and no smaller number covers it. *)
LEMMA DivCeilLeast ==
  ASSUME NEW a \in Int, NEW b \in Nat, b > 0, NEW c \in Int, a <= c * b
  PROVE  DivCeil(a, b) <= c
<1> DEFINE d == DivCeil(a, b)
<1>1. d \in Int /\ (d - 1) * b < a
  BY DivCeilBounds
<1> HIDE DEF d
<1>2. (d - 1) * b < c * b
  BY <1>1
<1>3. d - 1 < c
  BY <1>1, <1>2, MulCancel
<1> QED BY <1>1, <1>3 DEF d

(* The quotient of natural numbers stays one. *)
LEMMA DivCeilNat ==
  ASSUME NEW a \in Nat, NEW b \in Nat, b > 0
  PROVE  DivCeil(a, b) \in Nat
<1> DEFINE d == DivCeil(a, b)
<1>1. d \in Int /\ a <= d * b
  BY DivCeilBounds
<1> HIDE DEF d
<1>2. (-1) * b < d * b
  BY <1>1
<1>3. -1 < d
  BY <1>1, <1>2, MulCancel
<1> QED BY <1>1, <1>3 DEF d

(* A rounded-up fee is a natural number and covers its rate. *)
LEMMA FeeOnBounds ==
  ASSUME NEW amount \in Nat, NEW bps \in Nat
  PROVE  /\ FeeRoundedUp(amount, bps) \in Nat
         /\ amount * bps <= FeeRoundedUp(amount, bps) * BPS
<1> DEFINE p == amount * bps
<1>1. p \in Nat
  OBVIOUS
<1> HIDE DEF p
<1>2. DivCeil(p, BPS) \in Nat /\ p <= DivCeil(p, BPS) * BPS
  BY <1>1, DivCeilNat, DivCeilBounds, FeeAssumption
<1> QED BY <1>2 DEF FeeRoundedUp, p

(* What every buy the code accepts does, whichever branch computes it. *)
BuyFacts(q, vUsdc, vTokens, remaining, usdcIn) ==
  /\ q.tokensOut \in Nat /\ 0 < q.tokensOut /\ q.tokensOut <= remaining
  /\ q.platformFee \in Nat
  /\ q.creatorFee \in Nat
  /\ q.usdcSpent \in Nat /\ q.usdcSpent <= usdcIn
  /\ q.platformFee + q.creatorFee <= q.usdcSpent
  /\ (vUsdc + (q.usdcSpent - q.platformFee - q.creatorFee)) * (vTokens - q.tokensOut)
       >= vUsdc * vTokens
  /\ q.graduates \in BOOLEAN
  /\ q.graduates <=> q.tokensOut = remaining

(* A buy that does not empty the curve: what is left of the tokens is what *)
(* the product rule needs.                                                 *)
LEMMA NormalBuyFacts ==
  ASSUME NEW vUsdc \in Nat, NEW vTokens \in Nat, NEW usdcIn \in Nat, NEW fee \in Nat,
         NEW q, q = NormalBuy(vUsdc, vTokens, usdcIn, fee), q.ok, 0 < vUsdc
  PROVE  /\ q.tokensOut \in Nat /\ 0 < q.tokensOut
         /\ q.platformFee = FeeRoundedUp(usdcIn, FEE_BPS) /\ q.platformFee \in Nat
         /\ q.creatorFee = FeeRoundedUp(usdcIn, fee) /\ q.creatorFee \in Nat
         /\ q.platformFee + q.creatorFee < usdcIn
         /\ q.usdcSpent = usdcIn
         /\ q.graduates = FALSE
         /\ (vUsdc + (usdcIn - q.platformFee - q.creatorFee)) * (vTokens - q.tokensOut)
              >= vUsdc * vTokens
<1> DEFINE pf == FeeRoundedUp(usdcIn, FEE_BPS)
           cf == FeeRoundedUp(usdcIn, fee)
           net == usdcIn - pf - cf
           left == DivCeil(vUsdc * vTokens, vUsdc + net)
<1>1. pf \in Nat /\ cf \in Nat
  BY FeeOnBounds, FeeAssumption
<1>2. /\ q.platformFee = pf /\ q.creatorFee = cf
      /\ q.usdcSpent = usdcIn /\ q.graduates = FALSE
      /\ q.tokensOut = IF net > 0 THEN vTokens - left ELSE 0
      /\ q.tokensOut # 0
  BY DEF NormalBuy
<1> HIDE DEF pf, cf
<1>3. net \in Int /\ net > 0
  BY <1>1, <1>2
<1> DEFINE k == vUsdc * vTokens
           s == vUsdc + net
<1>4. k \in Nat /\ s \in Nat /\ s > 0
  BY <1>3
<1>5. k <= vTokens * s
  BY <1>3, MulMono
<1>6. left \in Nat /\ left <= vTokens /\ k <= left * s
  <2> HIDE DEF k, s
  <2>1. DivCeil(k, s) \in Nat
    BY <1>4, DivCeilNat
  <2>2. DivCeil(k, s) <= vTokens
    BY <1>4, <1>5, DivCeilLeast
  <2>3. k <= DivCeil(k, s) * s
    BY <1>4, DivCeilBounds
  <2> QED BY <2>1, <2>2, <2>3 DEF k, s
<1> HIDE DEF left
<1>7. q.tokensOut = vTokens - left /\ q.tokensOut \in Nat
  BY <1>2, <1>3, <1>6
<1>8. vTokens - q.tokensOut = left
  BY <1>6, <1>7
<1>9. (vUsdc + (usdcIn - q.platformFee - q.creatorFee)) * (vTokens - q.tokensOut) >= k
  BY <1>1, <1>2, <1>3, <1>6, <1>8
<1> QED BY <1>1, <1>2, <1>3, <1>7, <1>9 DEF pf, cf

(* The remaining tokens cost no more than the net a normal buy that would  *)
(* take at least that many has offered.                                    *)
LEMMA FillNetBounds ==
  ASSUME NEW vUsdc \in Nat, NEW vTokens \in Nat, NEW remaining \in Nat, NEW net \in Nat,
         remaining < vTokens,
         vUsdc * vTokens <= (vUsdc + net) * (vTokens - remaining)
  PROVE  /\ FillNet(vUsdc, vTokens, remaining) \in Nat
         /\ FillNet(vUsdc, vTokens, remaining) <= net
         /\ (vUsdc + FillNet(vUsdc, vTokens, remaining)) * (vTokens - remaining)
              >= vUsdc * vTokens
<1> DEFINE k == vUsdc * vTokens
           left == vTokens - remaining
           d == DivCeil(k, left)
<1>1. k \in Nat /\ left \in Nat /\ left > 0 /\ left <= vTokens
  OBVIOUS
<1>2. vUsdc * left <= k
  BY <1>1, MulMono
<1>3. k <= (vUsdc + net) * left
  OBVIOUS
<1>4. FillNet(vUsdc, vTokens, remaining) = d - vUsdc
  BY DEF FillNet
<1> HIDE DEF k, left
<1>5. d \in Int /\ k <= d * left /\ (d - 1) * left < k
  BY <1>1, DivCeilBounds
<1>6. d <= vUsdc + net
  BY <1>1, <1>3, DivCeilLeast
<1> HIDE DEF d
<1>7. vUsdc <= d
  <2>1. vUsdc * left < (d + 1) * left
    BY <1>1, <1>2, <1>5
  <2> QED BY <2>1, <1>1, <1>5, MulCancel
<1>8. (vUsdc + (d - vUsdc)) * left >= k
  BY <1>1, <1>5
<1> QED BY <1>4, <1>5, <1>6, <1>7, <1>8 DEF k, left

(* What would be pulled for a net no larger than the one offered is at     *)
(* most what was offered.                                                  *)
LEMMA FillGrossBound ==
  ASSUME NEW usdcIn \in Nat, NEW fees \in Nat, NEW feeBps \in Nat, NEW net \in Nat,
         feeBps < BPS, fees <= usdcIn, net <= usdcIn - fees,
         usdcIn * feeBps <= fees * BPS
  PROVE  /\ FillGross(net, feeBps) \in Nat
         /\ net <= FillGross(net, feeBps)
         /\ FillGross(net, feeBps) <= usdcIn
<1> DEFINE keep == BPS - feeBps
           p == net * feeBps
           extra == DivCeil(p, keep)
<1>1. keep \in Nat /\ keep > 0 /\ p \in Nat
  BY FeeAssumption
<1>2. p <= (usdcIn - net) * keep
  <2>1. (usdcIn - fees) * BPS <= usdcIn * keep
    BY FeeAssumption
  <2>2. net * BPS <= (usdcIn - fees) * BPS
    BY MulMono, FeeAssumption
  <2>3. net * BPS <= usdcIn * keep
    BY <2>1, <2>2, FeeAssumption
  <2>4. net * BPS = net * feeBps + net * keep
    BY FeeAssumption
  <2>5. (usdcIn - net) * keep = usdcIn * keep - net * keep
    BY FeeAssumption
  <2> QED BY <2>3, <2>4, <2>5, FeeAssumption
<1>3. FillGross(net, feeBps) = net + extra
  BY DEF FillGross
<1> HIDE DEF keep, p
<1>4. extra \in Nat
  BY <1>1, DivCeilNat
<1>5. extra <= usdcIn - net
  BY <1>1, <1>2, DivCeilLeast
<1> HIDE DEF extra
<1> QED BY <1>3, <1>4, <1>5

(* The sell-out buy: its price fits in what was offered, before the cap    *)
(* on it (_calcBuy's "gross < usdcIn") has any effect.                     *)
LEMMA ExactFillFacts ==
  ASSUME NEW vUsdc \in Nat, NEW vTokens \in Nat, NEW remaining \in Nat, NEW usdcIn \in Nat,
         NEW fee \in Nat, NEW fees \in Nat, NEW q,
         q = ExactFill(vUsdc, vTokens, remaining, usdcIn, fee),
         0 < remaining, remaining < vTokens, FEE_BPS + fee < BPS,
         fees <= usdcIn, usdcIn * (FEE_BPS + fee) <= fees * BPS,
         vUsdc * vTokens <= (vUsdc + (usdcIn - fees)) * (vTokens - remaining)
  PROVE  /\ BuyFacts(q, vUsdc, vTokens, remaining, usdcIn)
         /\ FillGross(FillNet(vUsdc, vTokens, remaining), FEE_BPS + fee) <= usdcIn
<1> DEFINE feeBps == FEE_BPS + fee
           net == FillNet(vUsdc, vTokens, remaining)
           gross == FillGross(net, feeBps)
           spent == IF gross < usdcIn THEN gross ELSE usdcIn
           total == spent - net
           pf == DivCeil(total * FEE_BPS, feeBps)
<1>1. /\ q.tokensOut = remaining /\ q.usdcSpent = spent
      /\ q.platformFee = pf /\ q.creatorFee = total - pf /\ q.graduates = TRUE
  BY DEF ExactFill
<1>2. feeBps \in Nat /\ 0 < feeBps /\ feeBps < BPS /\ FEE_BPS \in Nat /\ FEE_BPS <= feeBps
  BY FeeAssumption
<1>3. /\ net \in Nat /\ net <= usdcIn - fees
      /\ (vUsdc + net) * (vTokens - remaining) >= vUsdc * vTokens
  <2> DEFINE offered == usdcIn - fees
  <2>1. offered \in Nat
    OBVIOUS
  <2>2. vUsdc * vTokens <= (vUsdc + offered) * (vTokens - remaining)
    OBVIOUS
  <2> HIDE DEF offered
  <2>3. /\ net \in Nat /\ net <= offered
        /\ (vUsdc + net) * (vTokens - remaining) >= vUsdc * vTokens
    BY <2>1, <2>2, FillNetBounds
  <2> QED BY <2>3 DEF offered
<1> HIDE DEF net
<1>4. gross \in Nat /\ net <= gross /\ gross <= usdcIn
  BY <1>2, <1>3, FillGrossBound
<1> HIDE DEF gross, feeBps
<1>5. spent \in Nat /\ spent <= usdcIn /\ net <= spent
  BY <1>3, <1>4
<1>6. total \in Nat
  BY <1>3, <1>5
<1> HIDE DEF spent, total
<1>7. pf \in Nat /\ pf <= total
  <2> DEFINE p == total * FEE_BPS
  <2>1. p \in Nat /\ p <= total * feeBps
    BY <1>2, <1>6
  <2> HIDE DEF p
  <2>2. DivCeil(p, feeBps) \in Nat
    BY <1>2, <2>1, DivCeilNat
  <2>3. DivCeil(p, feeBps) <= total
    BY <1>2, <1>6, <2>1, DivCeilLeast
  <2> QED BY <2>2, <2>3 DEF p
<1> HIDE DEF pf
<1>8. spent - pf - (total - pf) = net /\ total <= spent
  BY <1>3, <1>5, <1>6, <1>7 DEF total
<1>9. BuyFacts(q, vUsdc, vTokens, remaining, usdcIn)
  <2>1. q.usdcSpent - q.platformFee - q.creatorFee = net
    BY <1>1, <1>8
  <2>2. (vUsdc + (q.usdcSpent - q.platformFee - q.creatorFee)) * (vTokens - q.tokensOut)
          >= vUsdc * vTokens
    BY <1>1, <1>3, <2>1
  <2>3. /\ q.platformFee \in Nat /\ q.creatorFee \in Nat
        /\ q.platformFee + q.creatorFee <= q.usdcSpent
    BY <1>1, <1>5, <1>6, <1>7, <1>8
  <2>4. /\ q.graduates \in BOOLEAN
        /\ q.graduates <=> q.tokensOut = remaining
    BY <1>1, Zenon
  <2>5. q.tokensOut \in Nat /\ 0 < q.tokensOut /\ q.tokensOut <= remaining
    BY <1>1
  <2>6. q.usdcSpent \in Nat /\ q.usdcSpent <= usdcIn
    BY <1>1, <1>5
  <2> QED BY <2>2, <2>3, <2>4, <2>5, <2>6, Zenon DEF BuyFacts
<1> QED BY <1>4, <1>9 DEF gross, net, feeBps

(* Every buy _calcBuy accepts gives no more tokens than remain, never asks *)
(* for more USDC than was offered, has fees that fit in what it asks for   *)
(* and never lowers the product of the curve's reserves.                   *)
THEOREM CalcBuyFacts ==
  ASSUME NEW vUsdc \in Nat, NEW vTokens \in Nat, NEW remaining \in Nat,
         NEW usdcIn \in Nat, NEW fee \in Nat,
         NEW q, q = CalcBuy(vUsdc, vTokens, remaining, usdcIn, fee), q.ok,
         0 < vUsdc, 0 < remaining, remaining < vTokens, FEE_BPS + fee < BPS
  PROVE  /\ BuyFacts(q, vUsdc, vTokens, remaining, usdcIn)
         /\ q.graduates =>
              FillGross(FillNet(vUsdc, vTokens, remaining), FEE_BPS + fee) <= usdcIn
<1> DEFINE n == NormalBuy(vUsdc, vTokens, usdcIn, fee)
           e == ExactFill(vUsdc, vTokens, remaining, usdcIn, fee)
           fees == n.platformFee + n.creatorFee
           k == vUsdc * vTokens
<1>1. n.ok /\ q = IF n.tokensOut >= remaining THEN e ELSE n
  BY DEF CalcBuy, NoTrade
<1>2. /\ n.tokensOut \in Nat /\ 0 < n.tokensOut
      /\ n.platformFee \in Nat /\ n.creatorFee \in Nat
      /\ n.platformFee + n.creatorFee < usdcIn
      /\ n.usdcSpent = usdcIn
      /\ n.graduates = FALSE
      /\ (vUsdc + (usdcIn - n.platformFee - n.creatorFee)) * (vTokens - n.tokensOut) >= k
  <2>1. n = NormalBuy(vUsdc, vTokens, usdcIn, fee)
    OBVIOUS
  <2>2. n.ok
    BY <1>1
  <2>3. n.usdcSpent = usdcIn /\ n.graduates = FALSE
    BY DEF NormalBuy
  <2> HIDE DEF n
  <2>4. n.tokensOut \in Nat /\ 0 < n.tokensOut
    BY <2>1, <2>2, NormalBuyFacts
  <2>5. n.platformFee \in Nat /\ n.creatorFee \in Nat
    BY <2>1, <2>2, NormalBuyFacts
  <2>6. n.platformFee + n.creatorFee < usdcIn
    BY <2>1, <2>2, NormalBuyFacts
  <2>7. (vUsdc + (usdcIn - n.platformFee - n.creatorFee)) * (vTokens - n.tokensOut) >= k
    BY <2>1, <2>2, NormalBuyFacts
  <2> QED BY <2>3, <2>4, <2>5, <2>6, <2>7
<1>3. /\ n.platformFee = FeeRoundedUp(usdcIn, FEE_BPS)
      /\ n.creatorFee = FeeRoundedUp(usdcIn, fee)
  BY DEF NormalBuy
<1>4. /\ usdcIn * FEE_BPS <= FeeRoundedUp(usdcIn, FEE_BPS) * BPS
      /\ usdcIn * fee <= FeeRoundedUp(usdcIn, fee) * BPS
  BY FeeOnBounds, FeeAssumption
<1> HIDE DEF n
<1>5. fees \in Nat /\ fees <= usdcIn /\ usdcIn * (FEE_BPS + fee) <= fees * BPS
  BY <1>2, <1>3, <1>4, FeeAssumption
<1>6. CASE n.tokensOut >= remaining
  <2>1. q = e
    BY <1>1, <1>6
  <2>2. (vUsdc + (usdcIn - fees)) * (vTokens - n.tokensOut) >= k
    BY <1>2
  <2> HIDE DEF fees, e
  <2>3. (vTokens - n.tokensOut) * (vUsdc + (usdcIn - fees))
          <= (vTokens - remaining) * (vUsdc + (usdcIn - fees))
    BY <1>2, <1>5, <1>6, MulMono
  <2>4. k <= (vUsdc + (usdcIn - fees)) * (vTokens - remaining)
    BY <1>2, <1>5, <2>2, <2>3
  <2> QED BY <1>5, <2>1, <2>4, ExactFillFacts DEF e
<1>7. CASE ~(n.tokensOut >= remaining)
  <2>1. q = n
    BY <1>1, <1>7
  <2>2. n.tokensOut <= remaining /\ n.tokensOut # remaining
    BY <1>2, <1>7
  <2>3. (vUsdc + (n.usdcSpent - n.platformFee - n.creatorFee)) * (vTokens - n.tokensOut)
          >= vUsdc * vTokens
    BY <1>2
  <2>4. /\ n.usdcSpent \in Nat /\ n.usdcSpent <= usdcIn
        /\ n.platformFee + n.creatorFee <= n.usdcSpent
    BY <1>2
  <2>5. n.graduates \in BOOLEAN /\ (n.graduates <=> n.tokensOut = remaining)
    BY <1>2, <2>2, Zenon
  <2>6. BuyFacts(n, vUsdc, vTokens, remaining, usdcIn)
    BY <1>2, <2>2, <2>3, <2>4, <2>5, Zenon DEF BuyFacts
  <2> QED BY <1>2, <2>1, <2>6, Zenon
<1> QED BY <1>6, <1>7

(* What every sell the code accepts does. *)
SellFacts(q, vUsdc, vTokens, sold, tokensIn) ==
  /\ 0 < tokensIn /\ tokensIn <= sold
  /\ q.gross \in Nat /\ q.gross <= vUsdc
  /\ q.platformFee \in Nat /\ q.creatorFee \in Nat /\ q.usdcOut \in Nat
  /\ q.gross = q.platformFee + q.creatorFee + q.usdcOut
  /\ (vUsdc - q.gross) * (vTokens + tokensIn) >= vUsdc * vTokens

(* Every sell _sellQuote accepts takes a gross amount off the curve that   *)
(* covers the fees and the payment exactly, is no more than the curve      *)
(* holds and never lowers the product of the curve's reserves.             *)
THEOREM CalcSellFacts ==
  ASSUME NEW vUsdc \in Nat, NEW vTokens \in Nat, NEW sold \in Nat,
         NEW tokensIn \in Nat, NEW fee \in Nat,
         NEW q, q = CalcSell(vUsdc, vTokens, sold, tokensIn, fee), q.ok,
         0 < vTokens
  PROVE  SellFacts(q, vUsdc, vTokens, sold, tokensIn)
<1> DEFINE k == vUsdc * vTokens
           s == vTokens + tokensIn
           left == DivCeil(k, s)
           gross == vUsdc - left
           pf == FeeRoundedUp(gross, FEE_BPS)
           cf == FeeRoundedUp(gross, fee)
<1>1. /\ tokensIn # 0 /\ tokensIn <= sold /\ pf + cf < gross
      /\ q.gross = gross /\ q.platformFee = pf /\ q.creatorFee = cf
      /\ q.usdcOut = gross - pf - cf
  BY DEF CalcSell
<1>2. k \in Nat /\ s \in Nat /\ 0 < s /\ k <= vUsdc * s
  <2>1. vTokens * vUsdc <= s * vUsdc
    BY MulMono
  <2> QED BY <2>1
<1> HIDE DEF k, s
<1>3. left \in Nat /\ left <= vUsdc /\ k <= left * s
  <2>1. left \in Nat
    BY <1>2, DivCeilNat
  <2>2. left <= vUsdc
    BY <1>2, DivCeilLeast
  <2>3. k <= left * s
    BY <1>2, DivCeilBounds
  <2> QED BY <2>1, <2>2, <2>3
<1> HIDE DEF left
<1>4. gross \in Nat /\ gross <= vUsdc /\ vUsdc - gross = left
  BY <1>3
<1> HIDE DEF gross
<1>5. pf \in Nat /\ cf \in Nat
  BY <1>4, FeeOnBounds, FeeAssumption
<1> HIDE DEF pf, cf
<1>6. (vUsdc - q.gross) * (vTokens + tokensIn) >= vUsdc * vTokens
  BY <1>1, <1>2, <1>3, <1>4 DEF k, s
<1> QED BY <1>1, <1>4, <1>5, <1>6 DEF SellFacts

(* Whole-number quotients of natural numbers. *)
LEMMA DivNat ==
  ASSUME NEW a \in Nat, NEW b \in Nat, b > 0
  PROVE  a \div b \in Nat
<1> DEFINE d == a \div b
<1>1. d \in Int /\ a < (d + 1) * b
  BY DivBounds
<1> HIDE DEF d
<1>2. 0 * b < (d + 1) * b
  BY <1>1
<1>3. 0 < d + 1
  BY <1>1, <1>2, MulCancel
<1> QED BY <1>1, <1>3 DEF d

(* A pool buy splits what is offered into fees and the net it swaps. *)
PoolBuyFacts(q, usdcIn) ==
  /\ q.platformFee \in Nat /\ q.creatorFee \in Nat /\ q.net \in Nat
  /\ q.tokensOut \in Nat
  /\ q.platformFee + q.creatorFee + q.net = usdcIn

(* _quoteBuy of LaunchRouter does. *)
LEMMA RouterBuyFacts ==
  ASSUME NEW rToken \in Nat, NEW rUsdc \in Nat, NEW usdcIn \in Nat, NEW fee \in Nat,
         NEW q, q = RouterBuyQuote(rToken, rUsdc, usdcIn, fee), q.ok
  PROVE  PoolBuyFacts(q, usdcIn)
<1> DEFINE pf  == FeeRoundedUp(usdcIn, FEE_BPS)
           cf  == FeeRoundedUp(usdcIn, fee)
           net == usdcIn - pf - cf
           out == (net * rToken) \div (rUsdc + net)
<1>1. /\ q.platformFee = pf /\ q.creatorFee = cf /\ q.net = net
      /\ net > 0 /\ q.tokensOut = out
  BY DEF RouterBuyQuote
<1>2. pf \in Nat /\ cf \in Nat
  BY FeeOnBounds, FeeAssumption
<1> HIDE DEF pf, cf
<1>3. net \in Nat
  BY <1>1, <1>2
<1>4. net * rToken \in Nat /\ rUsdc + net \in Nat /\ rUsdc + net > 0
  BY <1>1, <1>3
<1>5. out \in Nat
  BY <1>4, DivNat
<1> QED BY <1>1, <1>2, <1>3, <1>5 DEF PoolBuyFacts

(* A pool sell splits what it swaps out into fees and the payment. *)
PoolSellFacts(q) ==
  /\ q.platformFee \in Nat /\ q.creatorFee \in Nat /\ q.usdcOut \in Nat
  /\ q.gross \in Nat
  /\ q.platformFee + q.creatorFee + q.usdcOut = q.gross

(* _quoteSell of LaunchRouter does. *)
LEMMA RouterSellFacts ==
  ASSUME NEW rToken \in Nat, NEW rUsdc \in Nat, NEW tokensIn \in Nat, NEW fee \in Nat,
         NEW q, q = RouterSellQuote(rToken, rUsdc, tokensIn, fee), q.ok
  PROVE  PoolSellFacts(q)
<1> DEFINE gross == (tokensIn * rUsdc) \div (rToken + tokensIn)
           pf == FeeRoundedUp(gross, FEE_BPS)
           cf == FeeRoundedUp(gross, fee)
<1>1. /\ q.platformFee = pf /\ q.creatorFee = cf /\ q.gross = gross
      /\ q.usdcOut = gross - pf - cf
      /\ tokensIn # 0 /\ pf + cf < gross
  BY DEF RouterSellQuote
<1>2. tokensIn * rUsdc \in Nat /\ rToken + tokensIn \in Nat /\ rToken + tokensIn > 0
  BY <1>1
<1>3. gross \in Nat
  BY <1>2, DivNat
<1> HIDE DEF gross
<1>4. pf \in Nat /\ cf \in Nat
  BY <1>3, FeeOnBounds, FeeAssumption
<1> QED BY <1>1, <1>3, <1>4 DEF PoolSellFacts

===============================================================================
