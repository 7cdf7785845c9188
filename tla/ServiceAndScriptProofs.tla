---------------------- MODULE ServiceAndScriptProofs ----------------------
(***************************************************************************)
(* That a scan of the listing service reads every block of its range once  *)
(* or reports it missing, proved for any number of workers, any window     *)
(* and range, and whatever the endpoints answer.                           *)
(*                                                                         *)
(* EveryBlockOnce speaks of tagged pieces.  Once says the same of four     *)
(* sets of blocks (read, queued, asked for, given up) and of no two        *)
(* windows of one kind sharing a block; it is inductive together with the  *)
(* types and with the fact that a scan that is over has an empty queue.    *)
(*                                                                         *)
(* Then that the deployment scripts record what exists and send behind the *)
(* gate only what ran on a fork, for any terminals, commands and           *)
(* bytecodes.                                                              *)
(*                                                                         *)
(* Last, that the histories and prices a page keeps have no hole, however  *)
(* its polls overlap, fail or are left behind, for any chain, page size,   *)
(* window and number of pages.                                             *)
(***************************************************************************)
EXTENDS ListingService, Deployments, SiteHistory, ArithmeticProofs, SequenceTheorems

Ranges == [from : Int, to : Int]

(* The blocks of a sequence of windows, and no two windows sharing one. *)
Cover(s) == UNION {Blocks(s[i]) : i \in DOMAIN s}
Apart(s) == \A i, j \in DOMAIN s : i # j => Blocks(s[i]) \intersect Blocks(s[j]) = {}

LEMMA InCover ==
  ASSUME NEW s, NEW b
  PROVE  b \in Cover(s) <=> \E i \in DOMAIN s : b \in Blocks(s[i])
BY DEF Cover

LEMMA StretchIn ==
  ASSUME NEW from \in Int, NEW to \in Int
  PROVE  /\ Stretch(from, to) \in Ranges
         /\ Blocks(Stretch(from, to)) = from .. to
BY DEF Stretch, Ranges, Blocks

(* Taking the first window off, *)
LEMMA Popped ==
  ASSUME NEW s \in Seq(Ranges), s # <<>>, Apart(s)
  PROVE  /\ Head(s) \in Ranges /\ Tail(s) \in Seq(Ranges)
         /\ Apart(Tail(s))
         /\ Cover(s) = Blocks(Head(s)) \union Cover(Tail(s))
         /\ Blocks(Head(s)) \intersect Cover(Tail(s)) = {}
<1>1. /\ Head(s) = s[1] /\ Head(s) \in Ranges /\ Tail(s) \in Seq(Ranges)
      /\ Len(s) \in Nat /\ 0 < Len(s) /\ DOMAIN s = 1 .. Len(s)
      /\ DOMAIN Tail(s) = 1 .. (Len(s) - 1)
      /\ \A i \in DOMAIN Tail(s) : Tail(s)[i] = s[i + 1]
  OBVIOUS
<1>2. \A i \in DOMAIN Tail(s) : i + 1 \in DOMAIN s /\ i + 1 # 1
  BY <1>1
<1>3. \A i \in DOMAIN s : i = 1 \/ (i - 1 \in DOMAIN Tail(s) /\ Tail(s)[i - 1] = s[i])
  <2> SUFFICES ASSUME NEW i \in DOMAIN s, i # 1
               PROVE  i - 1 \in DOMAIN Tail(s) /\ Tail(s)[i - 1] = s[i]
    OBVIOUS
  <2>1. i - 1 \in DOMAIN Tail(s) /\ (i - 1) + 1 = i
    BY <1>1
  <2> QED BY <1>1, <2>1
<1>4. 1 \in DOMAIN s
  BY <1>1
<1>5. Apart(Tail(s))
  <2> SUFFICES ASSUME NEW i \in DOMAIN Tail(s), NEW j \in DOMAIN Tail(s), i # j
               PROVE  Blocks(Tail(s)[i]) \intersect Blocks(Tail(s)[j]) = {}
    BY DEF Apart
  <2>1. i + 1 # j + 1
    BY <1>1
  <2>2. Blocks(s[i + 1]) \intersect Blocks(s[j + 1]) = {}
    BY <1>2, <2>1 DEF Apart
  <2> QED BY <1>1, <2>2
<1>6. Cover(s) = Blocks(Head(s)) \union Cover(Tail(s))
  <2>1. ASSUME NEW b \in Cover(s) PROVE b \in Blocks(Head(s)) \union Cover(Tail(s))
    <3>1. PICK i \in DOMAIN s : b \in Blocks(s[i])
      BY <2>1, InCover
    <3>2. CASE i = 1
      BY <1>1, <3>1, <3>2
    <3>3. CASE i # 1
      <4>1. i - 1 \in DOMAIN Tail(s) /\ b \in Blocks(Tail(s)[i - 1])
        BY <1>3, <3>1, <3>3
      <4> QED BY <4>1, InCover
    <3> QED BY <3>2, <3>3
  <2>2. Blocks(Head(s)) \subseteq Cover(s)
    BY <1>1, <1>4, InCover
  <2>3. ASSUME NEW b \in Cover(Tail(s)) PROVE b \in Cover(s)
    <3>1. PICK i \in DOMAIN Tail(s) : b \in Blocks(Tail(s)[i])
      BY <2>3, InCover
    <3>2. i + 1 \in DOMAIN s /\ b \in Blocks(s[i + 1])
      BY <1>1, <1>2, <3>1
    <3> QED BY <3>2, InCover
  <2> QED BY <2>1, <2>2, <2>3
<1>7. Blocks(Head(s)) \intersect Cover(Tail(s)) = {}
  <2> SUFFICES ASSUME NEW b \in Blocks(Head(s)), b \in Cover(Tail(s)) PROVE FALSE
    OBVIOUS
  <2>1. PICK i \in DOMAIN Tail(s) : b \in Blocks(Tail(s)[i])
    BY InCover
  <2>2. i + 1 \in DOMAIN s /\ i + 1 # 1 /\ b \in Blocks(s[i + 1]) /\ b \in Blocks(s[1])
    BY <1>1, <1>2, <2>1
  <2>3. Blocks(s[1]) \intersect Blocks(s[i + 1]) = {}
    BY <1>4, <2>2 DEF Apart
  <2> QED BY <2>2, <2>3
<1> QED BY <1>1, <1>5, <1>6, <1>7

(* joining two sequences of windows, *)
LEMMA Joined ==
  ASSUME NEW s \in Seq(Ranges), NEW t \in Seq(Ranges)
  PROVE  /\ s \o t \in Seq(Ranges)
         /\ Cover(s \o t) = Cover(s) \union Cover(t)
         /\ Apart(s) /\ Apart(t) /\ Cover(s) \intersect Cover(t) = {} => Apart(s \o t)
<1> DEFINE st == s \o t
<1>1. /\ st \in Seq(Ranges) /\ Len(s) \in Nat /\ Len(t) \in Nat
      /\ DOMAIN s = 1 .. Len(s) /\ DOMAIN t = 1 .. Len(t)
      /\ DOMAIN st = 1 .. (Len(s) + Len(t))
      /\ \A i \in DOMAIN st : st[i] = IF i <= Len(s) THEN s[i] ELSE t[i - Len(s)]
  BY ConcatProperties
<1> HIDE DEF st
<1>2. \A i \in DOMAIN s : i \in DOMAIN st /\ st[i] = s[i]
  BY <1>1
<1>3. \A j \in DOMAIN t : j + Len(s) \in DOMAIN st /\ st[j + Len(s)] = t[j]
  <2> SUFFICES ASSUME NEW j \in DOMAIN t
               PROVE  j + Len(s) \in DOMAIN st /\ st[j + Len(s)] = t[j]
    OBVIOUS
  <2>1. /\ j + Len(s) \in DOMAIN st /\ ~(j + Len(s) <= Len(s))
        /\ (j + Len(s)) - Len(s) = j
    BY <1>1
  <2> QED BY <1>1, <2>1
<1>4. \A i \in DOMAIN st :
        \/ i \in DOMAIN s /\ st[i] = s[i]
        \/ i - Len(s) \in DOMAIN t /\ st[i] = t[i - Len(s)]
  BY <1>1
<1>5. Cover(st) = Cover(s) \union Cover(t)
  <2>1. ASSUME NEW b \in Cover(st) PROVE b \in Cover(s) \union Cover(t)
    <3>1. PICK i \in DOMAIN st : b \in Blocks(st[i])
      BY <2>1, InCover
    <3>2. CASE i \in DOMAIN s /\ st[i] = s[i]
      BY <3>1, <3>2, InCover
    <3>3. CASE i - Len(s) \in DOMAIN t /\ st[i] = t[i - Len(s)]
      BY <3>1, <3>3, InCover
    <3> QED BY <1>4, <3>2, <3>3
  <2>2. ASSUME NEW b \in Cover(s) PROVE b \in Cover(st)
    BY <1>2, <2>2, InCover
  <2>3. ASSUME NEW b \in Cover(t) PROVE b \in Cover(st)
    <3>1. PICK j \in DOMAIN t : b \in Blocks(t[j])
      BY <2>3, InCover
    <3>2. j + Len(s) \in DOMAIN st /\ b \in Blocks(st[j + Len(s)])
      BY <1>3, <3>1
    <3> QED BY <3>2, InCover
  <2> QED BY <2>1, <2>2, <2>3
<1>6. ASSUME Apart(s), Apart(t), Cover(s) \intersect Cover(t) = {} PROVE Apart(st)
  <2> SUFFICES ASSUME NEW i \in DOMAIN st, NEW j \in DOMAIN st, i # j,
                      NEW b \in Blocks(st[i]), b \in Blocks(st[j])
               PROVE  FALSE
    BY DEF Apart
  <2>1. CASE i \in DOMAIN s /\ st[i] = s[i] /\ j \in DOMAIN s /\ st[j] = s[j]
    BY <1>6, <2>1 DEF Apart
  <2>2. CASE /\ i - Len(s) \in DOMAIN t /\ st[i] = t[i - Len(s)]
             /\ j - Len(s) \in DOMAIN t /\ st[j] = t[j - Len(s)]
    <3>1. i - Len(s) # j - Len(s)
      BY <1>1
    <3> QED BY <1>6, <2>2, <3>1 DEF Apart
  <2>3. CASE /\ i \in DOMAIN s /\ st[i] = s[i]
             /\ j - Len(s) \in DOMAIN t /\ st[j] = t[j - Len(s)]
    BY <1>6, <2>3, InCover
  <2>4. CASE /\ j \in DOMAIN s /\ st[j] = s[j]
             /\ i - Len(s) \in DOMAIN t /\ st[i] = t[i - Len(s)]
    BY <1>6, <2>4, InCover
  <2> QED BY <1>4, <2>1, <2>2, <2>3, <2>4
<1> QED BY <1>1, <1>5, <1>6 DEF st

(* one window alone, *)
LEMMA Single ==
  ASSUME NEW r \in Ranges
  PROVE  /\ <<r>> \in Seq(Ranges) /\ Apart(<<r>>) /\ Cover(<<r>>) = Blocks(r)
<1>1. <<r>> \in Seq(Ranges) /\ DOMAIN <<r>> = {1} /\ <<r>>[1] = r
  OBVIOUS
<1>2. Apart(<<r>>)
  BY <1>1 DEF Apart
<1>3. Cover(<<r>>) = Blocks(r)
  BY <1>1 DEF Cover
<1> QED BY <1>1, <1>2, <1>3

(* putting one at the end. *)
LEMMA Added ==
  ASSUME NEW s \in Seq(Ranges), NEW r \in Ranges
  PROVE  /\ Append(s, r) \in Seq(Ranges)
         /\ Cover(Append(s, r)) = Cover(s) \union Blocks(r)
         /\ Apart(s) /\ Cover(s) \intersect Blocks(r) = {} => Apart(Append(s, r))
<1>1. Append(s, r) = s \o <<r>>
  BY AppendIsConcat
<1>2. <<r>> \in Seq(Ranges) /\ Apart(<<r>>) /\ Cover(<<r>>) = Blocks(r)
  BY Single
<1> QED BY <1>1, <1>2, Joined

LEMMA NoWindows == <<>> \in Seq(Ranges) /\ Apart(<<>>) /\ Cover(<<>>) = {}
BY DEF Apart, Cover

-----------------------------------------------------------------------------
(* Cutting a range into windows. *)

LEMMA Quotient ==
  ASSUME NEW a \in Int, NEW n \in Nat, 0 < n
  PROVE  /\ a \div n \in Int
         /\ (a \div n) * n <= a
         /\ a < (a \div n + 1) * n
BY Z3

LEMMA Multiples ==
  ASSUME NEW i \in Int, NEW j \in Int, NEW n \in Nat, i < j
  PROVE  i * n + n <= j * n
<1>1. j - i - 1 \in Nat
  OBVIOUS
<1>2. (j - i - 1) * n >= 0
  BY <1>1, Z3
<1>3. (j - i - 1) * n = j * n - i * n - n
  BY Z3
<1>4. i * n \in Int /\ j * n \in Int
  OBVIOUS
<1> QED BY <1>2, <1>3, <1>4

LEMMA MultiplesOrder ==
  ASSUME NEW i \in Int, NEW j \in Int, NEW n \in Nat, i * n < j * n
  PROVE  i < j
<1>1. CASE j < i
  <2>1. j * n + n <= i * n
    BY <1>1, Multiples
  <2>2. i * n \in Int /\ j * n \in Int
    OBVIOUS
  <2> QED BY <2>1, <2>2
<1>2. CASE i = j
  BY <1>2
<1> QED BY <1>1, <1>2

(* The windows cover the range, each block once. *)
LEMMA WindowsCut ==
  ASSUME NEW from \in Int, NEW to \in Int, NEW n \in Nat, 0 < n
  PROVE  /\ Windows(from, to, n) \in Seq(Ranges)
         /\ Apart(Windows(from, to, n))
         /\ Cover(Windows(from, to, n)) = from .. to
<1> DEFINE c == (to - from + n) \div n
           w == Windows(from, to, n)
           end(i) == IF from + i * n - 1 < to THEN from + i * n - 1 ELSE to
<1>1. c \in Int /\ c * n <= to - from + n /\ to - from + n < (c + 1) * n
  <2> DEFINE a == to - from + n
  <2>1. a \in Int
    OBVIOUS
  <2> HIDE DEF a
  <2>2. a \div n \in Int /\ (a \div n) * n <= a /\ a < (a \div n + 1) * n
    BY <2>1, Quotient
  <2> QED BY <2>2 DEF a
<1>2. w = [i \in 1 .. c |-> Stretch(from + (i - 1) * n, end(i))]
  BY DEF Windows
<1> HIDE DEF c, w
<1>3. \A i \in 1 .. c : /\ from + (i - 1) * n \in Int /\ end(i) \in Int
                        /\ end(i) <= to /\ end(i) <= from + i * n - 1
                        /\ i * n \in Int
  BY <1>1
<1>4. DOMAIN w = 1 .. c /\ \A i \in 1 .. c : w[i] = Stretch(from + (i - 1) * n, end(i))
  BY <1>2
<1>5. w \in Seq(Ranges)
  <2>1. \A i \in 1 .. c : w[i] \in Ranges
    BY <1>3, <1>4, StretchIn
  <2>2. CASE c >= 0
    <3>1. c \in Nat
      BY <1>1, <2>2
    <3>2. w = [i \in 1 .. c |-> w[i]]
      BY <1>2, Zenon
    <3>3. w \in [1 .. c -> Ranges]
      BY <2>1, <3>2, Zenon
    <3> QED BY <3>1, <3>3, SeqDef
  <2>3. CASE ~(c >= 0)
    <3>1. 1 .. c = {} /\ 1 .. 0 = {}
      BY <1>1, <2>3
    <3>2. w \in [1 .. 0 -> Ranges]
      BY <1>2, <3>1
    <3> QED BY <3>2, SeqDef
  <2> QED BY <2>2, <2>3
<1>6. \A i \in 1 .. c : Blocks(w[i]) = (from + (i - 1) * n) .. end(i)
  BY <1>3, <1>4, StretchIn
<1>7. Apart(w)
  <2>1. ASSUME NEW i \in 1 .. c, NEW j \in 1 .. c, i < j
        PROVE  Blocks(w[i]) \intersect Blocks(w[j]) = {}
    <3> DEFINE x == i * n
               y == (j - 1) * n
    <3>1. x <= y
      <4>1. CASE i = j - 1
        BY <4>1
      <4>2. CASE i < j - 1
        <5>1. i \in Int /\ j - 1 \in Int
          OBVIOUS
        <5>2. i * n + n <= (j - 1) * n
          BY <4>2, <5>1, Multiples
        <5>3. i * n \in Int /\ (j - 1) * n \in Int
          BY <5>1
        <5> QED BY <5>2, <5>3
      <4> QED BY <1>1, <2>1, <4>1, <4>2
    <3>2. x \in Int /\ y \in Int /\ end(i) \in Int /\ end(i) <= from + x - 1
      BY <1>3
    <3>3. Blocks(w[i]) = (from + (i - 1) * n) .. end(i) /\ Blocks(w[j]) = (from + y) .. end(j)
      BY <1>6
    <3>4. from + (i - 1) * n \in Int /\ end(j) \in Int
      BY <1>3
    <3> HIDE DEF x, y, end
    <3> QED BY <3>1, <3>2, <3>3, <3>4
  <2>2. \A i, j \in 1 .. c : i # j => i < j \/ j < i
    BY <1>1
  <2> QED BY <1>4, <2>1, <2>2 DEF Apart
<1>8. Cover(w) \subseteq from .. to
  <2> SUFFICES ASSUME NEW b \in Cover(w) PROVE b \in from .. to
    OBVIOUS
  <2>1. PICK i \in 1 .. c : b \in Blocks(w[i])
    BY <1>4, InCover
  <2> DEFINE x == (i - 1) * n
  <2>2. x \in Int /\ 0 <= x
    <3>1. i - 1 \in Nat
      BY <1>1
    <3> QED BY <3>1, Z3
  <2>3. b \in (from + x) .. end(i) /\ end(i) \in Int /\ end(i) <= to
    BY <1>3, <1>6, <2>1
  <2> HIDE DEF x, end
  <2> QED BY <2>2, <2>3
<1>9. from .. to \subseteq Cover(w)
  <2> SUFFICES ASSUME NEW b \in from .. to PROVE b \in Cover(w)
    OBVIOUS
  <2> DEFINE a == b - from
             q == a \div n
  <2>1. a \in Int /\ 0 <= a /\ b = from + a
    OBVIOUS
  <2> HIDE DEF a
  <2>2. q \in Int /\ q * n <= a /\ a < (q + 1) * n
    BY <2>1, Quotient
  <2> HIDE DEF q
  <2>3. q * n \in Int /\ (q + 1) * n \in Int /\ (c + 1) * n \in Int /\ c * n \in Int
    BY <1>1, <2>2
  <2>4. 0 <= q
    <3>1. 0 * n < (q + 1) * n
      BY <2>1, <2>2, <2>3
    <3>2. 0 < q + 1
      BY <2>2, <3>1, MultiplesOrder
    <3> QED BY <2>2, <3>2
  <2>5. q + 1 <= c
    <3>1. (q + 1) * n = q * n + n /\ (c + 1) * n = c * n + n
      BY <1>1, <2>2
    <3>2. (q + 1) * n < (c + 1) * n
      BY <1>1, <2>1, <2>2, <2>3, <3>1
    <3>3. q + 1 < c + 1
      BY <1>1, <2>2, <3>2, MultiplesOrder
    <3> QED BY <1>1, <2>2, <3>3
  <2> DEFINE i == q + 1
  <2>6. i \in 1 .. c /\ (i - 1) = q
    BY <1>1, <2>2, <2>4, <2>5
  <2>7. Blocks(w[i]) = (from + q * n) .. end(i)
    BY <1>6, <2>6
  <2>8. b \in (from + q * n) .. end(i)
    <3> DEFINE x == q * n
               y == i * n
    <3>1. x \in Int /\ y \in Int /\ x <= a /\ a < y
      BY <2>2, <2>3
    <3> HIDE DEF x, y, i
    <3>2. b \in (from + x) .. (IF from + y - 1 < to THEN from + y - 1 ELSE to)
      BY <2>1, <3>1
    <3> QED BY <3>2 DEF x, y
  <2> HIDE DEF i
  <2> QED BY <1>4, <2>6, <2>7, <2>8, InCover
<1> QED BY <1>5, <1>7, <1>8, <1>9 DEF w

-----------------------------------------------------------------------------
(* The calls under way. *)

Calls == {w \in Workers : Busy(w)}
AskedFor == UNION {Blocks(at[w].range) : w \in Calls}
CallsApart ==
  \A v, w \in Calls : v # w => Blocks(at[v].range) \intersect Blocks(at[w].range) = {}

AtType ==
  /\ at = [w \in Workers |-> at[w]]
  /\ \A w \in Calls : at[w].range \in Ranges

LEMMA InAsked ==
  ASSUME NEW b
  PROVE  b \in AskedFor <=> \E w \in Calls : b \in Blocks(at[w].range)
BY DEF AskedFor

(* A worker that moves to s, and no other. *)
Moves(w, s) == w \in Workers /\ at' = [at EXCEPT ![w] = s]

LEMMA Moved ==
  ASSUME AtType, NEW w, NEW s, Moves(w, s)
  PROVE  /\ at' = [v \in Workers |-> at'[v]]
         /\ at'[w] = s
         /\ \A v \in Workers : v # w => at'[v] = at[v]
BY Zenon DEF AtType, Moves

(* It asks for a window, *)
LEMMA CallStarts ==
  ASSUME AtType, CallsApart, NEW w, NEW r \in Ranges, NEW a, NEW u,
         Moves(w, Call(r, a, u)), ~Busy(w), Blocks(r) \intersect AskedFor = {}
  PROVE  AtType' /\ CallsApart' /\ AskedFor' = AskedFor \union Blocks(r)
<1>1. /\ at' = [v \in Workers |-> at'[v]]
      /\ at'[w] = Call(r, a, u)
      /\ \A v \in Workers : v # w => at'[v] = at[v]
      /\ w \in Workers
  BY Moved DEF Moves
<1>2. at'[w].does = "call" /\ at'[w].range = r
  BY <1>1 DEF Call
<1>3. w \notin Calls
  BY DEF Calls
<1>4. /\ Calls' = Calls \union {w}
      /\ \A v \in Calls : v # w /\ at'[v] = at[v]
  BY <1>1, <1>2, <1>3 DEF Calls, Busy
<1>5. AtType'
  BY <1>1, <1>2, <1>4 DEF AtType
<1>6. AskedFor' = AskedFor \union Blocks(r)
  <2>1. AskedFor' = UNION {Blocks(at'[v].range) : v \in Calls'}
    BY DEF AskedFor, Blocks
  <2> QED BY <1>2, <1>4, <2>1 DEF AskedFor
<1>7. \A v \in Calls : Blocks(at[v].range) \subseteq AskedFor
  BY InAsked
<1>8. CallsApart'
  <2> SUFFICES ASSUME NEW v \in Calls', NEW x \in Calls', v # x
               PROVE  Blocks(at'[v].range) \intersect Blocks(at'[x].range) = {}
    BY DEF CallsApart, Blocks
  <2>1. CASE v \in Calls /\ x \in Calls
    BY <1>4, <2>1 DEF CallsApart
  <2>2. CASE v = w /\ x \in Calls
    BY <1>2, <1>4, <1>7, <2>2
  <2>3. CASE x = w /\ v \in Calls
    BY <1>2, <1>4, <1>7, <2>3
  <2> QED BY <1>4, <2>1, <2>2, <2>3
<1> QED BY <1>5, <1>6, <1>8

(* asks again for the same one, *)
LEMMA CallGoesOn ==
  ASSUME AtType, CallsApart, NEW w, NEW a, NEW u,
         Busy(w), Moves(w, Call(at[w].range, a, u))
  PROVE  AtType' /\ CallsApart' /\ AskedFor' = AskedFor
<1>1. /\ at' = [v \in Workers |-> at'[v]]
      /\ at'[w] = Call(at[w].range, a, u)
      /\ \A v \in Workers : v # w => at'[v] = at[v]
      /\ w \in Workers
  BY Moved DEF Moves
<1>2. at'[w].does = "call" /\ at'[w].range = at[w].range
  BY <1>1 DEF Call
<1>3. w \in Calls
  BY <1>1 DEF Calls
<1>4. Calls' = Calls /\ \A v \in Calls : at'[v].range = at[v].range
  BY <1>1, <1>2, <1>3 DEF Calls, Busy
<1>5. AtType'
  BY <1>1, <1>4 DEF AtType
<1>6. AskedFor' = AskedFor
  <2>1. AskedFor' = UNION {Blocks(at'[v].range) : v \in Calls'}
    BY DEF AskedFor, Blocks
  <2> QED BY <1>4, <2>1 DEF AskedFor
<1>7. CallsApart'
  <2> SUFFICES ASSUME NEW v \in Calls', NEW x \in Calls', v # x
               PROVE  Blocks(at'[v].range) \intersect Blocks(at'[x].range) = {}
    BY DEF CallsApart, Blocks
  <2> QED BY <1>4 DEF CallsApart
<1> QED BY <1>5, <1>6, <1>7

(* or has its answer. *)
LEMMA CallEnds ==
  ASSUME AtType, CallsApart, NEW w, Busy(w), Moves(w, Loop)
  PROVE  /\ AtType' /\ CallsApart' /\ at[w].range \in Ranges
         /\ AskedFor = AskedFor' \union Blocks(at[w].range)
         /\ AskedFor' \intersect Blocks(at[w].range) = {}
<1>1. /\ at' = [v \in Workers |-> at'[v]]
      /\ at'[w] = Loop
      /\ \A v \in Workers : v # w => at'[v] = at[v]
      /\ w \in Workers
  BY Moved DEF Moves
<1>2. at'[w].does # "call"
  BY <1>1 DEF Loop
<1>3. w \in Calls
  BY <1>1 DEF Calls
<1>4. Calls' = Calls \ {w} /\ \A v \in Calls' : at'[v] = at[v]
  BY <1>1, <1>2, <1>3 DEF Calls, Busy
<1>5. AtType'
  BY <1>1, <1>4 DEF AtType
<1>6. AskedFor' = UNION {Blocks(at[v].range) : v \in Calls \ {w}}
  <2>1. AskedFor' = UNION {Blocks(at'[v].range) : v \in Calls'}
    BY DEF AskedFor, Blocks
  <2> QED BY <1>4, <2>1
<1>7. AskedFor = AskedFor' \union Blocks(at[w].range)
  BY <1>3, <1>6 DEF AskedFor
<1>8. AskedFor' \intersect Blocks(at[w].range) = {}
  BY <1>3, <1>6 DEF CallsApart
<1>9. CallsApart'
  <2> SUFFICES ASSUME NEW v \in Calls', NEW x \in Calls', v # x
               PROVE  Blocks(at'[v].range) \intersect Blocks(at'[x].range) = {}
    BY DEF CallsApart, Blocks
  <2> QED BY <1>4 DEF CallsApart
<1>10. at[w].range \in Ranges
  BY <1>3 DEF AtType
<1> QED BY <1>5, <1>7, <1>8, <1>9, <1>10

(* A worker that was in no call and starts none. *)
LEMMA NoCall ==
  ASSUME AtType, CallsApart, NEW w, ~Busy(w), Moves(w, Done)
  PROVE  AtType' /\ CallsApart' /\ AskedFor' = AskedFor
<1>1. /\ at' = [v \in Workers |-> at'[v]]
      /\ at'[w] = Done
      /\ \A v \in Workers : v # w => at'[v] = at[v]
      /\ w \in Workers
  BY Moved DEF Moves
<1>2. at'[w].does # "call"
  BY <1>1 DEF Done
<1>3. Calls' = Calls /\ \A v \in Calls : at'[v] = at[v]
  BY <1>1, <1>2 DEF Calls, Busy
<1>4. AtType'
  BY <1>1, <1>3 DEF AtType
<1>5. AskedFor' = AskedFor
  <2>1. AskedFor' = UNION {Blocks(at'[v].range) : v \in Calls'}
    BY DEF AskedFor, Blocks
  <2> QED BY <1>3, <2>1 DEF AskedFor
<1>6. CallsApart'
  <2> SUFFICES ASSUME NEW v \in Calls', NEW x \in Calls', v # x
               PROVE  Blocks(at'[v].range) \intersect Blocks(at'[x].range) = {}
    BY DEF CallsApart, Blocks
  <2> QED BY <1>3 DEF CallsApart
<1> QED BY <1>4, <1>5, <1>6

-----------------------------------------------------------------------------
(* The invariant of a scan. *)

(* s is made of g, q, a and m, no two of which meet. *)
Parted(s, g, q, a, m) ==
  /\ s = g \union q \union a \union m
  /\ g \intersect q = {} /\ g \intersect a = {} /\ g \intersect m = {}
  /\ q \intersect a = {} /\ q \intersect m = {} /\ a \intersect m = {}

Once ==
  /\ Apart(queue) /\ CallsApart /\ Apart(missing)
  /\ Parted(Blocks(span), got, Cover(queue), AskedFor, Cover(missing))

ScanTypes ==
  /\ span \in Ranges
  /\ queue \in Seq(Ranges)
  /\ missing \in Seq(Ranges)
  /\ size \in Nat /\ 0 < size
  /\ AtType

ScanInv ==
  /\ ScanTypes
  /\ Once
  /\ ScanOver => queue = <<>>

(* What ScanInv says of EveryBlockOnce. *)
LEMMA OnceIsOnce == ScanInv => EveryBlockOnce
<1> SUFFICES ASSUME ScanInv PROVE EveryBlockOnce
  OBVIOUS
<1> DEFINE Q == {<<"queue", i, queue[i]>> : i \in DOMAIN queue}
           C == {<<"call", w, at[w].range>> : w \in {v \in Workers : Busy(v)}}
           M == {<<"missing", i, missing[i]>> : i \in DOMAIN missing}
<1>1. Pieces = Q \union C \union M
  BY DEF Pieces
<1>2. /\ Apart(queue) /\ CallsApart /\ Apart(missing)
      /\ Parted(Blocks(span), got, Cover(queue), AskedFor, Cover(missing))
  BY DEF ScanInv, Once
<1>3. \A p \in Q : \E i \in DOMAIN queue : p = <<"queue", i, queue[i]>> /\ p[3] = queue[i]
  OBVIOUS
<1>4. \A p \in C : \E w \in Calls : p = <<"call", w, at[w].range>> /\ p[3] = at[w].range
  BY DEF Calls
<1>5. \A p \in M : \E i \in DOMAIN missing :
        p = <<"missing", i, missing[i]>> /\ p[3] = missing[i]
  OBVIOUS
<1>6. UNION {Blocks(p[3]) : p \in Q} = Cover(queue)
  <2>1. \A b : (\E p \in Q : b \in Blocks(p[3])) <=> (\E i \in DOMAIN queue : b \in Blocks(queue[i]))
    <3> SUFFICES ASSUME NEW b
                 PROVE  (\E p \in Q : b \in Blocks(p[3]))
                          <=> (\E i \in DOMAIN queue : b \in Blocks(queue[i]))
      OBVIOUS
    <3>1. ASSUME NEW i \in DOMAIN queue, b \in Blocks(queue[i])
          PROVE  \E p \in Q : b \in Blocks(p[3])
      <4>1. <<"queue", i, queue[i]>> \in Q /\ <<"queue", i, queue[i]>>[3] = queue[i]
        OBVIOUS
      <4> QED BY <3>1, <4>1
    <3>2. ASSUME NEW p \in Q, b \in Blocks(p[3])
          PROVE  \E i \in DOMAIN queue : b \in Blocks(queue[i])
      <4> HIDE DEF Q
      <4> QED BY <1>3, <3>2
    <3> QED BY <3>1, <3>2
  <2> HIDE DEF Q
  <2> QED BY <2>1 DEF Cover
<1>7. UNION {Blocks(p[3]) : p \in C} = AskedFor
  <2>1. \A b : (\E p \in C : b \in Blocks(p[3])) <=> (\E w \in Calls : b \in Blocks(at[w].range))
    <3> SUFFICES ASSUME NEW b
                 PROVE  (\E p \in C : b \in Blocks(p[3]))
                          <=> (\E w \in Calls : b \in Blocks(at[w].range))
      OBVIOUS
    <3>1. ASSUME NEW w \in Calls, b \in Blocks(at[w].range)
          PROVE  \E p \in C : b \in Blocks(p[3])
      <4>1. <<"call", w, at[w].range>> \in C /\ <<"call", w, at[w].range>>[3] = at[w].range
        BY DEF Calls
      <4> QED BY <3>1, <4>1
    <3>2. ASSUME NEW p \in C, b \in Blocks(p[3])
          PROVE  \E w \in Calls : b \in Blocks(at[w].range)
      <4> HIDE DEF C
      <4> QED BY <1>4, <3>2
    <3> QED BY <3>1, <3>2
  <2> HIDE DEF C
  <2> QED BY <2>1 DEF AskedFor
<1>8. UNION {Blocks(p[3]) : p \in M} = Cover(missing)
  <2>1. \A b : (\E p \in M : b \in Blocks(p[3]))
                 <=> (\E i \in DOMAIN missing : b \in Blocks(missing[i]))
    <3> SUFFICES ASSUME NEW b
                 PROVE  (\E p \in M : b \in Blocks(p[3]))
                          <=> (\E i \in DOMAIN missing : b \in Blocks(missing[i]))
      OBVIOUS
    <3>1. ASSUME NEW i \in DOMAIN missing, b \in Blocks(missing[i])
          PROVE  \E p \in M : b \in Blocks(p[3])
      <4>1. /\ <<"missing", i, missing[i]>> \in M
            /\ <<"missing", i, missing[i]>>[3] = missing[i]
        OBVIOUS
      <4> QED BY <3>1, <4>1
    <3>2. ASSUME NEW p \in M, b \in Blocks(p[3])
          PROVE  \E i \in DOMAIN missing : b \in Blocks(missing[i])
      <4> HIDE DEF M
      <4> QED BY <1>5, <3>2
    <3> QED BY <3>1, <3>2
  <2> HIDE DEF M
  <2> QED BY <2>1 DEF Cover
<1>9. /\ \A p \in Q : Blocks(p[3]) \subseteq Cover(queue)
      /\ \A p \in C : Blocks(p[3]) \subseteq AskedFor
      /\ \A p \in M : Blocks(p[3]) \subseteq Cover(missing)
  <2> HIDE DEF Q, C, M
  <2> QED BY <1>6, <1>7, <1>8
<1>10. \A p, q \in Q : p # q => Blocks(p[3]) \intersect Blocks(q[3]) = {}
  <2> SUFFICES ASSUME NEW p \in Q, NEW q \in Q, p # q
               PROVE  Blocks(p[3]) \intersect Blocks(q[3]) = {}
    OBVIOUS
  <2>1. PICK i \in DOMAIN queue : p = <<"queue", i, queue[i]>> /\ p[3] = queue[i]
    BY <1>3
  <2>2. PICK j \in DOMAIN queue : q = <<"queue", j, queue[j]>> /\ q[3] = queue[j]
    BY <1>3
  <2>3. i # j
    BY <2>1, <2>2
  <2> QED BY <1>2, <2>1, <2>2, <2>3 DEF Apart
<1>11. \A p, q \in C : p # q => Blocks(p[3]) \intersect Blocks(q[3]) = {}
  <2> SUFFICES ASSUME NEW p \in C, NEW q \in C, p # q
               PROVE  Blocks(p[3]) \intersect Blocks(q[3]) = {}
    OBVIOUS
  <2>1. PICK v \in Calls : p = <<"call", v, at[v].range>> /\ p[3] = at[v].range
    BY <1>4
  <2>2. PICK w \in Calls : q = <<"call", w, at[w].range>> /\ q[3] = at[w].range
    BY <1>4
  <2>3. v # w
    BY <2>1, <2>2
  <2> QED BY <1>2, <2>1, <2>2, <2>3 DEF CallsApart
<1>12. \A p, q \in M : p # q => Blocks(p[3]) \intersect Blocks(q[3]) = {}
  <2> SUFFICES ASSUME NEW p \in M, NEW q \in M, p # q
               PROVE  Blocks(p[3]) \intersect Blocks(q[3]) = {}
    OBVIOUS
  <2>1. PICK i \in DOMAIN missing : p = <<"missing", i, missing[i]>> /\ p[3] = missing[i]
    BY <1>5
  <2>2. PICK j \in DOMAIN missing : q = <<"missing", j, missing[j]>> /\ q[3] = missing[j]
    BY <1>5
  <2>3. i # j
    BY <2>1, <2>2
  <2> QED BY <1>2, <2>1, <2>2, <2>3 DEF Apart
<1>13. Blocks(span) = got \union UNION {Blocks(p[3]) : p \in Pieces}
  <2>1. UNION {Blocks(p[3]) : p \in Q \union C \union M}
          = (UNION {Blocks(p[3]) : p \in Q}) \union (UNION {Blocks(p[3]) : p \in C})
              \union (UNION {Blocks(p[3]) : p \in M})
    <3> HIDE DEF Q, C, M
    <3> QED OBVIOUS
  <2> HIDE DEF Q, C, M
  <2>2. UNION {Blocks(p[3]) : p \in Pieces} = Cover(queue) \union AskedFor \union Cover(missing)
    BY <1>1, <1>6, <1>7, <1>8, <2>1
  <2> QED BY <1>2, <2>2 DEF Parted
<1> HIDE DEF Q, C, M
<1>14. ASSUME NEW p \in Pieces PROVE Blocks(p[3]) \intersect got = {}
  <2>1. Blocks(p[3]) \subseteq Cover(queue) \union AskedFor \union Cover(missing)
    BY <1>1, <1>9
  <2> QED BY <1>2, <2>1 DEF Parted
<1>15. ASSUME NEW p \in Pieces, NEW q \in Pieces, p # q
       PROVE  Blocks(p[3]) \intersect Blocks(q[3]) = {}
  <2>1. /\ Cover(queue) \intersect AskedFor = {} /\ Cover(queue) \intersect Cover(missing) = {}
        /\ AskedFor \intersect Cover(missing) = {}
    BY <1>2 DEF Parted
  <2>2. CASE p \in Q /\ q \in Q
    BY <1>10, <1>15, <2>2
  <2>3. CASE p \in C /\ q \in C
    BY <1>11, <1>15, <2>3
  <2>4. CASE p \in M /\ q \in M
    BY <1>12, <1>15, <2>4
  <2>5. CASE (p \in Q /\ q \in C) \/ (p \in C /\ q \in Q)
    BY <1>9, <2>1, <2>5
  <2>6. CASE (p \in Q /\ q \in M) \/ (p \in M /\ q \in Q)
    BY <1>9, <2>1, <2>6
  <2>7. CASE (p \in C /\ q \in M) \/ (p \in M /\ q \in C)
    BY <1>9, <2>1, <2>7
  <2> QED BY <1>1, <1>15, <2>2, <2>3, <2>4, <2>5, <2>6, <2>7
<1> QED BY <1>13, <1>14, <1>15 DEF EveryBlockOnce

(* A scan that starts over has every block in its queue. *)
LEMMA ScanStarts ==
  ASSUME NEW from \in Int, NEW to \in Int, ScanOf(from, to)
  PROVE  ScanInv'
<1>1. /\ span' = Stretch(from, to)
      /\ queue' = Windows(from, to, WindowBlocks)
      /\ size' = WindowBlocks
      /\ at' = [w \in Workers |-> Loop]
      /\ got' = {} /\ missing' = <<>>
  BY DEF ScanOf
<1>2. WindowBlocks \in Nat /\ 0 < WindowBlocks
  BY ScanAssumption
<1>3. queue' \in Seq(Ranges) /\ Apart(queue') /\ Cover(queue') = from .. to
  BY <1>1, <1>2, WindowsCut
<1>4. span' \in Ranges /\ Blocks(span') = from .. to
  BY <1>1, StretchIn
<1>5. Calls' = {}
  BY <1>1 DEF Calls, Busy, Loop
<1>6. AtType' /\ CallsApart' /\ AskedFor' = {}
  BY <1>1, <1>5 DEF AtType, CallsApart, AskedFor
<1>7. missing' \in Seq(Ranges) /\ Apart(missing') /\ Cover(missing') = {}
  BY <1>1, NoWindows
<1>8. ~ScanOver'
  BY <1>1, ScanAssumption DEF ScanOver, Loop, Done
<1>9. Parted(Blocks(span'), got', Cover(queue'), AskedFor', Cover(missing'))
  BY <1>1, <1>3, <1>4, <1>6, <1>7 DEF Parted
<1>10. ScanTypes'
  BY <1>1, <1>2, <1>3, <1>4, <1>6, <1>7 DEF ScanTypes
<1>11. Once'
  BY <1>3, <1>6, <1>7, <1>9 DEF Once, Apart, Cover, Blocks
<1> QED BY <1>8, <1>10, <1>11 DEF ScanInv

LEMMA NextScanInv ==
  ASSUME span' \in Ranges, queue' \in Seq(Ranges), missing' \in Seq(Ranges),
         size' \in Nat, 0 < size', AtType', CallsApart', Apart(queue'), Apart(missing'),
         Parted(Blocks(span'), got', Cover(queue'), AskedFor', Cover(missing')),
         ScanOver' => queue' = <<>>
  PROVE  ScanInv'
<1>1. ScanTypes'
  BY DEF ScanTypes
<1>2. Once'
  BY DEF Once, Apart, Cover, Blocks
<1> QED BY <1>1, <1>2 DEF ScanInv

(* What every step of a worker starts from. *)
LEMMA ScanFacts ==
  ASSUME ScanInv
  PROVE  /\ span \in Ranges /\ queue \in Seq(Ranges) /\ missing \in Seq(Ranges)
         /\ size \in Nat /\ 0 < size /\ AtType /\ CallsApart
         /\ Apart(queue) /\ Apart(missing)
         /\ Parted(Blocks(span), got, Cover(queue), AskedFor, Cover(missing))
BY DEF ScanInv, ScanTypes, Once

LEMMA LoopIsNoCall ==
  ASSUME NEW w, at[w] = Loop
  PROVE  ~Busy(w)
BY DEF Busy, Loop

LEMMA FinishKeeps ==
  ASSUME ScanInv, NEW w \in Workers, Finish(w)
  PROVE  ScanInv'
<1>1. /\ at[w] = Loop /\ queue = <<>> /\ Moves(w, Done)
      /\ UNCHANGED <<span, queue, size, got, missing>>
  BY Zenon DEF Finish, Turn, Moves
<1>2. AtType' /\ CallsApart' /\ AskedFor' = AskedFor
  BY <1>1, ScanFacts, LoopIsNoCall, NoCall
<1>3. Apart(queue') /\ Apart(missing')
  BY <1>1, ScanFacts
<1>4. Parted(Blocks(span'), got', Cover(queue'), AskedFor', Cover(missing'))
  BY <1>1, <1>2, ScanFacts
<1> QED BY <1>1, <1>2, <1>3, <1>4, ScanFacts, NextScanInv

(* A worker is in its loop, so the scan is not over. *)
LEMMA LoopGoesOn ==
  ASSUME NEW w \in Workers, at[w] = Loop
  PROVE  ~ScanOver
BY DEF ScanOver, Loop, Done

LEMMA GiveUpLateKeeps ==
  ASSUME ScanInv, NEW w \in Workers, GiveUpLate(w)
  PROVE  ScanInv'
<1>1. /\ at[w] = Loop /\ queue # <<>>
      /\ missing' = Append(missing, Head(queue)) /\ queue' = Tail(queue)
      /\ UNCHANGED <<span, size, at, got>>
  BY Zenon DEF GiveUpLate, Turn
<1>2. AtType' /\ CallsApart' /\ AskedFor' = AskedFor
  BY <1>1, ScanFacts DEF AtType, CallsApart, AskedFor, Calls, Busy, Blocks
<1> DEFINE r == Head(queue)
<1>3. /\ r \in Ranges /\ Tail(queue) \in Seq(Ranges) /\ Apart(Tail(queue))
      /\ Cover(queue) = Blocks(r) \union Cover(Tail(queue))
      /\ Blocks(r) \intersect Cover(Tail(queue)) = {}
  BY <1>1, ScanFacts, Popped
<1> HIDE DEF r
<1>4. Parted(Blocks(span), got, Cover(queue), AskedFor, Cover(missing))
  BY ScanFacts
<1>5. Cover(missing) \intersect Blocks(r) = {}
  BY <1>3, <1>4 DEF Parted
<1>6. /\ Append(missing, r) \in Seq(Ranges) /\ Apart(Append(missing, r))
      /\ Cover(Append(missing, r)) = Cover(missing) \union Blocks(r)
  BY <1>3, <1>5, ScanFacts, Added
<1>7. Parted(Blocks(span), got, Cover(Tail(queue)), AskedFor, Cover(Append(missing, r)))
  BY <1>3, <1>4, <1>6 DEF Parted
<1>8. missing' = Append(missing, r)
  BY <1>1 DEF r
<1>9. ~ScanOver'
  BY <1>1, LoopGoesOn DEF ScanOver
<1> QED BY <1>1, <1>2, <1>3, <1>6, <1>7, <1>8, <1>9, ScanFacts, NextScanInv

LEMMA NarrowKeeps ==
  ASSUME ScanInv, NEW w \in Workers, Narrow(w)
  PROVE  ScanInv'
<1>1. /\ at[w] = Loop /\ queue # <<>>
      /\ queue' = Windows(Head(queue).from, Head(queue).to, size) \o Tail(queue)
      /\ UNCHANGED <<span, size, at, got, missing>>
  BY Zenon DEF Narrow, Turn
<1>2. AtType' /\ CallsApart' /\ AskedFor' = AskedFor
  BY <1>1, ScanFacts DEF AtType, CallsApart, AskedFor, Calls, Busy, Blocks
<1> DEFINE r == Head(queue)
           cut == Windows(r.from, r.to, size)
<1>3. /\ r \in Ranges /\ Tail(queue) \in Seq(Ranges) /\ Apart(Tail(queue))
      /\ Cover(queue) = Blocks(r) \union Cover(Tail(queue))
      /\ Blocks(r) \intersect Cover(Tail(queue)) = {}
  BY <1>1, ScanFacts, Popped
<1>4. queue' = cut \o Tail(queue)
  BY <1>1
<1> HIDE DEF r
<1>5. r.from \in Int /\ r.to \in Int /\ Blocks(r) = r.from .. r.to
  BY <1>3 DEF Ranges, Blocks
<1>6. cut \in Seq(Ranges) /\ Apart(cut) /\ Cover(cut) = Blocks(r)
  BY <1>5, ScanFacts, WindowsCut
<1> HIDE DEF cut
<1>7. /\ cut \o Tail(queue) \in Seq(Ranges) /\ Apart(cut \o Tail(queue))
      /\ Cover(cut \o Tail(queue)) = Cover(queue)
  BY <1>3, <1>6, Joined
<1>8. Parted(Blocks(span'), got', Cover(queue'), AskedFor', Cover(missing'))
  BY <1>1, <1>2, <1>4, <1>7, ScanFacts
<1>9. ~ScanOver'
  BY <1>1, LoopGoesOn DEF ScanOver
<1>10. Apart(missing')
  BY <1>1, ScanFacts
<1> QED BY <1>1, <1>2, <1>4, <1>7, <1>8, <1>9, <1>10, ScanFacts, NextScanInv

LEMMA TakeKeeps ==
  ASSUME ScanInv, NEW w \in Workers, Take(w)
  PROVE  ScanInv'
<1>1. /\ at[w] = Loop /\ queue # <<>>
      /\ Moves(w, Call(Head(queue), 0, Endpoint(0)))
      /\ queue' = Tail(queue)
      /\ UNCHANGED <<span, size, got, missing>>
  BY Zenon DEF Take, Turn, Moves
<1> DEFINE r == Head(queue)
<1>2. /\ r \in Ranges /\ Tail(queue) \in Seq(Ranges) /\ Apart(Tail(queue))
      /\ Cover(queue) = Blocks(r) \union Cover(Tail(queue))
      /\ Blocks(r) \intersect Cover(Tail(queue)) = {}
  BY <1>1, ScanFacts, Popped
<1>3. Parted(Blocks(span), got, Cover(queue), AskedFor, Cover(missing))
  BY ScanFacts
<1>4. AtType' /\ CallsApart' /\ AskedFor' = AskedFor \union Blocks(r)
  <2>1. Moves(w, Call(r, 0, Endpoint(0)))
    BY <1>1
  <2>2. Blocks(r) \intersect AskedFor = {}
    <3> HIDE DEF r
    <3> QED BY <1>2, <1>3 DEF Parted
  <2> HIDE DEF r
  <2> QED BY <1>1, <1>2, <2>1, <2>2, ScanFacts, LoopIsNoCall, CallStarts
<1> HIDE DEF r
<1>5. Parted(Blocks(span), got, Cover(Tail(queue)), AskedFor', Cover(missing))
  BY <1>2, <1>3, <1>4 DEF Parted
<1>6. ~ScanOver'
  <2>1. at'[w] = Call(Head(queue), 0, Endpoint(0))
    BY <1>1, ScanFacts, Moved
  <2> QED BY <2>1 DEF ScanOver, Call, Done
<1>7. Parted(Blocks(span'), got', Cover(queue'), AskedFor', Cover(missing'))
  BY <1>1, <1>5
<1>8. Apart(missing') /\ Apart(queue') /\ queue' \in Seq(Ranges)
  BY <1>1, <1>2, ScanFacts
<1> QED BY <1>1, <1>4, <1>6, <1>7, <1>8, ScanFacts, NextScanInv

LEMMA LogsComeKeeps ==
  ASSUME ScanInv, NEW w \in Workers, LogsCome(w)
  PROVE  ScanInv'
<1>1. /\ Busy(w) /\ Moves(w, Loop)
      /\ got' = got \union Blocks(at[w].range)
      /\ UNCHANGED <<span, queue, size, missing>>
  BY Zenon DEF LogsCome, InFlight, Moves
<1> DEFINE r == at[w].range
<1>2. /\ AtType' /\ CallsApart' /\ r \in Ranges
      /\ AskedFor = AskedFor' \union Blocks(r) /\ AskedFor' \intersect Blocks(r) = {}
  BY <1>1, ScanFacts, CallEnds
<1>3. got' = got \union Blocks(r)
  BY <1>1
<1> HIDE DEF r
<1>4. Parted(Blocks(span), got, Cover(queue), AskedFor, Cover(missing))
  BY ScanFacts
<1>5. Parted(Blocks(span), got \union Blocks(r), Cover(queue), AskedFor', Cover(missing))
  BY <1>2, <1>4 DEF Parted
<1>6. Parted(Blocks(span'), got', Cover(queue'), AskedFor', Cover(missing'))
  BY <1>1, <1>3, <1>5
<1>7. ~ScanOver'
  <2>1. at'[w] = Loop
    BY <1>1, ScanFacts, Moved
  <2> QED BY <2>1 DEF ScanOver, Loop, Done
<1>8. Apart(missing') /\ Apart(queue')
  BY <1>1, ScanFacts
<1> QED BY <1>1, <1>2, <1>6, <1>7, <1>8, ScanFacts, NextScanInv

(* The two halves of a window make it up. *)
LEMMA Halves ==
  ASSUME NEW r \in Ranges, Width(r) > 1
  PROVE  LET half == Width(r) \div 2
             low == Stretch(r.from, r.from + half - 1)
             high == Stretch(r.from + half, r.to)
         IN  /\ half \in Nat /\ 0 < half
             /\ low \in Ranges /\ high \in Ranges
             /\ Blocks(r) = Blocks(low) \union Blocks(high)
             /\ Blocks(low) \intersect Blocks(high) = {}
<1> DEFINE half == Width(r) \div 2
           low == Stretch(r.from, r.from + half - 1)
           high == Stretch(r.from + half, r.to)
<1>1. r.from \in Int /\ r.to \in Int /\ Width(r) = r.to - r.from + 1
  BY DEF Ranges, Width
<1>2. half \in Nat /\ 0 < half /\ half < Width(r)
  BY <1>1
<1> HIDE DEF half
<1>3. /\ low \in Ranges /\ Blocks(low) = r.from .. (r.from + half - 1)
      /\ high \in Ranges /\ Blocks(high) = (r.from + half) .. r.to
  BY <1>1, <1>2, StretchIn
<1>4. Blocks(r) = r.from .. r.to
  BY DEF Blocks
<1> HIDE DEF low, high
<1>5. Blocks(r) = Blocks(low) \union Blocks(high) /\ Blocks(low) \intersect Blocks(high) = {}
  BY <1>1, <1>2, <1>3, <1>4
<1> QED BY <1>2, <1>3, <1>5 DEF half, low, high

LEMMA SplitKeeps ==
  ASSUME ScanInv, NEW w \in Workers, Split(w)
  PROVE  ScanInv'
<1> DEFINE r == at[w].range
           half == Width(r) \div 2
           low == Stretch(r.from, r.from + half - 1)
           high == Stretch(r.from + half, r.to)
           two == <<low, high>>
<1>1. /\ Busy(w) /\ Moves(w, Loop) /\ Width(r) > 1
      /\ queue' = two \o queue
      /\ size' = IF half < size THEN half ELSE size
      /\ UNCHANGED <<span, got, missing>>
  BY Zenon DEF Split, Erring, InFlight, Moves
<1>2. /\ AtType' /\ CallsApart' /\ r \in Ranges
      /\ AskedFor = AskedFor' \union Blocks(r) /\ AskedFor' \intersect Blocks(r) = {}
  BY <1>1, ScanFacts, CallEnds
<1> HIDE DEF r
<1>3. /\ half \in Nat /\ 0 < half /\ low \in Ranges /\ high \in Ranges
      /\ Blocks(r) = Blocks(low) \union Blocks(high)
      /\ Blocks(low) \intersect Blocks(high) = {}
  BY <1>1, <1>2, Halves
<1> HIDE DEF half, low, high
<1>4. two \in Seq(Ranges) /\ Apart(two) /\ Cover(two) = Blocks(r)
  <2>1. two = <<low>> \o <<high>>
    <3>1. two = Append(<<low>>, high)
      OBVIOUS
    <3>2. <<low>> \in Seq(Ranges)
      BY <1>3
    <3> QED BY <1>3, <3>1, <3>2, AppendIsConcat
  <2>2. /\ <<low>> \in Seq(Ranges) /\ Apart(<<low>>) /\ Cover(<<low>>) = Blocks(low)
        /\ <<high>> \in Seq(Ranges) /\ Apart(<<high>>) /\ Cover(<<high>>) = Blocks(high)
    BY <1>3, Single
  <2> HIDE DEF two
  <2> QED BY <1>3, <2>1, <2>2, Joined
<1> HIDE DEF two
<1>5. Parted(Blocks(span), got, Cover(queue), AskedFor, Cover(missing))
  BY ScanFacts
<1>6. Cover(two) \intersect Cover(queue) = {}
  BY <1>2, <1>4, <1>5 DEF Parted
<1>7. /\ two \o queue \in Seq(Ranges) /\ Apart(two \o queue)
      /\ Cover(two \o queue) = Blocks(r) \union Cover(queue)
  BY <1>4, <1>6, ScanFacts, Joined
<1>8. Parted(Blocks(span), got, Cover(two \o queue), AskedFor', Cover(missing))
  BY <1>2, <1>5, <1>7 DEF Parted
<1>9. Parted(Blocks(span'), got', Cover(queue'), AskedFor', Cover(missing'))
  BY <1>1, <1>8
<1>10. ~ScanOver'
  <2>1. at'[w] = Loop
    BY <1>1, ScanFacts, Moved
  <2> QED BY <2>1 DEF ScanOver, Loop, Done
<1>11. size' \in Nat /\ 0 < size'
  BY <1>1, <1>3, ScanFacts
<1>12. Apart(missing') /\ Apart(queue') /\ queue' \in Seq(Ranges)
  BY <1>1, <1>7, ScanFacts
<1> QED BY <1>1, <1>2, <1>9, <1>10, <1>11, <1>12, ScanFacts, NextScanInv

(* A call that ends without its logs leaves its window in missing. *)
LEMMA GiveUpKeeps ==
  ASSUME ScanInv, NEW w \in Workers, Busy(w), GiveUp(w), UNCHANGED <<span, queue, size, got>>
  PROVE  ScanInv'
<1> DEFINE r == at[w].range
<1>1. Moves(w, Loop) /\ missing' = Append(missing, r)
  BY Zenon DEF GiveUp, Moves
<1>2. /\ AtType' /\ CallsApart' /\ r \in Ranges
      /\ AskedFor = AskedFor' \union Blocks(r) /\ AskedFor' \intersect Blocks(r) = {}
  BY <1>1, ScanFacts, CallEnds
<1> HIDE DEF r
<1>3. Parted(Blocks(span), got, Cover(queue), AskedFor, Cover(missing))
  BY ScanFacts
<1>4. Cover(missing) \intersect Blocks(r) = {}
  BY <1>2, <1>3 DEF Parted
<1>5. /\ Append(missing, r) \in Seq(Ranges) /\ Apart(Append(missing, r))
      /\ Cover(Append(missing, r)) = Cover(missing) \union Blocks(r)
  BY <1>2, <1>4, ScanFacts, Added
<1>6. Parted(Blocks(span), got, Cover(queue), AskedFor', Cover(Append(missing, r)))
  BY <1>2, <1>3, <1>5 DEF Parted
<1>7. Parted(Blocks(span'), got', Cover(queue'), AskedFor', Cover(missing'))
  BY <1>1, <1>6
<1>8. ~ScanOver'
  <2>1. at'[w] = Loop
    BY <1>1, ScanFacts, Moved
  <2> QED BY <2>1 DEF ScanOver, Loop, Done
<1>9. Apart(missing') /\ Apart(queue') /\ missing' \in Seq(Ranges)
  BY <1>1, <1>5, ScanFacts
<1> QED BY <1>1, <1>2, <1>7, <1>8, <1>9, ScanFacts, NextScanInv

(* A call that is asked again keeps its window. *)
LEMMA AskedAgain ==
  ASSUME ScanInv, NEW w \in Workers, NEW a, NEW u, Busy(w),
         Moves(w, Call(at[w].range, a, u)),
         UNCHANGED <<span, queue, size, got, missing>>
  PROVE  ScanInv'
<1>1. AtType' /\ CallsApart' /\ AskedFor' = AskedFor
  BY ScanFacts, CallGoesOn
<1>2. Parted(Blocks(span'), got', Cover(queue'), AskedFor', Cover(missing'))
  BY <1>1, ScanFacts
<1>3. ~ScanOver'
  <2>1. at'[w] = Call(at[w].range, a, u)
    BY ScanFacts, Moved
  <2> QED BY <2>1 DEF ScanOver, Call, Done
<1>4. Apart(missing') /\ Apart(queue')
  BY ScanFacts
<1> QED BY <1>1, <1>2, <1>3, <1>4, ScanFacts, NextScanInv

LEMMA RefusedKeeps ==
  ASSUME ScanInv, NEW w \in Workers, Refused(w)
  PROVE  ScanInv'
<1>1. Busy(w) /\ GiveUp(w) /\ UNCHANGED <<span, queue, size, got>>
  BY DEF Refused, Erring, InFlight
<1> QED BY <1>1, GiveUpKeeps

LEMMA RetryableKeeps ==
  ASSUME ScanInv, NEW w \in Workers, Retryable(w)
  PROVE  ScanInv'
<1>1. Busy(w) /\ UNCHANGED <<span, queue, size, got>>
  BY DEF Retryable, Erring, InFlight
<1>2. CASE at[w].attempt + 1 < Attempts
  <2>1. /\ missing' = missing
        /\ Moves(w, Call(at[w].range, at[w].attempt + 1, Sleeping))
    BY <1>2, Zenon DEF Retryable, Moves
  <2> QED BY <1>1, <2>1, AskedAgain
<1>3. CASE ~(at[w].attempt + 1 < Attempts)
  <2>1. GiveUp(w)
    BY <1>3 DEF Retryable
  <2> QED BY <1>1, <2>1, GiveUpKeeps
<1> QED BY <1>2, <1>3

LEMMA WakeKeeps ==
  ASSUME ScanInv, NEW w \in Workers, Wake(w)
  PROVE  ScanInv'
<1>1. /\ Busy(w) /\ UNCHANGED <<span, queue, size, got, missing>>
      /\ Moves(w, Call(at[w].range, at[w].attempt, Endpoint(at[w].attempt)))
  BY Zenon DEF Wake, Moves
<1> QED BY <1>1, AskedAgain

LEMMA ScanStepKeeps ==
  ASSUME ScanInv, NEW w \in Workers, ScanStep(w)
  PROVE  ScanInv'
BY FinishKeeps, GiveUpLateKeeps, NarrowKeeps, TakeKeeps, LogsComeKeeps, SplitKeeps,
   RefusedKeeps, RetryableKeeps, WakeKeeps DEF ScanStep

-----------------------------------------------------------------------------
(* Merging what is missing. *)

LEMMA CoverFinite ==
  ASSUME NEW s \in Seq(Ranges)
  PROVE  IsFiniteSet(Cover(s)) /\ Cover(s) \subseteq Int
<1> DEFINE n == Len(s)
           S == {Blocks(s[i]) : i \in 1 .. n}
           f == [i \in 1 .. n |-> Blocks(s[i])]
<1>1. n \in Nat /\ DOMAIN s = 1 .. n /\ \A i \in 1 .. n : s[i] \in Ranges
  OBVIOUS
<1>2. \A i \in 1 .. n : Blocks(s[i]) \subseteq Int /\ IsFiniteSet(Blocks(s[i]))
  <2> SUFFICES ASSUME NEW i \in 1 .. n
               PROVE  Blocks(s[i]) \subseteq Int /\ IsFiniteSet(Blocks(s[i]))
    OBVIOUS
  <2>1. s[i].from \in Int /\ s[i].to \in Int
    BY <1>1 DEF Ranges
  <2> DEFINE a == s[i].from
             b == s[i].to
  <2>2. Blocks(s[i]) = a .. b
    BY DEF Blocks
  <2>3. a \in Int /\ b \in Int
    BY <2>1
  <2> HIDE DEF a, b
  <2>4. IsFiniteSet(a .. b)
    BY <2>3, FS_Interval
  <2>5. a .. b \subseteq Int
    BY <2>3
  <2> QED BY <2>2, <2>4, <2>5
<1>3. f \in Surjection(1 .. n, S)
  BY Zenon DEF Surjection
<1>4. IsFiniteSet(1 .. n)
  BY <1>1, FS_Interval
<1>5. IsFiniteSet(S)
  <2> HIDE DEF f, S
  <2> QED BY <1>3, <1>4, FS_Surjection
<1>6. \A T \in S : IsFiniteSet(T)
  BY <1>2
<1>7. Cover(s) = UNION S
  BY <1>1 DEF Cover
<1>8. IsFiniteSet(UNION S)
  <2> HIDE DEF S
  <2> QED BY <1>5, <1>6, FS_UNION
<1>9. UNION S \subseteq Int
  BY <1>2
<1> QED BY <1>7, <1>8, <1>9

(* Every rank is some member's, and no two members share one. *)
Rank(S, b) == Cardinality({c \in S : c <= b})

LEMMA Ranks ==
  ASSUME NEW S \in SUBSET Int, IsFiniteSet(S)
  PROVE  /\ \A b \in S : Rank(S, b) \in 1 .. Cardinality(S)
         /\ \A b, c \in S : Rank(S, b) = Rank(S, c) => b = c
         /\ \A i \in 1 .. Cardinality(S) : \E b \in S : Rank(S, b) = i
<1> DEFINE n == Cardinality(S)
           Up(b) == {c \in S : c <= b}
           f == [b \in S |-> Rank(S, b)]
<1>1. n \in Nat
  BY FS_CardinalityType
<1>2. ASSUME NEW b \in S PROVE Rank(S, b) \in 1 .. n /\ IsFiniteSet(Up(b))
  <2>1. Up(b) \in SUBSET S /\ b \in Up(b)
    OBVIOUS
  <2>2. IsFiniteSet(Up(b)) /\ Cardinality(Up(b)) <= n
    <3> HIDE DEF Up
    <3> QED BY <2>1, FS_Subset
  <2>3. Cardinality(Up(b)) \in Nat /\ Cardinality(Up(b)) # 0
    <3> HIDE DEF Up
    <3> QED BY <2>1, <2>2, FS_CardinalityType, FS_EmptySet
  <2>4. Rank(S, b) = Cardinality(Up(b))
    BY DEF Rank
  <2> QED BY <1>1, <2>2, <2>3, <2>4
<1>3. ASSUME NEW b \in S, NEW c \in S, b < c PROVE Rank(S, b) # Rank(S, c)
  <2>1. Up(b) \in SUBSET Up(c) /\ Up(b) # Up(c)
    <3>1. b \in Int /\ c \in Int /\ \A x \in S : x \in Int
      OBVIOUS
    <3>2. \A x \in Up(b) : x \in Up(c)
      BY <1>3, <3>1
    <3>3. c \in Up(c) /\ c \notin Up(b)
      BY <1>3, <3>1
    <3> QED BY <3>2, <3>3
  <2>2. IsFiniteSet(Up(c))
    BY <1>2
  <2>3. Cardinality(Up(c)) # Cardinality(Up(b))
    <3> HIDE DEF Up
    <3> QED BY <2>1, <2>2, FS_Subset
  <2> QED BY <2>3 DEF Rank
<1>4. \A b, c \in S : Rank(S, b) = Rank(S, c) => b = c
  <2> SUFFICES ASSUME NEW b \in S, NEW c \in S, b # c PROVE Rank(S, b) # Rank(S, c)
    OBVIOUS
  <2>1. b < c \/ c < b
    OBVIOUS
  <2> QED BY <1>3, <2>1
<1>5. f \in Injection(S, 1 .. n)
  <2>1. f \in [S -> 1 .. n]
    BY <1>2
  <2>2. \A b, c \in S : f[b] = f[c] => b = c
    BY <1>4
  <2>3. DOMAIN f = S
    OBVIOUS
  <2> HIDE DEF f
  <2> QED BY <2>1, <2>2, <2>3 DEF Injection, IsInjective
<1>6. IsFiniteSet(1 .. n) /\ Cardinality(1 .. n) = n
  BY <1>1, FS_Interval
<1>7. f \in Surjection(S, 1 .. n)
  <2> HIDE DEF f, n
  <2>1. Cardinality(S) = Cardinality(1 .. n)
    BY <1>6 DEF n
  <2> QED BY <1>5, <1>6, <2>1, FS_Injection
<1>8. \A i \in 1 .. n : \E b \in S : f[b] = i
  <2> HIDE DEF f
  <2> QED BY <1>7 DEF Surjection
<1> QED BY <1>2, <1>4, <1>8

(* A finite set of numbers has a greatest, and a least. *)
LEMMA Greatest ==
  ASSUME NEW S \in SUBSET Int, IsFiniteSet(S), S # {}
  PROVE  \E b \in S : \A c \in S : c <= b
<1>1. Cardinality(S) \in Nat /\ Cardinality(S) # 0
  BY FS_CardinalityType, FS_EmptySet
<1>2. PICK b \in S : Rank(S, b) = Cardinality(S)
  BY <1>1, Ranks
<1> DEFINE Up == {c \in S : c <= b}
<1>3. Up \in SUBSET S /\ Cardinality(S) = Cardinality(Up)
  BY <1>2 DEF Rank
<1>4. S = Up
  <2> HIDE DEF Up
  <2> QED BY <1>3, FS_Subset
<1> QED BY <1>4

LEMMA LeastOf ==
  ASSUME NEW S \in SUBSET Int, IsFiniteSet(S), S # {}
  PROVE  \E b \in S : \A c \in S : b <= c
<1>1. 1 \in 1 .. Cardinality(S)
  BY FS_CardinalityType, FS_EmptySet
<1>2. PICK b \in S : Rank(S, b) = 1
  BY <1>1, Ranks
<1> SUFFICES ASSUME NEW c \in S, c < b PROVE FALSE
  OBVIOUS
<1>3. Rank(S, c) \in 1 .. Cardinality(S) /\ Rank(S, c) # 1
  BY <1>2, Ranks
<1> DEFINE Low == {x \in S : x <= c}
           Up == {x \in S : x <= b}
<1>4. Low \in SUBSET Up /\ Up \in SUBSET S
  <2>1. b \in Int /\ c \in Int /\ \A x \in S : x \in Int
    OBVIOUS
  <2>2. \A x \in Low : x \in Up
    BY <2>1
  <2> QED BY <2>2
<1>5. IsFiniteSet(Up) /\ Cardinality(Low) <= Cardinality(Up)
  <2> HIDE DEF Low, Up
  <2>1. IsFiniteSet(Up)
    BY <1>4, FS_Subset
  <2> QED BY <1>4, <2>1, FS_Subset
<1>6. Rank(S, c) <= Rank(S, b)
  BY <1>5 DEF Rank
<1>7. Cardinality(S) \in Nat
  BY FS_CardinalityType
<1> QED BY <1>2, <1>3, <1>6, <1>7

LEMMA NthIs ==
  ASSUME NEW S \in SUBSET Int, IsFiniteSet(S), NEW i \in 1 .. Cardinality(S)
  PROVE  Nth(S, i) \in S /\ Rank(S, Nth(S, i)) = i
<1>1. \E b \in S : Cardinality({c \in S : c <= b}) = i
  BY Ranks DEF Rank
<1> QED BY <1>1 DEF Nth, Rank

(* What mergeRanges returns: the same blocks, no two of its ranges sharing one. *)
LEMMA Merged ==
  ASSUME NEW s \in Seq(Ranges)
  PROVE  /\ MergeRanges(s) \in Seq(Ranges)
         /\ Cover(MergeRanges(s)) = Cover(s)
         /\ Apart(MergeRanges(s))
<1> DEFINE blocks == Cover(s)
           starts == {b \in blocks : b - 1 \notin blocks}
           n == Cardinality(starts)
           End(b) == CHOOSE e \in blocks : /\ e >= b /\ e + 1 \notin blocks
                                           /\ b .. e \subseteq blocks
           m == MergeRanges(s)
<1>1. m = [i \in 1 .. n |-> Stretch(Nth(starts, i), End(Nth(starts, i)))]
  BY DEF MergeRanges, Cover
<1>2. IsFiniteSet(blocks) /\ blocks \subseteq Int
  BY CoverFinite
<1> HIDE DEF blocks, m
<1>3. starts \in SUBSET Int /\ IsFiniteSet(starts) /\ starts \subseteq blocks
  <2>1. starts \in SUBSET blocks
    OBVIOUS
  <2> HIDE DEF starts
  <2> QED BY <1>2, <2>1, FS_Subset
<1>4. n \in Nat
  BY <1>3, FS_CardinalityType
<1>5. \A i \in 1 .. n : Nth(starts, i) \in starts /\ Rank(starts, Nth(starts, i)) = i
  <2> SUFFICES ASSUME NEW i \in 1 .. n PROVE Nth(starts, i) \in starts /\ Rank(starts, Nth(starts, i)) = i
    OBVIOUS
  <2> HIDE DEF starts
  <2> QED BY <1>3, NthIs
<1>6. ASSUME NEW b \in blocks
      PROVE  /\ End(b) \in blocks /\ End(b) >= b /\ End(b) + 1 \notin blocks
             /\ b .. End(b) \subseteq blocks
  <2> DEFINE T == {e \in blocks : e >= b /\ b .. e \subseteq blocks}
  <2>1. b \in Int /\ \A x \in blocks : x \in Int
    BY <1>2
  <2>2. b \in T
    BY <2>1
  <2>3. T \in SUBSET blocks /\ T \in SUBSET Int
    BY <1>2
  <2>4. \E e \in T : \A c \in T : c <= e
    <3> HIDE DEF T
    <3>1. IsFiniteSet(T)
      BY <1>2, <2>3, FS_Subset
    <3> QED BY <2>2, <2>3, <3>1, Greatest
  <2>5. PICK e \in T : \A c \in T : c <= e
    BY <2>4
  <2>6. e + 1 \notin blocks
    <3> SUFFICES ASSUME e + 1 \in blocks PROVE FALSE
      OBVIOUS
    <3>1. e \in Int /\ e >= b
      BY <2>3, <2>5
    <3>2. \A x \in b .. (e + 1) : x \in b .. e \/ x = e + 1
      BY <2>1, <3>1
    <3>3. b .. (e + 1) \subseteq blocks
      BY <2>5, <3>2
    <3>4. e + 1 \in T
      BY <2>1, <3>1, <3>3
    <3>5. e + 1 <= e
      <4> HIDE DEF T
      <4> QED BY <2>5, <3>4
    <3> QED BY <3>1, <3>5
  <2>7. \E x \in blocks : x >= b /\ x + 1 \notin blocks /\ b .. x \subseteq blocks
    BY <2>5, <2>6
  <2> QED BY <2>7
<1>7. \A i \in 1 .. n : /\ Nth(starts, i) \in Int /\ End(Nth(starts, i)) \in Int
                        /\ Nth(starts, i) .. End(Nth(starts, i)) \subseteq blocks
  <2> SUFFICES ASSUME NEW i \in 1 .. n
               PROVE  /\ Nth(starts, i) \in Int /\ End(Nth(starts, i)) \in Int
                      /\ Nth(starts, i) .. End(Nth(starts, i)) \subseteq blocks
    OBVIOUS
  <2>1. Nth(starts, i) \in blocks
    BY <1>3, <1>5
  <2> HIDE DEF End
  <2> QED BY <1>2, <1>6, <2>1
<1> HIDE DEF End, n
<1>8. DOMAIN m = 1 .. n /\ \A i \in 1 .. n : m[i] = Stretch(Nth(starts, i), End(Nth(starts, i)))
  BY <1>1
<1>9. \A i \in 1 .. n : m[i] \in Ranges /\ Blocks(m[i]) = Nth(starts, i) .. End(Nth(starts, i))
  <2> SUFFICES ASSUME NEW i \in 1 .. n
               PROVE  m[i] \in Ranges /\ Blocks(m[i]) = Nth(starts, i) .. End(Nth(starts, i))
    OBVIOUS
  <2> DEFINE b == Nth(starts, i)
             e == End(b)
  <2>1. b \in Int /\ e \in Int /\ m[i] = Stretch(b, e)
    BY <1>7, <1>8
  <2> HIDE DEF b, e
  <2>2. m[i] \in Ranges /\ Blocks(m[i]) = b .. e
    BY <2>1, StretchIn
  <2> QED BY <2>2 DEF b, e
<1>10. m \in Seq(Ranges)
  <2>1. m = [i \in 1 .. n |-> m[i]]
    BY <1>1, Zenon
  <2>2. m \in [1 .. n -> Ranges]
    BY <1>9, <2>1, Zenon
  <2> QED BY <1>4, <2>2, SeqDef
<1>11. Cover(m) \subseteq blocks
  BY <1>7, <1>8, <1>9, InCover
<1>12. blocks \subseteq Cover(m)
  <2> SUFFICES ASSUME NEW x \in blocks PROVE x \in Cover(m)
    OBVIOUS
  <2> DEFINE T == {b \in blocks : b <= x /\ b .. x \subseteq blocks}
  <2>1. x \in Int /\ \A y \in blocks : y \in Int
    BY <1>2
  <2>2. x \in T /\ T \in SUBSET blocks /\ T \in SUBSET Int
    <3>1. \A y \in x .. x : y = x
      BY <2>1
    <3>2. x <= x /\ x .. x \subseteq blocks
      BY <2>1, <3>1
    <3>3. x \in T
      BY <3>2
    <3> QED BY <2>1, <3>3
  <2>3. \E b \in T : \A c \in T : b <= c
    <3> HIDE DEF T
    <3>1. IsFiniteSet(T)
      BY <1>2, <2>2, FS_Subset
    <3> QED BY <2>2, <3>1, LeastOf
  <2>4. PICK b \in T : \A c \in T : b <= c
    BY <2>3
  <2>5. b \in Int /\ b <= x /\ b .. x \subseteq blocks /\ b \in blocks
    BY <2>2, <2>4
  <2>6. b - 1 \notin blocks
    <3> SUFFICES ASSUME b - 1 \in blocks PROVE FALSE
      OBVIOUS
    <3>1. \A y \in (b - 1) .. x : y \in b .. x \/ y = b - 1
      BY <2>1, <2>5
    <3>2. b - 1 \in T
      BY <2>1, <2>5, <3>1
    <3>3. b <= b - 1
      <4> HIDE DEF T
      <4> QED BY <2>4, <3>2
    <3> QED BY <2>5, <3>3
  <2>7. b \in starts
    BY <2>5, <2>6
  <2>8. PICK i \in 1 .. n : Rank(starts, b) = i
    <3> HIDE DEF starts
    <3> QED BY <1>3, <2>7, Ranks DEF n
  <2>9. Nth(starts, i) = b
    <3> DEFINE c == Nth(starts, i)
    <3>1. c \in starts /\ Rank(starts, c) = i
      BY <1>5
    <3> HIDE DEF starts, c
    <3>2. c = b
      BY <1>3, <2>7, <2>8, <3>1, Ranks
    <3> QED BY <3>2 DEF c
  <2>10. /\ End(b) \in Int /\ End(b) >= b /\ End(b) + 1 \notin blocks
    BY <1>6, <2>1, <2>5
  <2>11. x <= End(b)
    <3> SUFFICES ASSUME End(b) < x PROVE FALSE
      BY <2>1, <2>10
    <3>1. End(b) + 1 \in b .. x
      BY <2>1, <2>5, <2>10
    <3> QED BY <2>5, <2>10, <3>1
  <2>12. x \in Blocks(m[i])
    BY <1>9, <2>1, <2>5, <2>9, <2>10, <2>11
  <2> QED BY <1>8, <2>12, InCover
<1>13. Apart(m)
  <2>1. ASSUME NEW i \in 1 .. n, NEW j \in 1 .. n, Nth(starts, i) < Nth(starts, j)
        PROVE  Blocks(m[i]) \intersect Blocks(m[j]) = {}
    <3>1. Nth(starts, i) \in Int /\ Nth(starts, j) \in Int /\ End(Nth(starts, i)) \in Int /\ End(Nth(starts, j)) \in Int
      BY <1>7
    <3>2. Nth(starts, i) .. End(Nth(starts, i)) \subseteq blocks /\ Nth(starts, j) - 1 \notin blocks
      BY <1>5, <1>7
    <3>3. End(Nth(starts, i)) < Nth(starts, j)
      <4> SUFFICES ASSUME Nth(starts, j) <= End(Nth(starts, i)) PROVE FALSE
        BY <3>1
      <4>1. Nth(starts, j) - 1 \in Nth(starts, i) .. End(Nth(starts, i))
        BY <2>1, <3>1
      <4> QED BY <3>2, <4>1
    <3> QED BY <1>9, <3>1, <3>3
  <2>2. \A i, j \in 1 .. n : i # j => Nth(starts, i) < Nth(starts, j) \/ Nth(starts, j) < Nth(starts, i)
    <3> SUFFICES ASSUME NEW i \in 1 .. n, NEW j \in 1 .. n, i # j
                 PROVE  Nth(starts, i) < Nth(starts, j) \/ Nth(starts, j) < Nth(starts, i)
      OBVIOUS
    <3>1. Nth(starts, i) # Nth(starts, j)
      BY <1>5
    <3> QED BY <1>7, <3>1
  <2> QED BY <1>8, <2>1, <2>2 DEF Apart
<1> QED BY <1>10, <1>11, <1>12, <1>13 DEF m, blocks

LEMMA ReachingKept ==
  ASSUME NEW s \in Seq(Ranges), NEW block \in Int
  PROVE  Reaching(s, block) \in Seq(Ranges)
<1> DEFINE kept == {i \in DOMAIN s : s[i].to >= block}
           n == Cardinality(kept)
<1>1. DOMAIN s = 1 .. Len(s) /\ Len(s) \in Nat /\ \A i \in DOMAIN s : s[i] \in Ranges
  OBVIOUS
<1>2. kept \in SUBSET DOMAIN s /\ DOMAIN s \in SUBSET Int
  BY <1>1
<1>3. Reaching(s, block) = [j \in 1 .. n |-> s[Nth(kept, j)]]
  BY DEF Reaching
<1> HIDE DEF kept
<1>4. IsFiniteSet(kept) /\ n \in Nat
  <2>1. IsFiniteSet(DOMAIN s)
    BY <1>1, FS_Interval
  <2>2. IsFiniteSet(kept)
    BY <1>2, <2>1, FS_Subset
  <2> QED BY <2>2, FS_CardinalityType
<1>5. \A j \in 1 .. n : s[Nth(kept, j)] \in Ranges
  BY <1>1, <1>2, <1>4, NthIs
<1> HIDE DEF n
<1>6. [j \in 1 .. n |-> s[Nth(kept, j)]] \in [1 .. n -> Ranges]
  BY <1>5
<1> QED BY <1>3, <1>4, <1>6, SeqDef

-----------------------------------------------------------------------------
(* The service around the scan: what a load scans are ranges of integers,     *)
(* whatever was read before, and a load that ends leaves no window behind.    *)
Addresses == Cores \union {Router}
Trades == Markets \X Int
Snapshots ==
  [block : Int, cores : SUBSET Cores, launches : SUBSET Pools, problems : BOOLEAN]
Jobs == [addresses : SUBSET Addresses, from : Int, to : Int]
Loads ==
  [snap : Snapshots, jobs : Seq(Jobs) \ {<<>>}, trades : SUBSET Trades,
   missing : Seq(Ranges)]
Tapes ==
  [from : Int, to : Int, trades : SUBSET Trades, missing : Seq(Ranges),
   sources : SUBSET Addresses]

ServiceType ==
  /\ head \in Int
  /\ snapshot # None => snapshot \in Snapshots
  /\ tape # None => tape \in Tapes
  /\ load # None => load \in Loads

ServiceInv == ScanInv /\ ServiceType

LEMMA SnapshotIn ==
  ASSUME NEW block \in Int, NEW failed
  PROVE  SnapshotAt(block, failed) \in Snapshots
<1> DEFINE seen == {m \in Markets \ failed : Born[m] <= block}
<1>1. SnapshotAt(block, failed) =
        [block |-> block, cores |-> seen \intersect Cores,
         launches |-> seen \intersect Pools, problems |-> failed # {}]
  BY DEF SnapshotAt
<1>2. (failed # {}) \in BOOLEAN
  OBVIOUS
<1> DEFINE p == (failed # {})
<1> HIDE DEF seen, p
<1>3. p \in BOOLEAN
  BY <1>2 DEF p
<1>4. [block |-> block, cores |-> seen \intersect Cores,
       launches |-> seen \intersect Pools, problems |-> p] \in Snapshots
  BY <1>3, Zenon DEF Snapshots
<1> QED BY <1>1, <1>4 DEF p

LEMMA SourcesIn ==
  ASSUME NEW snap \in Snapshots
  PROVE  TradeSources(snap) \in SUBSET Addresses
BY DEF TradeSources, Snapshots, Addresses

LEMMA ReadTradesIn ==
  ASSUME NEW blocks \in SUBSET Int, NEW addresses, NEW snap \in Snapshots
  PROVE  ReadTrades(blocks, addresses, snap) \in SUBSET Trades
<1> DEFINE readable == (addresses \intersect snap.cores)
                         \union (IF Router \in addresses THEN snap.launches ELSE {})
<1>1. readable \in SUBSET Markets
  BY DEF Snapshots, Markets
<1>2. ReadTrades(blocks, addresses, snap) = {t \in readable \X blocks : Born[t[1]] <= t[2]}
  BY DEF ReadTrades
<1> HIDE DEF readable
<1>3. readable \X blocks \in SUBSET Trades
  BY <1>1 DEF Trades
<1> QED BY <1>2, <1>3

LEMMA MaxInt ==
  ASSUME NEW a \in Int, NEW b \in Int
  PROVE  Max2(a, b) \in Int
BY DEF Max2

LEMMA TapeAfterIn ==
  ASSUME NEW snap \in Snapshots, NEW trades \in SUBSET Trades, NEW missed \in Seq(Ranges),
         tape # None => tape \in Tapes
  PROVE  TapeAfter(snap, trades, missed) \in Tapes
<1> DEFINE w == snap.block - DayBlocks
           first == [from |-> Max2(0, w), to |-> snap.block, trades |-> trades,
                     missing |-> missed, sources |-> TradeSources(snap)]
           later == [from |-> Max2(w, tape.from), to |-> Max2(snap.block, tape.to),
                     trades |-> {t \in tape.trades \union trades : t[2] >= w},
                     missing |-> Reaching(missed, w),
                     sources |-> tape.sources \union TradeSources(snap)]
           made == IF tape = None THEN first ELSE later
<1>1. TapeAfter(snap, trades, missed) = [made EXCEPT !.trades = Newest(@, MAX_TRADES_KEPT)]
  BY DEF TapeAfter
<1>2. w \in Int /\ snap.block \in Int
  BY ListingAssumption DEF Snapshots
<1>3. TradeSources(snap) \in SUBSET Addresses
  BY SourcesIn
<1>4. ASSUME tape = None PROVE made \in Tapes
  <2>1. Max2(0, w) \in Int
    <3> HIDE DEF w
    <3> QED BY <1>2, MaxInt
  <2>2. first \in Tapes
    <3> HIDE DEF w
    <3> QED BY <1>2, <1>3, <2>1 DEF Tapes
  <2> QED BY <1>4, <2>2
<1>5. ASSUME tape # None PROVE made \in Tapes
  <2>1. tape.from \in Int /\ tape.to \in Int /\ tape.trades \in SUBSET Trades
        /\ tape.sources \in SUBSET Addresses
    BY <1>5 DEF Tapes
  <2>2. Max2(w, tape.from) \in Int /\ Max2(snap.block, tape.to) \in Int
    BY <1>2, <2>1, MaxInt
  <2>3. Reaching(missed, w) \in Seq(Ranges)
    BY <1>2, ReachingKept
  <2>4. {t \in tape.trades \union trades : t[2] >= w} \in SUBSET Trades
    BY <2>1
  <2>5. tape.sources \union TradeSources(snap) \in SUBSET Addresses
    BY <1>3, <2>1
  <2>6. later \in Tapes
    <3> HIDE DEF w
    <3> QED BY <2>2, <2>3, <2>4, <2>5 DEF Tapes
  <2> QED BY <1>5, <2>6
<1> HIDE DEF made
<1>6. made \in Tapes
  BY <1>4, <1>5
<1>7. Newest(made.trades, MAX_TRADES_KEPT) \in SUBSET made.trades
  BY DEF Newest
<1> QED BY <1>1, <1>6, <1>7 DEF Tapes

LEMMA OneJob ==
  ASSUME NEW addresses \in SUBSET Addresses, NEW from \in Int, NEW to \in Int
  PROVE  /\ Job(addresses, from, to) \in Jobs
         /\ <<Job(addresses, from, to)>> \in Seq(Jobs)
BY DEF Job, Jobs

LEMMA FirstJobsIn ==
  ASSUME NEW snap \in Snapshots
  PROVE  FirstJobs(snap) \in Seq(Jobs)
<1>1. TradeSources(snap) \in SUBSET Addresses
  BY SourcesIn
<1>2. snap.block \in Int /\ Max2(0, snap.block - DayBlocks) \in Int
  BY ListingAssumption, MaxInt DEF Snapshots
<1> QED BY <1>1, <1>2, OneJob DEF FirstJobs

LEMMA JobsForIn ==
  ASSUME NEW snap \in Snapshots, tape \in Tapes
  PROVE  JobsFor(snap) \in Seq(Jobs)
<1> DEFINE sources == TradeSources(snap)
           added == sources \ tape.sources
           older == IF added = {} THEN <<>> ELSE <<Job(added, tape.from, tape.to)>>
           again == [i \in DOMAIN tape.missing |->
                       Job(sources, tape.missing[i].from, tape.missing[i].to)]
           newer == IF snap.block > tape.to
                    THEN <<Job(sources, tape.to + 1, snap.block)>> ELSE <<>>
<1>1. JobsFor(snap) = IF sources = {} THEN <<>> ELSE older \o again \o newer
  BY DEF JobsFor
<1>2. sources \in SUBSET Addresses /\ added \in SUBSET Addresses
  BY SourcesIn
<1>3. /\ tape.from \in Int /\ tape.to \in Int /\ tape.to + 1 \in Int /\ snap.block \in Int
      /\ tape.missing \in Seq(Ranges)
  BY DEF Tapes, Snapshots
<1> HIDE DEF sources, added
<1>4. older \in Seq(Jobs) /\ newer \in Seq(Jobs)
  BY <1>2, <1>3, OneJob
<1>5. again \in Seq(Jobs)
  <2> DEFINE n == Len(tape.missing)
             J(i) == Job(sources, tape.missing[i].from, tape.missing[i].to)
  <2>1. n \in Nat /\ DOMAIN tape.missing = 1 .. n
    BY <1>3
  <2>2. \A i \in 1 .. n : tape.missing[i] \in Ranges
    BY <1>3
  <2>3. \A i \in 1 .. n : tape.missing[i].from \in Int /\ tape.missing[i].to \in Int
    BY <2>2 DEF Ranges
  <2>4. \A i \in 1 .. n : J(i) \in Jobs
    BY <1>2, <2>3, OneJob
  <2>5. again = [i \in 1 .. n |-> J(i)]
    BY <2>1
  <2> HIDE DEF n, J
  <2>6. [i \in 1 .. n |-> J(i)] \in [1 .. n -> Jobs]
    BY <2>4
  <2> QED BY <2>1, <2>5, <2>6, SeqDef
<1> HIDE DEF older, again, newer
<1>6. older \o again \o newer \in Seq(Jobs)
  BY <1>4, <1>5
<1> QED BY <1>1, <1>6

(* The parts of a load. *)
LEMMA LoadParts ==
  ASSUME load \in Loads
  PROVE  /\ load.snap \in Snapshots /\ load.trades \in SUBSET Trades
         /\ load.missing \in Seq(Ranges)
         /\ load.jobs \in Seq(Jobs) /\ load.jobs # <<>>
         /\ load = [snap |-> load.snap, jobs |-> load.jobs, trades |-> load.trades,
                    missing |-> load.missing]
BY DEF Loads

LEMMA LoadedIn ==
  ASSUME ScanInv, load \in Loads
  PROVE  LoadedTrades \in SUBSET Trades /\ LoadedMissing \in Seq(Ranges)
<1>1. got \in SUBSET Int
  <2>1. got \subseteq Blocks(span) /\ span \in Ranges
    BY ScanFacts DEF Parted
  <2> QED BY <2>1 DEF Blocks, Ranges
<1>2. ReadTrades(got, Head(load.jobs).addresses, load.snap) \in SUBSET Trades
  BY <1>1, LoadParts, ReadTradesIn
<1>3. MergeRanges(missing) \in Seq(Ranges)
  BY ScanFacts, Merged
<1>4. LoadedTrades \in SUBSET Trades
  BY <1>2, LoadParts DEF LoadedTrades
<1> QED BY <1>3, <1>4, LoadParts DEF LoadedMissing

LEMMA UnchangedScan ==
  ASSUME ScanInv, UNCHANGED <<span, queue, size, at, got, missing>>
  PROVE  ScanInv'
<1>1. Calls' = Calls
  BY DEF Calls, Busy
<1>2. ScanTypes'
  <2>1. at' = at /\ Calls' = Calls /\ AtType
    BY <1>1, ScanFacts
  <2>2. at' = [w \in Workers |-> at'[w]]
    BY <2>1, Zenon DEF AtType
  <2>3. \A w \in Calls' : at'[w].range \in Ranges
    BY <2>1 DEF AtType
  <2>4. AtType'
    BY <2>2, <2>3, Zenon DEF AtType
  <2> QED BY <2>4, ScanFacts DEF ScanTypes
<1>3. AskedFor' = AskedFor /\ CallsApart'
  BY <1>1 DEF ScanInv, Once, AskedFor, CallsApart, Calls, Busy
<1>4. Once'
  BY <1>3 DEF ScanInv, Once, Cover, Apart, Blocks
<1>5. ScanOver' => queue' = <<>>
  BY DEF ScanInv, ScanOver
<1> QED BY <1>2, <1>4, <1>5 DEF ScanInv

LEMMA ServiceStarts == Init => ServiceInv
<1> SUFFICES ASSUME Init PROVE ServiceInv
  OBVIOUS
<1>1. WindowBlocks \in Nat /\ 0 < WindowBlocks
  BY ScanAssumption
<1>2. /\ span = Stretch(0, -1) /\ queue = <<>> /\ size = WindowBlocks
      /\ at = [w \in Workers |-> Done] /\ got = {} /\ missing = <<>>
  BY DEF Init
<1>3. span \in Ranges /\ Blocks(span) = {}
  BY <1>2, StretchIn
<1>4. Calls = {}
  BY <1>2 DEF Calls, Busy, Done
<1>5. AtType /\ CallsApart /\ AskedFor = {}
  BY <1>2, <1>4 DEF AtType, CallsApart, AskedFor
<1>6. ScanTypes
  BY <1>1, <1>2, <1>3, <1>5, NoWindows DEF ScanTypes
<1>7. Once
  BY <1>2, <1>3, <1>5, NoWindows DEF Once, Parted
<1>8. ScanInv
  BY <1>2, <1>6, <1>7 DEF ScanInv
<1>9. ServiceType
  BY ListingAssumption DEF Init, ServiceType
<1> QED BY <1>8, <1>9 DEF ServiceInv

LEMMA CurrentSnapshotKeeps ==
  ASSUME ServiceInv, NEW block \in Int, NEW failed, CurrentSnapshot(block, failed)
  PROVE  ServiceInv'
<1>1. ScanInv'
  BY UnchangedScan DEF ServiceInv, CurrentSnapshot
<1>2. head' \in Int
  BY MaxInt DEF ServiceInv, ServiceType, CurrentSnapshot
<1>3. snapshot' \in Snapshots
  BY SnapshotIn DEF CurrentSnapshot
<1>4. tape' = tape /\ load' = load
  BY DEF CurrentSnapshot
<1> QED BY <1>1, <1>2, <1>3, <1>4 DEF ServiceInv, ServiceType

LEMMA StartLoadKeeps ==
  ASSUME ServiceInv, StartLoad
  PROVE  ServiceInv'
<1> DEFINE jobs == IF tape = None THEN FirstJobs(snapshot) ELSE JobsFor(snapshot)
<1>1. /\ ScanInv /\ head \in Int /\ snapshot \in Snapshots
      /\ tape # None => tape \in Tapes
      /\ load = None
      /\ head' = head /\ snapshot' = snapshot
  BY DEF ServiceInv, ServiceType, StartLoad
<1>2. jobs \in Seq(Jobs)
  BY <1>1, FirstJobsIn, JobsForIn
<1>3. CASE jobs = <<>>
  <2>1. tape' = TapeAfter(snapshot, {}, <<>>) /\ UNCHANGED <<scanVars, load>>
    BY <1>3 DEF StartLoad
  <2>2. tape' \in Tapes
    BY <1>1, <2>1, NoWindows, TapeAfterIn
  <2>3. ScanInv'
    BY <1>1, <2>1, UnchangedScan DEF scanVars
  <2> QED BY <1>1, <2>1, <2>2, <2>3 DEF ServiceInv, ServiceType
<1>4. CASE jobs # <<>>
  <2>1. /\ load' = Loading(snapshot, jobs)
        /\ ScanOf(jobs[1].from, jobs[1].to)
        /\ tape' = tape
    BY <1>4 DEF StartLoad
  <2> HIDE DEF jobs
  <2>2. jobs[1] \in Jobs
    BY <1>2, <1>4
  <2>3. jobs[1].from \in Int /\ jobs[1].to \in Int
    BY <2>2 DEF Jobs
  <2>4. ScanInv'
    BY <2>1, <2>3, ScanStarts
  <2>5. load' \in Loads
    BY <1>1, <1>2, <1>4, <2>1, NoWindows DEF Loading, Loads
  <2> QED BY <1>1, <2>1, <2>4, <2>5 DEF ServiceInv, ServiceType
<1> QED BY <1>3, <1>4

LEMMA ScanKeeps ==
  ASSUME ServiceInv, Scan
  PROVE  ServiceInv'
<1>1. ScanInv'
  BY ScanStepKeeps DEF ServiceInv, Scan
<1> QED BY <1>1 DEF ServiceInv, ServiceType, Scan

LEMMA NextScanKeeps ==
  ASSUME ServiceInv, NextScan
  PROVE  ServiceInv'
<1> DEFINE jobs == load.jobs
<1>1. /\ ScanInv /\ load \in Loads /\ Len(jobs) > 1
      /\ load' = [load EXCEPT !.jobs = Tail(@), !.trades = LoadedTrades,
                              !.missing = LoadedMissing]
      /\ ScanOf(jobs[2].from, jobs[2].to)
  BY DEF ServiceInv, ServiceType, NextScan
<1>2. jobs \in Seq(Jobs)
  BY <1>1, LoadParts
<1> HIDE DEF jobs
<1>3. Tail(jobs) \in Seq(Jobs) /\ Tail(jobs) # <<>> /\ jobs[2] \in Jobs
  <2>1. jobs # <<>> /\ Len(jobs) \in Nat
    BY <1>1, <1>2
  <2>2. Tail(jobs) \in Seq(Jobs) /\ Len(Tail(jobs)) = Len(jobs) - 1
    BY <1>2, <2>1
  <2>3. 2 \in 1 .. Len(jobs)
    BY <1>1, <2>1 DEF jobs
  <2>4. jobs[2] \in Jobs
    BY <1>2, <2>3
  <2>5. Len(Tail(jobs)) # 0
    BY <2>2, <2>3
  <2>6. Tail(jobs) # <<>>
    BY <2>5
  <2> QED BY <2>2, <2>4, <2>6
<1>4. jobs[2].from \in Int /\ jobs[2].to \in Int
  BY <1>3 DEF Jobs
<1>5. ScanInv'
  BY <1>1, <1>4, ScanStarts
<1>6. load' = [snap |-> load.snap, jobs |-> Tail(jobs), trades |-> LoadedTrades,
               missing |-> LoadedMissing]
  BY <1>1, LoadParts DEF jobs
<1>7. load' \in Loads
  <2> DEFINE rest == Tail(jobs)
  <2>1. /\ load.snap \in Snapshots /\ LoadedTrades \in SUBSET Trades
        /\ LoadedMissing \in Seq(Ranges) /\ rest \in Seq(Jobs) \ {<<>>}
    BY <1>1, <1>3, LoadedIn, LoadParts
  <2> HIDE DEF rest
  <2>2. [snap |-> load.snap, jobs |-> rest, trades |-> LoadedTrades,
         missing |-> LoadedMissing] \in Loads
    BY <2>1, Zenon DEF Loads
  <2> QED BY <1>6, <2>2 DEF rest
<1>8. head' = head /\ snapshot' = snapshot /\ tape' = tape
  BY DEF NextScan
<1> QED BY <1>5, <1>7, <1>8 DEF ServiceInv, ServiceType

LEMMA FinishLoadKeeps ==
  ASSUME ServiceInv, FinishLoad
  PROVE  ServiceInv'
<1>1. /\ ScanInv /\ ScanOver /\ load \in Loads /\ (tape # None => tape \in Tapes)
      /\ tape' = TapeAfter(load.snap, LoadedTrades, LoadedMissing)
      /\ load' = None /\ head' = head /\ snapshot' = snapshot
      /\ span' = Stretch(0, -1) /\ got' = {} /\ missing' = <<>>
      /\ size' = WindowBlocks /\ queue' = queue /\ at' = at
  BY DEF ServiceInv, ServiceType, FinishLoad
<1>2. tape' \in Tapes
  BY <1>1, LoadParts, LoadedIn, TapeAfterIn
<1>3. queue' = <<>>
  BY <1>1 DEF ScanInv
<1>4. span' \in Ranges /\ Blocks(span') = {}
  BY <1>1, StretchIn
<1>5. Calls' = {}
  BY <1>1 DEF Calls, Busy, ScanOver, Done
<1>6. AtType' /\ CallsApart' /\ AskedFor' = {}
  BY <1>1, <1>5, ScanFacts DEF AtType, CallsApart, AskedFor, Calls, Busy
<1>7. /\ queue' \in Seq(Ranges) /\ Apart(queue') /\ Cover(queue') = {}
      /\ missing' \in Seq(Ranges) /\ Apart(missing') /\ Cover(missing') = {}
  BY <1>1, <1>3, NoWindows
<1>8. size' \in Nat /\ 0 < size'
  BY <1>1, ScanAssumption
<1>9. Parted(Blocks(span'), got', Cover(queue'), AskedFor', Cover(missing'))
  BY <1>1, <1>4, <1>6, <1>7 DEF Parted
<1>10. ScanInv'
  BY <1>3, <1>4, <1>6, <1>7, <1>8, <1>9, NextScanInv
<1> QED BY <1>1, <1>2, <1>10 DEF ServiceInv, ServiceType

LEMMA ServiceStep == ServiceInv /\ [Next]_vars => ServiceInv'
<1> SUFFICES ASSUME ServiceInv, [Next]_vars PROVE ServiceInv'
  OBVIOUS
<1>1. ASSUME NEW block \in head - 1 .. MaxHead, NEW failed \in SUBSET MayFail,
             CurrentSnapshot(block, failed)
      PROVE  ServiceInv'
  <2>1. block \in Int
    BY ListingAssumption DEF ServiceInv, ServiceType
  <2> QED BY <1>1, <2>1, CurrentSnapshotKeeps
<1>2. CASE StartLoad
  BY <1>2, StartLoadKeeps
<1>3. CASE Late
  <2>1. ScanInv'
    BY <1>3, UnchangedScan DEF ServiceInv, Late
  <2> QED BY <1>3, <2>1 DEF ServiceInv, ServiceType, Late
<1>4. CASE Scan
  BY <1>4, ScanKeeps
<1>5. CASE NextScan
  BY <1>5, NextScanKeeps
<1>6. CASE FinishLoad
  BY <1>6, FinishLoadKeeps
<1>7. CASE UNCHANGED vars
  <2>1. ScanInv'
    BY <1>7, UnchangedScan DEF ServiceInv, vars, scanVars
  <2> QED BY <1>7, <2>1 DEF ServiceInv, ServiceType, vars
<1> QED BY <1>1, <1>2, <1>3, <1>4, <1>5, <1>6, <1>7 DEF Next

(* Whatever the endpoints answer, and whenever snapshots come and loads start, *)
(* the blocks of the scan under way are each read, queued, asked for or given   *)
(* up exactly once, and a load's ranges are ranges (logs.ts:88-131,             *)
(* service.ts:182-245).                                                         *)
THEOREM ServiceInvariance == Spec => []ServiceInv
BY ServiceStarts, ServiceStep, PTL DEF Spec

(* EveryBlockOnce, for every number of workers, endpoints and attempts, every   *)
(* window and every bound on the faults.                                        *)
THEOREM BlocksReadOnce == Spec => []EveryBlockOnce
BY ServiceInvariance, OnceIsOnce, PTL DEF ServiceInv

-----------------------------------------------------------------------------
(***************************************************************************)
(* The deployment scripts (Deployments).  DeployInv says of each process   *)
(* what the command it runs allows, which answer of Circle it waits for,   *)
(* that what it is about to record exists, and that behind the gate it     *)
(* carries what the receipt vouched for.                                   *)
(***************************************************************************)
ProcFields == {"pc", "cmd", "code", "factory", "wallet", "tx", "rehearsed", "passed", "tries", "old"}
Polling == {"factory poll", "poll", "scp poll"}
Custody == {"factory", "factory poll", "look", "broadcast", "poll", "confirm"}

(* A process p of terminal x waits for one of the requests asked.           *)
Awaits(x, p, asked) == p.tx.by = x /\ \E u \in asked : u.id = p.tx

(* What p would record is among the contracts made. *)
ToRecord(p, made) ==
  /\ p.cmd.tool = "self" => p.tx.to \in made
  /\ p.cmd.signer = "private-key" => p.tx \in made
  /\ p.cmd.tool = "compass" /\ p.cmd.signer = "dcw" =>
       PredictCreate2Address(p.factory, Salt(p.wallet), Initcode(p.code, p.cmd.args), p.cmd.chain) \in made

ProcOK(x, p, made, asked) ==
  /\ DOMAIN p = ProcFields
  /\ p.pc # "off" => WellFormed(p.cmd)
  /\ p.pc \in Custody \cup {"on fork", "rehearse", "gate", "key"} => p.cmd.tool = "compass"
  /\ p.pc = "rehearse" => p.cmd.mode # "live"
  /\ p.pc \in Custody => p.cmd.signer = "dcw"
  /\ p.pc = "key" => p.cmd.signer = "private-key"
  /\ p.pc = "wallet" => p.cmd.signer = "dcw"
  /\ p.pc \in {"deploy", "scp poll"} => p.cmd.tool = "self"
  /\ p.pc \in Polling => Awaits(x, p, asked)
  /\ p.pc = "scp poll" => p.tx.to.kind = "scp"
  /\ p.pc \in {"record", "write"} => ToRecord(p, made)
  /\ p.pc = "write" => p.old \subseteq made

(* Behind the gate. *)
Vouched(p) ==
  p.cmd.tool = "compass" /\ p.cmd.mode = "live" /\ ~p.cmd.skip /\ p.cmd.signer = "dcw"
    /\ p.pc \in {"wallet"} \cup Custody
    => Initcode(p.code, p.cmd.args) \in p.passed

ProcsInv ==
  /\ DOMAIN proc = Terminals
  /\ \A x \in Terminals : ProcOK(x, proc[x], code, requests) /\ Vouched(proc[x])

RequestOK(u, made) ==
  /\ DOMAIN u = {"id", "state"}
  /\ u.state = "done" /\ u.id.to.kind = "scp" => u.id.to \in made

ChainInv ==
  /\ \A u \in requests : RequestOK(u, code)
  /\ visible \subseteq code /\ meta \subseteq code

(* A receipt is as old as the run on a fork it describes, or older. *)
ReceiptInv ==
  /\ \A v \in verified : DOMAIN v = {"runs", "chain", "age"} /\ v.age \in Nat
  /\ \A r \in receipt :
       /\ DOMAIN r = {"chain", "blockchain", "fingerprint", "age"} /\ r.age \in Nat
       /\ \E v \in verified : v.runs = r.fingerprint /\ v.chain = r.chain /\ v.age <= r.age

DeployInv == ProcsInv /\ ChainInv /\ ReceiptInv

-----------------------------------------------------------------------------
(* More contracts and the same answers to wait for leave a process sound. *)
LEMMA StillOK ==
  ASSUME NEW x, NEW p, NEW made, NEW more, NEW asked, NEW now,
         made \subseteq more, ProcOK(x, p, made, asked),
         p.pc \in Polling => Awaits(x, p, now)
  PROVE  ProcOK(x, p, more, now)
BY DEF ProcOK, ToRecord

(* What a step of the process of x has to show. *)
LEMMA ProcSteps ==
  ASSUME DeployInv, NEW x \in Terminals, NEW q, Become(x, q), code \subseteq code',
         ProcOK(x, q, code', requests'), Vouched(q),
         \A y \in Terminals : y # x /\ proc[y].pc \in Polling => Awaits(y, proc[y], requests')
  PROVE  ProcsInv'
<1>1. DOMAIN proc' = Terminals /\ proc'[x] = q /\ \A y \in Terminals : y # x => proc'[y] = proc[y]
  BY DEF Become, DeployInv, ProcsInv
<1>2. ASSUME NEW y \in Terminals PROVE ProcOK(y, proc'[y], code', requests') /\ Vouched(proc'[y])
  <2>1. CASE y = x
    BY <1>1, <2>1
  <2>2. CASE y # x
    <3>1. ProcOK(y, proc[y], code, requests) /\ Vouched(proc[y])
      BY DEF DeployInv, ProcsInv
    <3>2. ProcOK(y, proc[y], code', requests')
      BY <2>2, <3>1, StillOK
    <3> QED BY <1>1, <2>2, <3>1, <3>2
  <2> QED BY <2>1, <2>2
<1> QED BY <1>1, <1>2 DEF ProcsInv

(* The other processes' requests stay when the requests do. *)
LEMMA OthersWait ==
  ASSUME DeployInv, requests' = requests
  PROVE  \A y \in Terminals : proc[y].pc \in Polling => Awaits(y, proc[y], requests')
BY DEF DeployInv, ProcsInv, ProcOK

(* A step that leaves chain, requests and records alone. *)
LEMMA InnerStep ==
  ASSUME DeployInv, NEW x \in Terminals, NEW q, Become(x, q),
         UNCHANGED <<code, visible, requests, meta, receipt, verified>>,
         ProcOK(x, q, code, requests), Vouched(q)
  PROVE  DeployInv'
<1>1. ProcsInv'
  BY OthersWait, ProcSteps
<1> QED BY <1>1 DEF DeployInv, ChainInv, ReceiptInv

LEMMA OffOK ==
  ASSUME NEW x, NEW made, NEW asked
  PROVE  ProcOK(x, Off, made, asked) /\ Vouched(Off)
BY DEF Off, ProcOK, ProcFields, Custody, Polling, Vouched

LEMMA ThrowKeeps ==
  ASSUME DeployInv, NEW x \in Terminals, Throw(x),
         UNCHANGED <<code, visible, requests, meta, receipt, verified>>
  PROVE  DeployInv'
BY OffOK, InnerStep DEF Throw

(* What is known of the process of x. *)
LEMMA ProcOf ==
  ASSUME DeployInv, NEW x \in Terminals
  PROVE  ProcOK(x, P(x), code, requests) /\ Vouched(P(x)) /\ DOMAIN P(x) = ProcFields
BY DEF DeployInv, ProcsInv, ProcOK, P

LEMMA RunKeeps ==
  ASSUME DeployInv, NEW x \in Terminals, NEW cmd, Run(x, cmd)
  PROVE  DeployInv'
<1> DEFINE q == [Off EXCEPT !.pc = FirstStep(cmd), !.cmd = cmd, !.code = artifact]
<1>1. /\ WellFormed(cmd) /\ Become(x, q)
      /\ UNCHANGED <<code, visible, requests, meta, receipt, verified>>
  BY DEF Run, outside, files
<1>2. q.pc = FirstStep(cmd) /\ q.cmd = cmd /\ DOMAIN q = ProcFields
  BY DEF Off, ProcFields
<1> HIDE DEF q
<1>3. /\ FirstStep(cmd) \in {"wallet", "on fork", "rehearse", "gate"}
      /\ FirstStep(cmd) = "wallet" => cmd.tool = "self" /\ cmd.mode = "live" /\ cmd.signer = "dcw"
      /\ FirstStep(cmd) # "wallet" => cmd.tool = "compass"
      /\ FirstStep(cmd) = "rehearse" => cmd.mode # "live"
  BY <1>1 DEF FirstStep, WellFormed
<1>4. ProcOK(x, q, code, requests)
  BY <1>1, <1>2, <1>3 DEF ProcOK, Custody, Polling
<1>5. Vouched(q)
  BY <1>2, <1>3 DEF Vouched, Custody
<1> QED BY <1>1, <1>4, <1>5, InnerStep

(* Steps that only move a process on. *)
LEMMA GoKeeps ==
  ASSUME DeployInv, NEW x \in Terminals, NEW pc, Go(x, pc),
         UNCHANGED <<code, visible, requests, meta, receipt, verified>>,
         ProcOK(x, [P(x) EXCEPT !.pc = pc], code, requests), Vouched([P(x) EXCEPT !.pc = pc])
  PROVE  DeployInv'
BY InnerStep DEF Go

(* A process that is moved on keeps everything else. *)
LEMMA MovedOn ==
  ASSUME NEW p, DOMAIN p = ProcFields, NEW pc
  PROVE  LET q == [p EXCEPT !.pc = pc]
         IN  /\ DOMAIN q = ProcFields /\ q.pc = pc /\ q.cmd = p.cmd /\ q.code = p.code
             /\ q.factory = p.factory /\ q.wallet = p.wallet /\ q.tx = p.tx /\ q.passed = p.passed
             /\ q.old = p.old
BY DEF ProcFields

-----------------------------------------------------------------------------
LEMMA ForkKeeps ==
  ASSUME DeployInv, NEW x \in Terminals, VerifyOnFork(x)
  PROVE  DeployInv'
<1> DEFINE runs == Initcode(P(x).code, P(x).cmd.args)
           v0 == [runs |-> runs, chain |-> P(x).cmd.chain, age |-> 0]
           r0 == ReceiptOf(P(x).cmd, P(x).code)
           q == [P(x) EXCEPT !.pc = "alive"]
<1>1. /\ verified' = {v \in verified : v.runs # runs \/ v.chain # P(x).cmd.chain} \cup {v0}
      /\ receipt' = {r0} /\ Go(x, "alive") /\ At(x, "on fork")
      /\ UNCHANGED <<code, visible, requests, meta>>
  BY DEF VerifyOnFork, NowVerified, outside
<1>2. ProcOK(x, P(x), code, requests) /\ DOMAIN P(x) = ProcFields
  BY ProcOf
<1>3. P(x).pc = "on fork"
  BY <1>1 DEF At, P
<1>4. /\ DOMAIN q = ProcFields /\ q.pc = "alive" /\ q.cmd = P(x).cmd
  BY <1>2, MovedOn
<1> HIDE DEF q
<1>5. ProcOK(x, q, code, requests) /\ Vouched(q)
  BY <1>2, <1>3, <1>4 DEF ProcOK, Custody, Polling, Vouched
<1>6. Become(x, q)
  BY <1>1 DEF Go, q
<1>7. ProcsInv'
  BY <1>1, <1>5, <1>6, OthersWait, ProcSteps
<1>8. ReceiptInv'
  <2>1. DOMAIN v0 = {"runs", "chain", "age"} /\ v0.age = 0 /\ v0.runs = runs /\ v0.chain = P(x).cmd.chain
    OBVIOUS
  <2>2. /\ DOMAIN r0 = {"chain", "blockchain", "fingerprint", "age"} /\ r0.age = 0
        /\ r0.fingerprint = runs /\ r0.chain = P(x).cmd.chain
    BY DEF ReceiptOf, Fingerprint, Initcode
  <2> HIDE DEF v0, r0, runs
  <2>3. v0 \in verified' /\ \A v \in verified' : v \in verified \/ v = v0
    BY <1>1
  <2>4. \A v \in verified' : DOMAIN v = {"runs", "chain", "age"} /\ v.age \in Nat
    BY <2>1, <2>3 DEF DeployInv, ReceiptInv
  <2>5. v0.age <= r0.age /\ r0.age \in Nat
    BY <2>1, <2>2
  <2>6. \A r \in receipt' : r = r0
    BY <1>1
  <2>7. \A r \in receipt' : \E v \in verified' : v.runs = r.fingerprint /\ v.chain = r.chain /\ v.age <= r.age
    BY <2>1, <2>2, <2>3, <2>5, <2>6
  <2> QED BY <2>2, <2>4, <2>5, <2>6, <2>7 DEF ReceiptInv
<1>9. ChainInv'
  BY <1>1 DEF DeployInv, ChainInv
<1> QED BY <1>7, <1>8, <1>9 DEF DeployInv

LEMMA RehearseKeeps ==
  ASSUME DeployInv, NEW x \in Terminals, Rehearse(x)
  PROVE  DeployInv'
<1> DEFINE cmd == P(x).cmd
           end == AfterFork(cmd)
           q == [P(x) EXCEPT !.pc = end,
                   !.rehearsed = IF CompassCan(cmd) THEN CompassAddress(cmd.chain, cmd.args) ELSE NoContract]
<1>1. /\ At(x, "rehearse") /\ UNCHANGED <<code, visible, requests, meta, receipt, verified>>
      /\ Throw(x) \/ (end # "off" /\ Become(x, q))
  BY DEF Rehearse, Throw, outside, files
<1>2. /\ ProcOK(x, P(x), code, requests) /\ DOMAIN P(x) = ProcFields /\ P(x).pc = "rehearse"
  BY <1>1, ProcOf DEF At, P
<1>3. CASE Throw(x)
  BY <1>1, <1>3, ThrowKeeps
<1>4. CASE end # "off" /\ Become(x, q)
  <2>1. q.pc = end /\ q.cmd = cmd /\ DOMAIN q = ProcFields
    BY <1>2 DEF ProcFields
  <2> HIDE DEF q
  <2>2. WellFormed(cmd) /\ cmd.tool = "compass"
    BY <1>2 DEF ProcOK
  <2>3. /\ end \in {"key", "wallet"}
        /\ end = "key" => cmd.signer = "private-key"
        /\ end = "wallet" => cmd.signer = "dcw"
    BY <1>4, <2>2 DEF AfterFork, WellFormed
  <2>4. cmd.mode # "live"
    BY <1>2 DEF ProcOK
  <2>5. ProcOK(x, q, code, requests) /\ Vouched(q)
    BY <2>1, <2>2, <2>3, <2>4 DEF ProcOK, Custody, Polling, Vouched
  <2> QED BY <1>1, <1>4, <2>5, InnerStep
<1> QED BY <1>1, <1>3, <1>4

(* What the gate lets through ran on a fork of that chain lately. *)
LEMMA GateKeeps ==
  ASSUME DeployInv, NEW x \in Terminals, Gate(x)
  PROVE  DeployInv'
<1> DEFINE p == P(x)
           passed == RecentlyVerified(p.cmd.chain)
           q == [p EXCEPT !.pc = AfterFork(p.cmd), !.passed = passed]
<1>1. /\ At(x, "gate") /\ UNCHANGED <<code, visible, requests, meta, receipt, verified>>
      /\ \/ (p.cmd.skip \/ \E r \in receipt : Covers(r, p.cmd, p.code)) /\ Become(x, q)
         \/ Throw(x)
  BY DEF Gate, outside, files
<1>2. ProcOK(x, p, code, requests) /\ DOMAIN p = ProcFields /\ p.pc = "gate"
  BY <1>1, ProcOf DEF At, P
<1>3. CASE Throw(x)
  BY <1>1, <1>3, ThrowKeeps
<1>4. CASE (p.cmd.skip \/ \E r \in receipt : Covers(r, p.cmd, p.code)) /\ Become(x, q)
  <2>1. /\ q.pc = AfterFork(p.cmd) /\ q.cmd = p.cmd /\ q.code = p.code /\ DOMAIN q = ProcFields
        /\ q.passed = passed
    BY <1>2 DEF ProcFields
  <2> HIDE DEF q, passed
  <2>2. WellFormed(p.cmd) /\ p.cmd.tool = "compass"
    BY <1>2 DEF ProcOK
  <2>3. /\ AfterFork(p.cmd) \in {"off", "key", "wallet"}
        /\ AfterFork(p.cmd) = "key" => p.cmd.signer = "private-key"
        /\ AfterFork(p.cmd) = "wallet" => p.cmd.signer = "dcw"
    BY <2>2 DEF AfterFork, WellFormed
  <2>4. ASSUME NEW r \in receipt, Covers(r, p.cmd, p.code)
        PROVE  Initcode(p.code, p.cmd.args) \in passed
    <3>1. PICK v \in verified : v.runs = r.fingerprint /\ v.chain = r.chain /\ v.age <= r.age
      BY DEF DeployInv, ReceiptInv
    <3>2. r.age \in Nat /\ v.age \in Nat /\ r.age <= MaxAge /\ MaxAge \in Nat
      BY <2>4, AgesAreNumbers DEF DeployInv, ReceiptInv, Covers
    <3>3. v.age <= MaxAge
      BY <3>1, <3>2
    <3>4. v.runs = Initcode(p.code, p.cmd.args) /\ v.chain = p.cmd.chain
      BY <2>4, <3>1 DEF Covers, Fingerprint, Initcode
    <3> QED BY <3>3, <3>4 DEF passed, RecentlyVerified
  <2>5. ProcOK(x, q, code, requests)
    BY <2>1, <2>2, <2>3 DEF ProcOK, Custody, Polling
  <2>6. Vouched(q)
    BY <1>4, <2>1, <2>4 DEF Vouched
  <2> QED BY <1>1, <1>4, <2>5, <2>6, InnerStep
<1> QED BY <1>1, <1>3, <1>4

(* A request that is made is waited for; the others' requests stay. *)
LEMMA CreateKeeps ==
  ASSUME DeployInv, NEW x \in Terminals, NEW c, NEW q, Create(x, c), Become(x, q),
         UNCHANGED <<code, visible, meta, receipt, verified>>,
         Awaits(x, q, requests') => ProcOK(x, q, code, requests'),
         q.tx = TxId(x, c), Vouched(q)
  PROVE  DeployInv'
<1> DEFINE u0 == [id |-> TxId(x, c), state |-> "pending"]
<1>1. requests' = {u \in requests : u.id # TxId(x, c)} \cup {u0}
  BY DEF Create
<1>2. DOMAIN u0 = {"id", "state"} /\ u0.id = TxId(x, c) /\ u0.state = "pending"
  OBVIOUS
<1> HIDE DEF u0
<1>3. TxId(x, c).by = x
  BY DEF TxId
<1>4. Awaits(x, q, requests')
  BY <1>1, <1>2, <1>3 DEF Awaits
<1>5. ASSUME NEW y \in Terminals, y # x, proc[y].pc \in Polling PROVE Awaits(y, proc[y], requests')
  <2>1. Awaits(y, proc[y], requests)
    BY <1>5 DEF DeployInv, ProcsInv, ProcOK
  <2>2. proc[y].tx # TxId(x, c)
    BY <1>3, <1>5, <2>1 DEF Awaits
  <2> QED BY <1>1, <2>1, <2>2 DEF Awaits
<1>6. ProcsInv'
  BY <1>4, <1>5, ProcSteps
<1>7. \A u \in requests' : RequestOK(u, code)
  BY <1>1, <1>2 DEF DeployInv, ChainInv, RequestOK
<1> QED BY <1>6, <1>7 DEF DeployInv, ChainInv, ReceiptInv

(* Circle carries a request out; it stays until its process has its answer. *)
LEMMA LandsKeeps ==
  ASSUME DeployInv, NEW u \in requests, CircleLands(u)
  PROVE  DeployInv'
<1> DEFINE c == u.id.to
           made == CASE c.kind = "create2" -> Contract("factory", c.net, c.by[1], <<0, "none">>) \in code
                     [] OTHER -> TRUE
           ok == c \notin code /\ (c.kind = "factory" \/ Constructs(c.runs[1], c.runs[2]))
           w == [u EXCEPT !.state = IF made /\ ~ok THEN "failed" ELSE "done"]
<1>1. /\ code' = IF made /\ ok THEN code \cup {c} ELSE code
      /\ requests' = (requests \ {u}) \cup (IF AwaitedBy(u) = {} THEN {} ELSE {w})
      /\ UNCHANGED <<visible, meta, receipt, verified, proc>>
  BY DEF CircleLands, files
<1>2. DOMAIN u = {"id", "state"}
  BY DEF DeployInv, ChainInv, RequestOK
<1>3. DOMAIN w = {"id", "state"} /\ w.id = u.id /\ w.state = (IF made /\ ~ok THEN "failed" ELSE "done")
  BY <1>2
<1>4. c.kind = "scp" => made
  OBVIOUS
<1> HIDE DEF made, ok, w
<1>5. code \subseteq code' /\ (w.state = "done" /\ c.kind = "scp" => c \in code')
  BY <1>1, <1>3, <1>4
<1>6. \A v \in requests' : RequestOK(v, code')
  BY <1>1, <1>3, <1>5 DEF DeployInv, ChainInv, RequestOK
<1>7. ASSUME NEW y \in Terminals, proc[y].pc \in Polling PROVE Awaits(y, proc[y], requests')
  <2>1. Awaits(y, proc[y], requests)
    BY <1>7 DEF DeployInv, ProcsInv, ProcOK
  <2>2. PICK v \in requests : v.id = proc[y].tx
    BY <2>1 DEF Awaits
  <2>3. CASE v = u
    <3>1. y \in AwaitedBy(u)
      BY <2>2, <2>3 DEF AwaitedBy, P
    <3>2. w \in requests'
      BY <1>1, <3>1
    <3> QED BY <1>3, <2>1, <2>2, <2>3, <3>2 DEF Awaits
  <2>4. CASE v # u
    BY <1>1, <2>1, <2>2, <2>4 DEF Awaits
  <2> QED BY <2>3, <2>4
<1>8. ProcsInv'
  BY <1>1, <1>5, <1>7, StillOK DEF DeployInv, ProcsInv
<1> QED BY <1>1, <1>5, <1>6, <1>8 DEF DeployInv, ChainInv, ReceiptInv

LEMMA PollKeeps ==
  ASSUME DeployInv, NEW x \in Terminals, Poll(x)
  PROVE  DeployInv'
<1>1. /\ P(x).pc \in Polling /\ requests' = requests \ {Tx(x)}
      /\ UNCHANGED <<code, visible, meta, receipt, verified>>
      /\ \/ Tx(x).state = "done" /\ Go(x, AfterPoll(P(x).pc))
         \/ Throw(x)
  BY DEF Poll, Polling, files
<1>2. ProcOK(x, P(x), code, requests) /\ Vouched(P(x)) /\ DOMAIN P(x) = ProcFields
  BY ProcOf
<1>3. Awaits(x, P(x), requests)
  BY <1>1, <1>2 DEF ProcOK
<1>4. Tx(x) \in requests /\ Tx(x).id = P(x).tx
  BY <1>3 DEF Awaits, Tx
<1>5. ASSUME NEW y \in Terminals, y # x, proc[y].pc \in Polling PROVE Awaits(y, proc[y], requests')
  <2>1. Awaits(y, proc[y], requests)
    BY <1>5 DEF DeployInv, ProcsInv, ProcOK
  <2> QED BY <1>1, <1>3, <1>4, <1>5, <2>1 DEF Awaits
<1>6. ASSUME NEW q, Become(x, q), ProcOK(x, q, code, requests'), Vouched(q) PROVE DeployInv'
  <2>1. ProcsInv'
    BY <1>1, <1>5, <1>6, ProcSteps
  <2> QED BY <1>1, <2>1 DEF DeployInv, ChainInv, ReceiptInv
<1>7. CASE Throw(x)
  BY <1>6, <1>7, OffOK DEF Throw
<1>8. CASE Tx(x).state = "done" /\ Go(x, AfterPoll(P(x).pc))
  <2> DEFINE pc == AfterPoll(P(x).pc)
             q == [P(x) EXCEPT !.pc = pc]
  <2>1. /\ DOMAIN q = ProcFields /\ q.pc = pc /\ q.cmd = P(x).cmd /\ q.tx = P(x).tx
        /\ q.code = P(x).code /\ q.passed = P(x).passed
    BY <1>2, MovedOn
  <2>2. Become(x, q)
    BY <1>8 DEF Go
  <2> HIDE DEF q
  <2>3. CASE P(x).pc = "scp poll"
    <3>1. pc = "record" /\ P(x).cmd.tool = "self" /\ WellFormed(P(x).cmd) /\ P(x).tx.to.kind = "scp"
      BY <1>2, <2>3 DEF AfterPoll, ProcOK
    <3>2. P(x).tx.to \in code
      BY <1>4, <1>8, <3>1 DEF DeployInv, ChainInv, RequestOK
    <3>3. P(x).cmd.signer = "dcw"
      BY <3>1 DEF WellFormed
    <3>4. ToRecord(q, code)
      BY <2>1, <3>1, <3>2, <3>3 DEF ToRecord
    <3>5. ProcOK(x, q, code, requests') /\ Vouched(q)
      BY <2>1, <3>1, <3>4 DEF ProcOK, Custody, Polling, Vouched
    <3> QED BY <1>6, <2>2, <3>5
  <2>4. CASE P(x).pc # "scp poll"
    <3>1. pc \in {"look", "confirm"} /\ P(x).pc \in Custody
      BY <1>1, <2>4 DEF AfterPoll, Polling, Custody
    <3>2. P(x).cmd.tool = "compass" /\ P(x).cmd.signer = "dcw" /\ WellFormed(P(x).cmd)
      BY <1>2, <3>1 DEF ProcOK, Custody
    <3>3. ProcOK(x, q, code, requests')
      BY <2>1, <3>1, <3>2 DEF ProcOK, Custody, Polling
    <3>4. Vouched(q)
      BY <1>2, <2>1, <3>1 DEF Vouched
    <3> QED BY <1>6, <2>2, <3>3, <3>4
  <2> QED BY <2>3, <2>4
<1> QED BY <1>1, <1>7, <1>8

-----------------------------------------------------------------------------
(* The wallet is chosen: behind the gate nothing changed that the receipt covered. *)
LEMMA WalletKeeps ==
  ASSUME DeployInv, NEW x \in Terminals, Wallet(x)
  PROVE  DeployInv'
<1> DEFINE w == IF P(x).cmd.wallet = "kept" THEN 0 ELSE fresh + 1
           pc == IF P(x).cmd.tool = "self" THEN "deploy" ELSE "factory"
           q == [P(x) EXCEPT !.wallet = w, !.pc = pc]
<1>1. /\ At(x, "wallet") /\ Become(x, q)
      /\ UNCHANGED <<code, visible, requests, meta, receipt, verified>>
  BY DEF Wallet, files
<1>2. ProcOK(x, P(x), code, requests) /\ Vouched(P(x)) /\ DOMAIN P(x) = ProcFields /\ P(x).pc = "wallet"
  BY <1>1, ProcOf DEF At, P
<1>3. /\ DOMAIN q = ProcFields /\ q.pc = pc /\ q.cmd = P(x).cmd
      /\ q.code = P(x).code /\ q.passed = P(x).passed
  BY <1>2 DEF ProcFields
<1> HIDE DEF q, w
<1>4. WellFormed(P(x).cmd) /\ P(x).cmd.signer = "dcw"
  BY <1>2 DEF ProcOK
<1>5. P(x).cmd.tool = "self" => pc = "deploy"
  OBVIOUS
<1>6. P(x).cmd.tool # "self" => pc = "factory" /\ P(x).cmd.tool = "compass"
  BY <1>4 DEF WellFormed
<1> HIDE DEF pc
<1>7. ProcOK(x, q, code, requests)
  BY <1>3, <1>4, <1>5, <1>6 DEF ProcOK, Custody, Polling
<1>8. Vouched(q)
  BY <1>2, <1>3, <1>5, <1>6 DEF Vouched, Custody
<1> QED BY <1>1, <1>7, <1>8, InnerStep

(* A factory named on the command line is used once the node has it. *)
LEMMA ReuseKeeps ==
  ASSUME DeployInv, NEW x \in Terminals, ReuseFactory(x)
  PROVE  DeployInv'
<1> DEFINE factory == On(OldFactory, P(x).cmd.chain)
           q == [P(x) EXCEPT !.factory = factory, !.pc = "look"]
<1>1. /\ At(x, "factory")
      /\ Become(x, q) \/ Throw(x)
      /\ UNCHANGED <<code, visible, requests, meta, receipt, verified>>
  BY DEF ReuseFactory, outside, files
<1>2. ProcOK(x, P(x), code, requests) /\ Vouched(P(x)) /\ DOMAIN P(x) = ProcFields /\ P(x).pc = "factory"
  BY <1>1, ProcOf DEF At, P
<1>3. /\ DOMAIN q = ProcFields /\ q.pc = "look" /\ q.cmd = P(x).cmd
      /\ q.code = P(x).code /\ q.passed = P(x).passed
  BY <1>2 DEF ProcFields
<1> HIDE DEF q
<1>4. ProcOK(x, q, code, requests) /\ Vouched(q)
  BY <1>2, <1>3 DEF ProcOK, Custody, Polling, Vouched
<1> QED BY <1>1, <1>4, InnerStep, ThrowKeeps

LEMMA FactoryKeeps ==
  ASSUME DeployInv, NEW x \in Terminals, DeployFactory(x)
  PROVE  DeployInv'
<1> DEFINE c == Contract("factory", P(x).cmd.blockchain, fresh + 1, <<0, "none">>)
           id == TxId(x, c)
           q == [P(x) EXCEPT !.factory = c, !.tx = id, !.pc = "factory poll"]
<1>1. /\ At(x, "factory") /\ Create(x, c) /\ Become(x, q)
      /\ UNCHANGED <<code, visible, meta, receipt, verified>>
  BY DEF DeployFactory, files
<1>2. ProcOK(x, P(x), code, requests) /\ Vouched(P(x)) /\ DOMAIN P(x) = ProcFields /\ P(x).pc = "factory"
  BY <1>1, ProcOf DEF At, P
<1> HIDE DEF c
<1>3. /\ DOMAIN q = ProcFields /\ q.pc = "factory poll" /\ q.cmd = P(x).cmd /\ q.tx = TxId(x, c)
      /\ q.code = P(x).code /\ q.passed = P(x).passed
  BY <1>2 DEF ProcFields
<1> HIDE DEF q
<1>4. Vouched(q) /\ (Awaits(x, q, requests') => ProcOK(x, q, code, requests'))
  BY <1>2, <1>3 DEF ProcOK, Custody, Polling, Vouched
<1> QED BY <1>1, <1>3, <1>4, CreateKeeps

(* What the node answers for exists: nothing has to be sent, only recorded. *)
LEMMA LookKeeps ==
  ASSUME DeployInv, NEW x \in Terminals, Look(x)
  PROVE  DeployInv'
<1> DEFINE pc == IF Predicted(x, P(x).cmd.chain) \in visible THEN "record" ELSE "broadcast"
           q == [P(x) EXCEPT !.pc = pc]
<1>1. At(x, "look") /\ Go(x, pc) /\ UNCHANGED <<code, visible, requests, meta, receipt, verified>>
  BY DEF Look, outside, files
<1>2. ProcOK(x, P(x), code, requests) /\ Vouched(P(x)) /\ DOMAIN P(x) = ProcFields /\ P(x).pc = "look"
  BY <1>1, ProcOf DEF At, P
<1>3. /\ DOMAIN q = ProcFields /\ q.pc = pc /\ q.cmd = P(x).cmd /\ q.code = P(x).code
      /\ q.factory = P(x).factory /\ q.wallet = P(x).wallet /\ q.passed = P(x).passed
  BY <1>2, MovedOn
<1>4. pc \in {"record", "broadcast"} /\ (pc = "record" => Predicted(x, P(x).cmd.chain) \in code)
  BY DEF DeployInv, ChainInv
<1>5. P(x).cmd.tool = "compass" /\ P(x).cmd.signer = "dcw" /\ WellFormed(P(x).cmd)
  BY <1>2 DEF ProcOK, Custody
<1> HIDE DEF q, pc
<1>6. pc = "record" => ToRecord(q, code)
  BY <1>3, <1>4, <1>5 DEF ToRecord, Predicted
<1>7. ProcOK(x, q, code, requests)
  BY <1>3, <1>4, <1>5, <1>6 DEF ProcOK, Custody, Polling
<1>8. Vouched(q)
  BY <1>2, <1>3, <1>4 DEF Vouched, Custody
<1> QED BY <1>1, <1>7, <1>8, GoKeeps DEF q

LEMMA BroadcastKeeps ==
  ASSUME DeployInv, NEW x \in Terminals, Broadcast(x)
  PROVE  DeployInv'
<1> DEFINE c == Predicted(x, P(x).cmd.blockchain)
           id == TxId(x, c)
           q == [P(x) EXCEPT !.tx = id, !.pc = "poll"]
<1>1. /\ At(x, "broadcast") /\ Create(x, c) /\ Become(x, q)
      /\ UNCHANGED <<code, visible, meta, receipt, verified>>
  BY DEF Broadcast, files
<1>2. ProcOK(x, P(x), code, requests) /\ Vouched(P(x)) /\ DOMAIN P(x) = ProcFields /\ P(x).pc = "broadcast"
  BY <1>1, ProcOf DEF At, P
<1> HIDE DEF c
<1>3. /\ DOMAIN q = ProcFields /\ q.pc = "poll" /\ q.cmd = P(x).cmd /\ q.tx = TxId(x, c)
      /\ q.code = P(x).code /\ q.passed = P(x).passed
  BY <1>2 DEF ProcFields
<1> HIDE DEF q
<1>4. Vouched(q) /\ (Awaits(x, q, requests') => ProcOK(x, q, code, requests'))
  BY <1>2, <1>3 DEF ProcOK, Custody, Polling, Vouched
<1> QED BY <1>1, <1>3, <1>4, CreateKeeps

LEMMA ConfirmKeeps ==
  ASSUME DeployInv, NEW x \in Terminals, Confirm(x)
  PROVE  DeployInv'
<1> DEFINE q == [P(x) EXCEPT !.pc = "record"]
<1>1. /\ At(x, "confirm") /\ Go(x, "record") /\ Predicted(x, P(x).cmd.chain) \in code
      /\ UNCHANGED <<code, visible, requests, meta, receipt, verified>>
  BY DEF Confirm, outside, files, DeployInv, ChainInv
<1>2. ProcOK(x, P(x), code, requests) /\ DOMAIN P(x) = ProcFields /\ P(x).pc = "confirm"
  BY <1>1, ProcOf DEF At, P
<1>3. /\ DOMAIN q = ProcFields /\ q.pc = "record" /\ q.cmd = P(x).cmd /\ q.code = P(x).code
      /\ q.factory = P(x).factory /\ q.wallet = P(x).wallet
  BY <1>2, MovedOn
<1>4. P(x).cmd.tool = "compass" /\ P(x).cmd.signer = "dcw" /\ WellFormed(P(x).cmd)
  BY <1>2 DEF ProcOK, Custody
<1> HIDE DEF q
<1>5. ToRecord(q, code)
  BY <1>1, <1>3, <1>4 DEF ToRecord, Predicted
<1>6. ProcOK(x, q, code, requests) /\ Vouched(q)
  BY <1>3, <1>4, <1>5 DEF ProcOK, Custody, Polling, Vouched
<1> QED BY <1>1, <1>6, GoKeeps DEF q

LEMMA SelfKeeps ==
  ASSUME DeployInv, NEW x \in Terminals, DeployContract(x)
  PROVE  DeployInv'
<1> DEFINE c == Contract("scp", P(x).cmd.chain, fresh + 1, Initcode(P(x).code, P(x).cmd.args))
           id == TxId(x, c)
           q == [P(x) EXCEPT !.tx = id, !.pc = "scp poll"]
<1>1. /\ At(x, "deploy") /\ Create(x, c) /\ Become(x, q)
      /\ UNCHANGED <<code, visible, meta, receipt, verified>>
  BY DEF DeployContract, files
<1>2. ProcOK(x, P(x), code, requests) /\ DOMAIN P(x) = ProcFields /\ P(x).pc = "deploy"
  BY <1>1, ProcOf DEF At, P
<1>3. c.kind = "scp"
  BY DEF Contract
<1> HIDE DEF c
<1>4. id.to = c
  BY DEF TxId
<1>5. DOMAIN q = ProcFields /\ q.pc = "scp poll" /\ q.cmd = P(x).cmd /\ q.tx = TxId(x, c)
  BY <1>2 DEF ProcFields
<1> HIDE DEF q
<1>6. Vouched(q) /\ (Awaits(x, q, requests') => ProcOK(x, q, code, requests'))
  BY <1>2, <1>3, <1>4, <1>5 DEF ProcOK, Custody, Polling, Vouched
<1> QED BY <1>1, <1>5, <1>6, CreateKeeps

(* A raw key records what it saw mined. *)
LEMMA LiveKeeps ==
  ASSUME DeployInv, NEW x \in Terminals, LiveDeploy(x)
  PROVE  DeployInv'
<1> DEFINE c == CompassAddress(P(x).cmd.chain, P(x).cmd.args)
           q == [P(x) EXCEPT !.tx = c, !.pc = "record"]
<1>1. /\ At(x, "key") /\ code' = code \cup {c}
      /\ Throw(x) \/ Become(x, q) \/ UNCHANGED proc
      /\ UNCHANGED <<visible, requests, meta, receipt, verified>>
  BY DEF LiveDeploy, files
<1>2. ProcOK(x, P(x), code, requests) /\ DOMAIN P(x) = ProcFields /\ P(x).pc = "key"
  BY <1>1, ProcOf DEF At, P
<1> HIDE DEF c
<1>3. DOMAIN q = ProcFields /\ q.pc = "record" /\ q.cmd = P(x).cmd /\ q.tx = c
  BY <1>2 DEF ProcFields
<1> HIDE DEF q
<1>4. P(x).cmd.tool = "compass" /\ P(x).cmd.signer = "private-key" /\ WellFormed(P(x).cmd)
  BY <1>2 DEF ProcOK
<1>5. ProcOK(x, q, code', requests') /\ Vouched(q)
  BY <1>1, <1>3, <1>4 DEF ProcOK, ToRecord, Custody, Polling, Vouched
<1>6. \A y \in Terminals : proc[y].pc \in Polling => Awaits(y, proc[y], requests')
  BY <1>1, OthersWait
<1>7. code \subseteq code'
  BY <1>1
<1>8. ProcsInv'
  <2>1. CASE Throw(x)
    BY <1>6, <1>7, <2>1, OffOK, ProcSteps DEF Throw
  <2>2. CASE Become(x, q)
    BY <1>5, <1>6, <1>7, <2>2, ProcSteps
  <2>3. CASE UNCHANGED proc
    BY <1>6, <1>7, <2>3, StillOK DEF DeployInv, ProcsInv
  <2> QED BY <1>1, <2>1, <2>2, <2>3
<1>9. \A u \in requests : RequestOK(u, code')
  BY <1>7 DEF DeployInv, ChainInv, RequestOK
<1> QED BY <1>1, <1>7, <1>8, <1>9 DEF DeployInv, ChainInv, ReceiptInv

LEMMA RetryKeeps ==
  ASSUME DeployInv, NEW x \in Terminals, TransientError(x)
  PROVE  DeployInv'
<1> DEFINE q == [P(x) EXCEPT !.tries = @ + 1]
<1>1. /\ At(x, "key")
      /\ Throw(x) \/ Become(x, q)
      /\ UNCHANGED <<code, visible, requests, meta, receipt, verified>>
  BY DEF TransientError, outside, files
<1>2. ProcOK(x, P(x), code, requests) /\ DOMAIN P(x) = ProcFields /\ P(x).pc = "key"
  BY <1>1, ProcOf DEF At, P
<1>3. DOMAIN q = ProcFields /\ q.pc = "key" /\ q.cmd = P(x).cmd
  BY <1>2 DEF ProcFields
<1> HIDE DEF q
<1>4. ProcOK(x, q, code, requests) /\ Vouched(q)
  BY <1>2, <1>3 DEF ProcOK, Custody, Polling, Vouched
<1> QED BY <1>1, <1>4, InnerStep, ThrowKeeps

(* What is read back from the file exists, whatever is written meanwhile. *)
LEMMA ReadKeeps ==
  ASSUME DeployInv, NEW x \in Terminals, ReadExistingMetadata(x)
  PROVE  DeployInv'
<1> DEFINE old == IF torn THEN {} ELSE meta
           q == [P(x) EXCEPT !.old = old, !.pc = "write"]
<1>1. /\ At(x, "record") /\ Become(x, q)
      /\ UNCHANGED <<code, visible, requests, meta, receipt, verified>>
  BY DEF ReadExistingMetadata, outside, files
<1>2. ProcOK(x, P(x), code, requests) /\ DOMAIN P(x) = ProcFields /\ P(x).pc = "record"
  BY <1>1, ProcOf DEF At, P
<1>3. old \subseteq code
  BY DEF DeployInv, ChainInv
<1> HIDE DEF old
<1>4. /\ DOMAIN q = ProcFields /\ q.pc = "write" /\ q.cmd = P(x).cmd /\ q.code = P(x).code
      /\ q.factory = P(x).factory /\ q.wallet = P(x).wallet /\ q.tx = P(x).tx /\ q.old = old
  BY <1>2 DEF ProcFields
<1> HIDE DEF q
<1>5. WellFormed(P(x).cmd) /\ ToRecord(P(x), code)
  BY <1>2 DEF ProcOK
<1>6. ToRecord(q, code)
  BY <1>4, <1>5 DEF ToRecord
<1>7. ProcOK(x, q, code, requests) /\ Vouched(q)
  BY <1>3, <1>4, <1>5, <1>6 DEF ProcOK, Custody, Polling, Vouched
<1> QED BY <1>1, <1>7, InnerStep

LEMMA WriteKeeps ==
  ASSUME DeployInv, NEW x \in Terminals, UpsertContractMetadata(x)
  PROVE  DeployInv'
<1>1. /\ At(x, "write") /\ meta' = P(x).old \cup {Entry(x)} /\ Throw(x)
      /\ UNCHANGED <<code, visible, requests, receipt, verified>>
  BY DEF UpsertContractMetadata, outside
<1>2. ProcOK(x, P(x), code, requests) /\ P(x).pc = "write"
  BY <1>1, ProcOf DEF At, P
<1>3. WellFormed(P(x).cmd) /\ ToRecord(P(x), code) /\ P(x).old \subseteq code
  BY <1>2 DEF ProcOK
<1>4. Entry(x) \in code
  <2>1. CASE P(x).cmd.tool = "self"
    BY <1>3, <2>1 DEF Entry, ToRecord, WellFormed
  <2>2. CASE P(x).cmd.tool = "compass" /\ P(x).cmd.signer = "private-key"
    BY <1>3, <2>2 DEF Entry, ToRecord
  <2>3. CASE P(x).cmd.tool = "compass" /\ P(x).cmd.signer = "dcw"
    BY <1>3, <2>3 DEF Entry, ToRecord, Predicted
  <2> QED BY <1>3, <2>1, <2>2, <2>3 DEF WellFormed
<1>5. ProcsInv'
  BY <1>1, OffOK, OthersWait, ProcSteps DEF Throw
<1> QED BY <1>1, <1>3, <1>4, <1>5 DEF DeployInv, ChainInv, ReceiptInv

(* A receipt and the run on a fork it describes grow old together. *)
LEMMA OlderOrdered ==
  ASSUME NEW r, NEW v, "age" \in DOMAIN r, "age" \in DOMAIN v,
         r.age \in Nat, v.age \in Nat, v.age <= r.age
  PROVE  /\ DOMAIN Older(r) = DOMAIN r /\ Older(r).age \in Nat
         /\ \A f \in DOMAIN r \ {"age"} : Older(r)[f] = r[f]
         /\ Older(v).age <= Older(r).age
<1>1. PICK a \in Nat : r.age = a
  OBVIOUS
<1>2. PICK b \in Nat : v.age = b
  OBVIOUS
<1>3. Older(r).age = (IF a > MaxAge THEN a ELSE a + 1) /\ Older(v).age = (IF b > MaxAge THEN b ELSE b + 1)
  BY <1>1, <1>2 DEF Older
<1>4. DOMAIN Older(r) = DOMAIN r /\ \A f \in DOMAIN r \ {"age"} : Older(r)[f] = r[f]
  BY DEF Older
<1>5. (IF b > MaxAge THEN b ELSE b + 1) <= (IF a > MaxAge THEN a ELSE a + 1)
  BY <1>1, <1>2, AgesAreNumbers
<1> QED BY <1>3, <1>4, <1>5

LEMMA TickKeeps ==
  ASSUME DeployInv, Tick
  PROVE  DeployInv'
<1>1. /\ receipt' = {Older(r) : r \in receipt} /\ verified' = {Older(v) : v \in verified}
      /\ UNCHANGED <<code, visible, requests, meta, proc>>
  BY DEF Tick, outside
<1>2. \A v \in verified' : DOMAIN v = {"runs", "chain", "age"} /\ v.age \in Nat
  BY <1>1, OlderOrdered DEF DeployInv, ReceiptInv
<1>3. ASSUME NEW s \in receipt'
      PROVE  /\ DOMAIN s = {"chain", "blockchain", "fingerprint", "age"} /\ s.age \in Nat
             /\ \E w \in verified' : w.runs = s.fingerprint /\ w.chain = s.chain /\ w.age <= s.age
  <2>1. PICK r \in receipt : s = Older(r)
    BY <1>1
  <2>2. DOMAIN r = {"chain", "blockchain", "fingerprint", "age"} /\ r.age \in Nat
    BY DEF DeployInv, ReceiptInv
  <2>3. PICK v \in verified : v.runs = r.fingerprint /\ v.chain = r.chain /\ v.age <= r.age
    BY DEF DeployInv, ReceiptInv
  <2>4. DOMAIN v = {"runs", "chain", "age"} /\ v.age \in Nat
    BY DEF DeployInv, ReceiptInv
  <2>5. /\ DOMAIN Older(r) = DOMAIN r /\ Older(r).age \in Nat /\ Older(v).age <= Older(r).age
        /\ \A f \in DOMAIN r \ {"age"} : Older(r)[f] = r[f]
    BY <2>2, <2>3, <2>4, OlderOrdered
  <2>6. v.age <= v.age
    BY <2>4
  <2>7. \A f \in DOMAIN v \ {"age"} : Older(v)[f] = v[f]
    BY <2>4, <2>6, OlderOrdered
  <2>8. /\ Older(r).fingerprint = r.fingerprint /\ Older(r).chain = r.chain
        /\ Older(v).runs = v.runs /\ Older(v).chain = v.chain
    BY <2>2, <2>4, <2>5, <2>7
  <2>9. Older(v) \in verified'
    BY <1>1
  <2> QED BY <2>1, <2>2, <2>3, <2>5, <2>8, <2>9
<1>4. ReceiptInv'
  BY <1>2, <1>3 DEF ReceiptInv
<1> QED BY <1>1, <1>4 DEF DeployInv, ProcsInv, ChainInv

(* Steps that change nothing the invariant speaks of. *)
LEMMA QuietStep ==
  ASSUME DeployInv, UNCHANGED <<code, requests, meta, receipt, verified, proc>>,
         visible' = visible \/ visible' = code
  PROVE  DeployInv'
BY DEF DeployInv, ProcsInv, ChainInv, ReceiptInv

LEMMA DeployStarts == ASSUME DInit PROVE DeployInv
<1>1. ProcsInv
  <2>1. DOMAIN proc = Terminals /\ \A x \in Terminals : proc[x] = Off
    BY DEF DInit
  <2> QED BY <2>1, OffOK DEF ProcsInv
<1>2. ChainInv /\ ReceiptInv
  BY DEF DInit, ChainInv, ReceiptInv
<1> QED BY <1>1, <1>2 DEF DeployInv

LEMMA DeployStep ==
  ASSUME DeployInv, [DNext]_dVars
  PROVE  DeployInv'
<1>1. ASSUME NEW x \in Terminals, Proceed(x) PROVE DeployInv'
  <2>1. CASE VerifyOnFork(x)
    BY <2>1, ForkKeeps
  <2>2. CASE ForkReverts(x) \/ ForkEnds(x) \/ NoCode(x) \/ KeyRefused(x)
    BY <2>2, ThrowKeeps DEF ForkReverts, ForkEnds, NoCode, KeyRefused, outside, files
  <2>3. CASE Rehearse(x)
    BY <2>3, RehearseKeeps
  <2>4. CASE Gate(x)
    BY <2>4, GateKeeps
  <2>5. CASE Poll(x)
    BY <2>5, PollKeeps
  <2>6. CASE Wallet(x)
    BY <2>6, WalletKeeps
  <2>7. CASE ReuseFactory(x)
    BY <2>7, ReuseKeeps
  <2>8. CASE DeployFactory(x)
    BY <2>8, FactoryKeeps
  <2>9. CASE Look(x)
    BY <2>9, LookKeeps
  <2>10. CASE Broadcast(x)
    BY <2>10, BroadcastKeeps
  <2>11. CASE Confirm(x)
    BY <2>11, ConfirmKeeps
  <2>12. CASE DeployContract(x)
    BY <2>12, SelfKeeps
  <2>13. CASE LiveDeploy(x)
    BY <2>13, LiveKeeps
  <2>14. CASE ReadExistingMetadata(x)
    BY <2>14, ReadKeeps
  <2>15. CASE UpsertContractMetadata(x)
    BY <2>15, WriteKeeps
  <2> QED BY <1>1, <2>1, <2>2, <2>3, <2>4, <2>5, <2>6, <2>7, <2>8, <2>9, <2>10, <2>11, <2>12,
             <2>13, <2>14, <2>15 DEF Proceed
<1>2. ASSUME NEW x \in Terminals, ScriptKilled(x) PROVE DeployInv'
  BY <1>2, ThrowKeeps DEF ScriptKilled, outside
<1>3. ASSUME NEW x \in Terminals, RequestFails(x) \/ PollTimesOut(x) PROVE DeployInv'
  BY <1>3, ThrowKeeps DEF RequestFails, PollTimesOut, outside, files
<1>4. ASSUME NodeSees \/ Rebuild \/ UNCHANGED dVars PROVE DeployInv'
  BY <1>4, QuietStep DEF NodeSees, Rebuild, dVars, files
<1> QED BY <1>1, <1>2, <1>3, <1>4, RetryKeeps, RunKeeps, LandsKeeps, TickKeeps DEF DNext

(* The scripts and everything they run into keep the invariant. *)
THEOREM DeployInvariance == DSpec => []DeployInv
<1>1. DInit => DeployInv
  BY DeployStarts
<1>2. DeployInv /\ [DNext]_dVars => DeployInv'
  BY DeployStep
<1> QED BY <1>1, <1>2, PTL DEF DSpec

(* The metadata file names only contracts that exist on the chain it gives, *)
(* through crashes, late answers, a lagging node and a second terminal that *)
(* writes the file in between: RecordedHasCode.                             *)
THEOREM RecordedExists == DSpec => []RecordedHasCode
<1>1. DeployInv => RecordedHasCode
  BY DEF DeployInv, ChainInv, RecordedHasCode
<1> QED BY <1>1, DeployInvariance, PTL

(* A process at "broadcast" moves by its own broadcast, or is killed. *)
LEMMA OwnStep ==
  ASSUME DeployInv, DNext, NEW x \in Terminals, At(x, "broadcast"), proc'[x] # proc[x], proc'[x] # Off
  PROVE  Broadcast(x)
<1>1. ASSUME NEW y \in Terminals, NEW q, Become(y, q) PROVE y = x /\ q # Off
  <2>1. DOMAIN proc = Terminals
    BY DEF DeployInv, ProcsInv
  <2> QED BY <1>1, <2>1 DEF Become
<1>2. proc' # proc
  OBVIOUS
<1>3. PICK y \in Terminals :
        \/ Proceed(y) \/ ScriptKilled(y) \/ RequestFails(y) \/ PollTimesOut(y) \/ TransientError(y)
        \/ \E cmd \in session[y] : FreshLeft(cmd) /\ Run(y, cmd)
  BY <1>2 DEF DNext, CircleLands, NodeSees, Rebuild, Tick
<1>4. ~Throw(y)
  BY <1>1 DEF Throw
<1>5. y = x
  <2>1. CASE ScriptKilled(y) \/ RequestFails(y) \/ PollTimesOut(y) \/ TransientError(y)
    BY <1>1, <1>4, <2>1 DEF ScriptKilled, RequestFails, PollTimesOut, TransientError
  <2>2. CASE \E cmd \in session[y] : FreshLeft(cmd) /\ Run(y, cmd)
    BY <1>1, <2>2 DEF Run
  <2>3. CASE VerifyOnFork(y) \/ ForkReverts(y) \/ ForkEnds(y) \/ Rehearse(y) \/ Gate(y) \/ Poll(y)
    BY <1>1, <1>4, <2>3 DEF VerifyOnFork, ForkReverts, ForkEnds, Rehearse, Gate, Poll, Go
  <2>4. CASE Wallet(y) \/ ReuseFactory(y) \/ DeployFactory(y) \/ Look(y) \/ Broadcast(y) \/ Confirm(y)
    BY <1>1, <1>4, <2>4 DEF Wallet, ReuseFactory, DeployFactory, Look, Broadcast, Confirm, Go
  <2>5. CASE NoCode(y) \/ DeployContract(y) \/ KeyRefused(y) \/ LiveDeploy(y)
              \/ ReadExistingMetadata(y) \/ UpsertContractMetadata(y)
    BY <1>1, <1>2, <1>4, <2>5
       DEF NoCode, DeployContract, KeyRefused, LiveDeploy, ReadExistingMetadata, UpsertContractMetadata, Go
  <2> QED BY <1>3, <2>1, <2>2, <2>3, <2>4, <2>5 DEF Proceed
<1>6. P(x).pc = "broadcast"
  BY DEF At, P
<1> QED
  BY <1>3, <1>4, <1>5, <1>6
     DEF Proceed, ScriptKilled, RequestFails, PollTimesOut, TransientError, Run, At, P, VerifyOnFork, ForkReverts,
         ForkEnds, Rehearse, Gate, Poll, Wallet, ReuseFactory, DeployFactory, Look, Confirm, NoCode,
         DeployContract, KeyRefused, LiveDeploy, ReadExistingMetadata, UpsertContractMetadata

(* What a custody --mode live sends behind the gate ran on a fork of that   *)
(* chain no longer ago than a receipt lives, whatever is rebuilt and        *)
(* whichever receipt is overwritten meanwhile: CustodyDeploysVerified.      *)
THEOREM CustodyVerified == DSpec => CustodyDeploysVerified
<1>1. ASSUME DeployInv, [DNext]_dVars
      PROVE  [\A x \in Terminals : Gated(x) /\ P(x).cmd.signer = "dcw" => ~SendsUnverified(x)]_dVars
  <2> SUFFICES ASSUME DNext, NEW x \in Terminals, Gated(x), P(x).cmd.signer = "dcw", SendsUnverified(x)
               PROVE  FALSE
    BY <1>1
  <2>1. ProcOK(x, P(x), code, requests) /\ Vouched(P(x)) /\ DOMAIN proc = Terminals
    BY <1>1, ProcOf DEF DeployInv, ProcsInv
  <2>2. At(x, "broadcast") /\ proc'[x].pc = "poll" /\ proc'[x].tx.to.runs \notin P(x).passed
    BY <2>1 DEF SendsUnverified, ProcOK, At, P
  <2>3. Initcode(P(x).code, P(x).cmd.args) \in P(x).passed
    BY <2>1, <2>2 DEF Vouched, Gated, At, P, Custody
  <2>4. proc'[x] # proc[x] /\ proc'[x] # Off
    BY <2>2 DEF At, Off
  <2>5. Broadcast(x)
    BY <1>1, <2>2, <2>4, OwnStep
  <2>6. proc'[x].tx.to.runs = Initcode(P(x).code, P(x).cmd.args)
    <3> DEFINE c == Predicted(x, P(x).cmd.blockchain)
               id == TxId(x, c)
    <3>1. c.runs = Initcode(P(x).code, P(x).cmd.args)
      BY DEF Predicted, PredictCreate2Address, Contract
    <3>2. proc' = [proc EXCEPT ![x] = [P(x) EXCEPT !.tx = id, !.pc = "poll"]]
      BY <2>5 DEF Broadcast, Become
    <3> HIDE DEF c
    <3>3. id.to = c
      BY DEF TxId
    <3> HIDE DEF id
    <3>4. proc'[x].tx = id
      BY <2>1, <3>2 DEF ProcOK, ProcFields
    <3> QED BY <3>1, <3>3, <3>4
  <2> QED BY <2>2, <2>3, <2>6
<1>2. [DNext]_dVars /\ DeployInv
        => [\A x \in Terminals : Gated(x) /\ P(x).cmd.signer = "dcw" => ~SendsUnverified(x)]_dVars
  BY <1>1
<1> QED BY <1>2, DeployInvariance, PTL DEF DSpec, CustodyDeploysVerified

-----------------------------------------------------------------------------
(* The histories a page keeps: sets of blocks, and what of them is kept.    *)
-----------------------------------------------------------------------------
ChainOK ==
  /\ feed \in {"trades", "prices"} /\ DOMAIN chain = 1 .. LastBlock
  /\ feed = "trades" => \A b \in 1 .. (Created - 1) : chain[b] # "ours"

LEMMA HistoryNumbers ==
  /\ LastBlock \in Nat /\ Created \in 1 .. LastBlock /\ Created - 1 \in Nat
  /\ PageRows \in Nat /\ PageRows >= 1 /\ MaxPages \in Nat /\ MaxPages >= 1
  /\ MaxShown \in Nat /\ MaxShown >= 1 /\ MaxTailWindows \in Nat /\ RpcWindows \in Nat
  /\ WINDOW \in Nat /\ MaxTailLogs \in Nat /\ HEAD_TOLERANCE \in Nat
BY HistoryAssumption

(* Blocks are numbers with a first and a last.                              *)
LEMMA EndsOf ==
  ASSUME NEW S, S \subseteq 1 .. LastBlock, S # {}
  PROVE  /\ Min(S) \in S /\ \A b \in S : Min(S) <= b
         /\ Max(S) \in S /\ \A b \in S : b <= Max(S)
<1>1. LastBlock \in Nat /\ S \subseteq Nat
  BY HistoryNumbers
<1>2. \E b \in S : \A c \in S : b <= c
  BY <1>1, HasFirst
<1>3. \E b \in S : \A c \in S : c <= b
  <2> DEFINE Down == {LastBlock - b : b \in S}
  <2>1. Down \subseteq Nat /\ Down # {}
    <3>1. \A b \in S : LastBlock - b \in Nat
      BY <1>1
    <3>2. PICK b \in S : TRUE
      OBVIOUS
    <3>3. LastBlock - b \in Down
      OBVIOUS
    <3> QED BY <3>1, <3>3
  <2>2. PICK d \in Down : \A e \in Down : d <= e
    BY <2>1, HasFirst
  <2>3. PICK b \in S : d = LastBlock - b
    BY <2>2
  <2>4. ASSUME NEW c \in S PROVE c <= b
    <3>1. LastBlock - c \in Down
      OBVIOUS
    <3>2. LastBlock - b <= LastBlock - c
      BY <2>2, <2>3, <3>1
    <3> QED BY <1>1, <3>2
  <2> QED BY <2>4
<1> QED BY <1>2, <1>3 DEF Min, Max

LEMMA BlocksFinite ==
  ASSUME NEW S, S \subseteq 1 .. LastBlock
  PROVE  IsFiniteSet(S) /\ Cardinality(S) \in Nat
<1>1. IsFiniteSet(1 .. LastBlock)
  BY HistoryNumbers, FS_Interval
<1> QED BY <1>1, FS_Subset, FS_CardinalityType

LEMMA FewerBlocks ==
  ASSUME NEW S, S \subseteq 1 .. LastBlock, NEW T, T \subseteq S
  PROVE  Cardinality(T) <= Cardinality(S) /\ Cardinality(T) \in Nat /\ Cardinality(S) \in Nat
<1>1. T \subseteq 1 .. LastBlock
  OBVIOUS
<1> QED BY <1>1, BlocksFinite, FS_Subset

(* The newest of some blocks: none of the others is newer.                  *)
UpIn(T, S) == T \subseteq S /\ \A b \in T, c \in S : c > b => c \in T

LEMMA LatestUp ==
  ASSUME NEW S, S \subseteq 1 .. LastBlock, NEW n \in Nat
  PROVE  UpIn(Latest(S, n), S)
<1> SUFFICES ASSUME NEW b \in Latest(S, n), NEW c \in S, c > b PROVE c \in Latest(S, n)
  BY DEF UpIn, Latest
<1> DEFINE over(x) == {d \in S : d > x}
<1>1. over(c) \subseteq over(b) /\ over(b) \subseteq 1 .. LastBlock
  <2>1. b \in Nat /\ c \in Nat /\ S \subseteq Nat
    BY HistoryNumbers DEF Latest
  <2>2. \A d \in S : d > c => d > b
    BY <2>1
  <2> QED BY <2>2
<1>2. Cardinality(over(c)) <= Cardinality(over(b)) /\ Cardinality(over(c)) \in Nat /\ Cardinality(over(b)) \in Nat
  <2> HIDE DEF over
  <2> QED BY <1>1, FewerBlocks
<1>3. Cardinality(over(b)) < n
  BY DEF Latest
<1>4. Cardinality(over(c)) < n
  <2> HIDE DEF over
  <2> QED BY <1>2, <1>3
<1> QED BY <1>4 DEF Latest

(* Fewer than asked for are all there are.                                  *)
LEMMA LatestAll ==
  ASSUME NEW S, S \subseteq 1 .. LastBlock, NEW n \in Nat
  PROVE  /\ Latest(S, n) # S => Cardinality(Latest(S, n)) >= n
         /\ Cardinality(S) >= n => Cardinality(Latest(S, n)) >= n
         /\ Cardinality(Latest(S, n)) <= Cardinality(S)
<1> DEFINE out == S \ Latest(S, n)
<1>1. Latest(S, n) \subseteq S
  BY DEF Latest
<1>2. ASSUME out # {} PROVE Cardinality(Latest(S, n)) >= n
  <2>1. out \subseteq 1 .. LastBlock
    OBVIOUS
  <2>2. PICK m \in out : \A b \in out : b <= m
    BY <1>2, <2>1, EndsOf
  <2> DEFINE over == {d \in S : d > m}
  <2>3. over \subseteq Latest(S, n)
    <3> SUFFICES ASSUME NEW d \in S, d > m, d \notin Latest(S, n) PROVE FALSE
      OBVIOUS
    <3>1. d <= m /\ d \in Nat /\ m \in Nat
      BY <2>2, HistoryNumbers
    <3> QED BY <3>1
  <2>4. ~(Cardinality(over) < n)
    BY DEF Latest
  <2>5. Latest(S, n) \subseteq 1 .. LastBlock
    BY <1>1
  <2>6. Cardinality(over) <= Cardinality(Latest(S, n)) /\ Cardinality(over) \in Nat
        /\ Cardinality(Latest(S, n)) \in Nat
    <3> HIDE DEF over
    <3> QED BY <2>3, <2>5, FewerBlocks
  <2> HIDE DEF over
  <2> QED BY <2>4, <2>6
<1>3. Cardinality(Latest(S, n)) <= Cardinality(S)
  BY <1>1, FewerBlocks
<1>4. Latest(S, n) # S => out # {}
  BY <1>1
<1>5. Latest(S, n) = S /\ Cardinality(S) >= n => Cardinality(Latest(S, n)) >= n
  OBVIOUS
<1> HIDE DEF out
<1> QED BY <1>2, <1>3, <1>4, <1>5

-----------------------------------------------------------------------------
LEMMA InRows ==
  ASSUME ChainOK, NEW from \in Int, NEW to \in Int, NEW b
  PROVE  /\ b \in Rows(from, to) <=> b \in 1 .. LastBlock /\ from <= b /\ b <= to /\ chain[b] # "none"
         /\ b \in Wanted(from, to) <=>
              b \in Rows(from, to) /\ (feed = "prices" \/ chain[b] = "ours")
<1>1. LastBlock \in Nat
  BY HistoryNumbers
<1> QED BY <1>1 DEF ChainOK, Rows, Wanted

LEMMA WantedParts ==
  ASSUME ChainOK, NEW a \in Int, NEW c \in Int
  PROVE  /\ Wanted(a, c) \subseteq Rows(a, c) /\ Rows(a, c) \subseteq 1 .. LastBlock
         /\ \A b \in Int : a <= b + 1 /\ b <= c => Wanted(a, c) = Wanted(a, b) \cup Wanted(b + 1, c)
         /\ \A b \in Int : a <= b => Wanted(b, c) \subseteq Wanted(a, c)
         /\ \A b \in Int : b <= c => Wanted(a, b) \subseteq Wanted(a, c)
         /\ c < a => Wanted(a, c) = {}
<1>0. LastBlock \in Nat
  BY HistoryNumbers
<1>1. \A x, y \in Int : \A b : b \in Wanted(x, y) <=>
        b \in Int /\ b \in Wanted(1, LastBlock) /\ x <= b /\ b <= y
  BY <1>0, InRows
<1>2. Wanted(a, c) \subseteq Rows(a, c) /\ Rows(a, c) \subseteq 1 .. LastBlock
  BY InRows
<1>3. ASSUME NEW b \in Int, a <= b + 1, b <= c PROVE Wanted(a, c) = Wanted(a, b) \cup Wanted(b + 1, c)
  <2>1. b + 1 \in Int
    OBVIOUS
  <2>2. \A x : x \in Wanted(a, c) <=> x \in Wanted(a, b) \/ x \in Wanted(b + 1, c)
    BY <1>1, <1>3, <2>1
  <2> QED BY <2>2
<1>4. \A b \in Int : a <= b => Wanted(b, c) \subseteq Wanted(a, c)
  BY <1>1
<1>5. \A b \in Int : b <= c => Wanted(a, b) \subseteq Wanted(a, c)
  BY <1>1
<1>6. c < a => Wanted(a, c) = {}
  BY <1>1
<1> QED BY <1>2, <1>3, <1>4, <1>5, <1>6

(* Nothing is wanted from before the launch was created.                    *)
LEMMA NoneBefore ==
  ASSUME ChainOK, NEW a \in Int, NEW b \in Int, BeforeCreation(b)
  PROVE  feed = "trades" /\ b < Created /\ Wanted(a, b) = {} /\ Wanted(Created, b) = {}
<1>1. LastBlock \in Nat /\ Created \in 1 .. LastBlock
  BY HistoryNumbers
<1>2. feed = "trades" /\ b \div 2 < Created \div 2
  BY DEF BeforeCreation, TimeOf
<1>3. b < Created
  BY <1>1, <1>2
<1>4. \A x : x \notin Wanted(a, b) /\ x \notin Wanted(Created, b)
  BY <1>1, <1>2, <1>3, InRows DEF ChainOK
<1> QED BY <1>2, <1>3, <1>4

-----------------------------------------------------------------------------
(* The explorer's history.                                                  *)
Whole(logs, newest) == \E a \in 0 .. newest : logs = Wanted(a, newest)

CoversUpTo(h, to) == h.complete /\ ~Full(h.logs) => Wanted(Start, to) \subseteq h.logs

IsHistory(h, upTo) ==
  /\ h.newest \in 0 .. upTo /\ (h.newest = 0 \/ h.newest \in Rows(1, upTo))
  /\ Whole(h.logs, h.newest) /\ CoversUpTo(h, h.newest)

LEMMA HistoryGrows ==
  ASSUME ChainOK, NEW u \in Nat, NEW v \in Nat, u <= v, NEW h, IsHistory(h, u)
  PROVE  IsHistory(h, v)
<1>1. h.newest \in 0 .. v
  BY DEF IsHistory
<1>2. h.newest \in Rows(1, u) => h.newest \in Rows(1, v)
  BY InRows
<1> QED BY <1>1, <1>2 DEF IsHistory

LEMMA NoHistoryIs ==
  ASSUME ChainOK, NEW u \in Nat
  PROVE  IsHistory(NoHistory, u)
<1>1. Wanted(0, 0) = {}
  BY InRows, HistoryNumbers
<1> QED BY <1>1 DEF IsHistory, NoHistory, Whole, CoversUpTo

LEMMA FirstOf ==
  ASSUME NEW k \in Nat, NEW S, S \subseteq 1 .. k, k \in S
  PROVE  Min(S) \in S
<1>1. S \subseteq Nat /\ S # {}
  OBVIOUS
<1>2. \E b \in S : \A c \in S : b <= c
  BY <1>1, HasFirst
<1> QED BY <1>2 DEF Min

LEMMA FullGrows ==
  ASSUME NEW S, S \subseteq 1 .. LastBlock, NEW T, T \subseteq S, Full(T)
  PROVE  Full(S)
<1>1. Cardinality(T) <= Cardinality(S) /\ Cardinality(T) \in Nat /\ Cardinality(S) \in Nat
  BY FewerBlocks
<1> QED BY <1>1, HistoryNumbers DEF Full

(* The part of the wanted blocks that is kept of a list that is too long.   *)
LEMMA TrimmedWhole ==
  ASSUME ChainOK, NEW upTo \in 0 .. LastBlock, NEW newest \in 0 .. upTo, NEW logs,
         NEW a \in 0 .. newest, logs = Wanted(a, upTo),
         \A b \in Wanted(1, upTo) : b <= newest
  PROVE  /\ Whole(logs, newest)
         /\ Full(logs) => Whole(Latest(logs, MaxShown), newest) /\ Full(Latest(logs, MaxShown))
<1>0. LastBlock \in Nat /\ upTo \in Nat /\ upTo <= LastBlock /\ newest \in Nat /\ MaxShown \in Nat /\ MaxShown >= 1
  BY HistoryNumbers
<1>1. \A c \in 0 .. newest : Wanted(c, upTo) = Wanted(c, newest)
  <2> SUFFICES ASSUME NEW c \in 0 .. newest PROVE \A b : b \in Wanted(c, upTo) <=> b \in Wanted(c, newest)
    OBVIOUS
  <2>1. \A b : b \in Wanted(c, upTo) => b \in Wanted(1, upTo)
    BY <1>0, InRows
  <2>2. \A b : b \in Wanted(c, upTo) => b <= newest
    BY <2>1
  <2> QED BY <1>0, <2>2, InRows
<1>2. Whole(logs, newest)
  BY <1>1 DEF Whole
<1>3. ASSUME Full(logs) PROVE Whole(Latest(logs, MaxShown), newest) /\ Full(Latest(logs, MaxShown))
  <2> DEFINE new == Latest(logs, MaxShown)
  <2>1. logs \subseteq 1 .. LastBlock /\ \A b \in logs : b \in Wanted(1, upTo) /\ b <= upTo /\ b \in Nat
    BY <1>0, InRows
  <2>2. UpIn(new, logs) /\ Cardinality(new) >= MaxShown /\ feed = "trades"
    BY <1>0, <1>3, <2>1, LatestUp, LatestAll DEF Full
  <2> HIDE DEF new
  <2>3. new \subseteq 1 .. LastBlock /\ new \subseteq logs
    BY <2>1, <2>2 DEF UpIn
  <2>4. new # {}
    BY <1>0, <2>2, FS_EmptySet
  <2>5. Min(new) \in new /\ \A b \in new : Min(new) <= b
    BY <2>3, <2>4, EndsOf
  <2>6. Min(new) \in 0 .. newest /\ Min(new) \in Int
    <3> HIDE DEF new
    <3>1. Min(new) \in Wanted(1, upTo) /\ Min(new) \in Nat
      BY <2>1, <2>3, <2>5
    <3>2. Min(new) <= newest
      BY <3>1
    <3> QED BY <1>0, <3>1, <3>2
  <2>7. new = Wanted(Min(new), upTo)
    <3>1. \A b \in Wanted(Min(new), upTo) : b \in logs /\ b >= Min(new) /\ b \in Nat
      <4>1. Min(new) \in logs /\ a <= Min(new)
        <5>m. PICK m : m = Min(new)
          OBVIOUS
        <5>n. m \in new /\ new \subseteq logs
          BY <2>3, <2>5, <5>m
        <5>i. a \in Int /\ upTo \in Int
          BY <1>0
        <5>0. Min(new) \in logs /\ a \in Int /\ upTo \in Int
          BY <5>i, <5>m, <5>n
        <5>1. Min(new) \in Wanted(a, upTo) /\ a \in Int /\ upTo \in Int
          BY <5>0
        <5> QED BY <2>3, <2>5, <5>1, InRows
      <4> QED BY <1>0, <2>6, <4>1, InRows
    <3>2. \A b \in Wanted(Min(new), upTo) : b \in new
      BY <2>2, <2>5, <2>6, <3>1 DEF UpIn
    <3>3. \A b \in new : b \in Wanted(Min(new), upTo)
      BY <1>0, <2>1, <2>3, <2>5, <2>6, InRows
    <3> QED BY <3>2, <3>3
  <2>8. Whole(new, newest)
    BY <1>1, <2>6, <2>7 DEF Whole
  <2>9. Full(new)
    BY <2>2 DEF Full
  <2> QED BY <2>8, <2>9 DEF new
<1> QED BY <1>2, <1>3

(* What a poll reads of the explorer goes on with the history it started    *)
(* from, without a hole, and is all there is when it says so.               *)
LEMMA HistoryReads ==
  ASSUME ChainOK, NEW upTo \in 0 .. LastBlock, NEW known, IsHistory(known, upTo)
  PROVE  IsHistory(HistoryAfter(known, upTo), upTo) /\ CoversUpTo(HistoryAfter(known, upTo), upTo)
<1> DEFINE all == Rows(1, upTo)
           stops == {b \in all : b <= known.newest \/ BeforeCreation(b)}
           Kept(rows) == rows \cap Wanted(1, upTo)
           Above(rows) == IF rows \cap stops = {} THEN rows ELSE {b \in rows : b > Max(rows \cap stops)}
           ends == {p \in 1 .. MaxPages :
                      \/ p = MaxPages \/ FirstPages(upTo, p) = all
                      \/ FirstPages(upTo, p) \cap stops # {}
                      \/ Full(Kept(FirstPages(upTo, p)))}
           scanned == FirstPages(upTo, Min(ends))
           stop == IF scanned \cap stops = {} THEN 0 ELSE Max(scanned \cap stops)
           newRows == Above(scanned)
           reachedKnown == stop # 0 /\ stop <= known.newest
           logs == Kept(newRows) \cup (IF reachedKnown THEN known.logs ELSE {})
           trimmed == IF Full(logs) THEN Latest(logs, MaxShown) ELSE logs
           newest == IF newRows = {} THEN known.newest ELSE Max(newRows \cup {known.newest})
           read == IF reachedKnown THEN known.complete ELSE stop # 0 \/ scanned = all
           h == HistoryAfter(known, upTo)
<1>0. LastBlock \in Nat /\ upTo \in Nat /\ upTo <= LastBlock /\ Created \in 1 .. LastBlock
  BY HistoryNumbers
<1>1. h.logs = trimmed /\ h.newest = newest /\ (h.complete <=> Full(logs) \/ read)
  BY DEF HistoryAfter
<1>2. all \subseteq 1 .. LastBlock /\ \A b \in all : b \in 1 .. upTo /\ b \in Nat
  BY <1>0, InRows
<1>3. /\ known.newest \in 0 .. upTo /\ (known.newest = 0 \/ known.newest \in all)
      /\ Whole(known.logs, known.newest) /\ CoversUpTo(known, known.newest)
  BY DEF IsHistory
<1>4. UpIn(scanned, all) /\ (all # {} => scanned # {})
  <2>1. ends \subseteq 1 .. MaxPages /\ MaxPages \in ends /\ MaxPages \in Nat
    BY HistoryNumbers
  <2>2. Min(ends) \in ends
    <3> HIDE DEF ends
    <3> QED BY <2>1, FirstOf
  <2>3. Min(ends) \in Nat /\ Min(ends) >= 1
    BY <2>1, <2>2
  <2> HIDE DEF ends
  <2>4. PICK n : n = Min(ends) * PageRows
    OBVIOUS
  <2>5. n \in Nat /\ n >= 1
    <3>1. Min(ends) * PageRows >= 1 * 1
      BY <2>3, HistoryNumbers, SMT
    <3> QED BY <2>3, <2>4, <3>1, HistoryNumbers
  <2>6. scanned = Latest(all, n)
    BY <2>4 DEF FirstPages
  <2>7. ASSUME all # {} PROVE Max(all) \in Latest(all, n)
    <3> HIDE DEF all
    <3>1. Max(all) \in all /\ \A b \in all : b <= Max(all)
      BY <1>2, <2>7, EndsOf
    <3>2. {c \in all : c > Max(all)} = {}
      <4>1. PICK m : m = Max(all)
        OBVIOUS
      <4>2. \A c \in all : ~(c > m)
        <5>1. m \in all /\ \A c \in all : c <= m
          BY <3>1, <4>1
        <5>2. m \in Nat /\ \A c \in all : c \in Nat
          BY <1>2, <5>1
        <5> QED BY <5>1, <5>2
      <4> QED BY <4>1, <4>2
    <3>3. Cardinality({c \in all : c > Max(all)}) < n
      BY <2>5, <3>2, FS_EmptySet
    <3> QED BY <3>1, <3>3 DEF Latest
  <2> QED BY <1>2, <2>5, <2>6, <2>7, LatestUp
<1> HIDE DEF h, ends, scanned
<1>5. /\ scanned \cap stops = {} => stop = 0 /\ newRows = scanned
      /\ scanned \cap stops # {} =>
           /\ stop \in scanned /\ stop \in stops /\ stop \in 1 .. upTo
           /\ \A b \in scanned \cap stops : b <= stop
           /\ newRows = {b \in scanned : b > stop}
  <2>1. scanned \cap stops \subseteq 1 .. LastBlock
    BY <1>2
  <2>2. scanned \cap stops # {} => Max(scanned \cap stops) \in scanned \cap stops
                                   /\ \A b \in scanned \cap stops : b <= Max(scanned \cap stops)
    BY <2>1, EndsOf
  <2> QED BY <1>2, <2>2
<1>6. stop = 0 <=> scanned \cap stops = {}
  BY <1>5
<1>7. stop # 0 => stop \in scanned /\ stop \in all /\ \A b \in all : b > stop <=> b \in newRows
  <2>1. \A b \in all : b \in Nat
    BY <1>2
  <2>2. ASSUME stop # 0 PROVE stop \in scanned /\ stop \in all /\ \A b \in all : b > stop <=> b \in newRows
    <3>1. stop \in scanned /\ stop \in Nat /\ stop \in all /\ newRows = {b \in scanned : b > stop}
      BY <1>5, <1>6, <2>2
    <3> HIDE DEF stop, newRows, all
    <3>2. \A b \in all : b > stop => b \in scanned
      BY <1>4, <3>1 DEF UpIn
    <3> QED BY <3>1, <3>2
  <2> QED BY <2>2
(* Read on to what was known, the stop is its newest row; else it is from   *)
(* before the creation.                                                     *)
<1>8. ASSUME reachedKnown PROVE stop = known.newest
  <2>1. scanned \cap stops # {}
    BY <1>6, <1>8
  <2>2. /\ stop \in scanned /\ stop \in 1 .. upTo /\ stop <= known.newest
        /\ \A b \in scanned \cap stops : b <= stop
    BY <1>5, <1>8, <2>1
  <2>3. known.newest \in all /\ known.newest \in stops /\ known.newest \in Nat
    BY <1>3, <2>2
  <2> HIDE DEF stops, stop, all
  <2>4. known.newest > stop => known.newest \in scanned
    BY <1>4, <2>2, <2>3 DEF UpIn
  <2> QED BY <2>2, <2>3, <2>4
<1>9. ASSUME stop # 0, ~reachedKnown PROVE BeforeCreation(stop) /\ stop > known.newest
  <2>1. stop \in stops /\ stop \in 1 .. upTo
    BY <1>5, <1>6, <1>9
  <2> QED BY <1>3, <1>9, <2>1
<1>10. /\ newRows \subseteq all
       /\ newRows # {} => newest \in all /\ newest >= known.newest /\ \A b \in all : b <= newest
  <2>1. UpIn(newRows, all)
    <3>1. stop = 0 => UpIn(newRows, all)
      BY <1>4, <1>5, <1>6
    <3>2. stop # 0 => UpIn(newRows, all)
      <4> SUFFICES ASSUME stop # 0 PROVE UpIn(newRows, all)
        OBVIOUS
      <4>1. newRows \subseteq all /\ stop \in Nat
        BY <1>2, <1>4, <1>5, <1>6, <1>7 DEF UpIn
      <4>2. \A b \in all : (b > stop <=> b \in newRows) /\ b \in Nat
        BY <1>2, <1>7
      <4> HIDE DEF newRows, all, stop
      <4> QED BY <4>1, <4>2 DEF UpIn
    <3> QED BY <3>1, <3>2
  <2>2. ASSUME newRows # {} PROVE newest \in all /\ newest >= known.newest /\ \A b \in all : b <= newest
    <3>0. newest = Max(newRows \cup {known.newest})
      BY <2>2
    <3> HIDE DEF newRows, all, newest
    <3>a. Max(newRows) \in newRows /\ Max(newRows) \in all /\ \A b \in newRows : b <= Max(newRows)
      BY <1>2, <2>1, <2>2, EndsOf DEF UpIn
    <3>b. Max(newRows) \in Nat /\ \A b \in all : b \in Nat
      <4>1. PICK m : m = Max(newRows)
        OBVIOUS
      <4>2. m \in all
        BY <3>a, <4>1
      <4> QED BY <1>2, <4>1, <4>2
    <3>1. Max(newRows) \in newRows /\ Max(newRows) \in all /\ Max(newRows) \in Nat /\ \A b \in newRows : b <= Max(newRows)
      BY <3>a, <3>b
    <3>2. \A b \in all : b \in Nat /\ b <= Max(newRows)
      <4>1. \A b \in all : b > Max(newRows) => b \in newRows
        BY <2>1, <3>1 DEF UpIn
      <4>2. \A b \in all : b > Max(newRows) => b <= Max(newRows)
        BY <3>1, <4>1
      <4> QED BY <3>b, <4>2
    <3>3. known.newest \in Nat /\ known.newest <= Max(newRows)
      <4>1. known.newest \in Nat /\ (known.newest = 0 \/ known.newest \in all)
        BY <1>0, <1>3
      <4> QED BY <3>b, <3>2, <4>1
    <3>4. Max(newRows \cup {known.newest}) = Max(newRows)
      <4> DEFINE S == newRows \cup {known.newest}
      <4>1. Max(newRows) \in S /\ \A b \in S : b \in Int /\ b <= Max(newRows)
        BY <1>2, <2>1, <3>1, <3>3 DEF UpIn
      <4> HIDE DEF S
      <4>2. PICK m : m = Max(newRows)
        OBVIOUS
      <4>3. m \in S /\ \A y \in S : m >= y
        BY <4>1, <4>2
      <4>4. \A x \in S : (\A y \in S : x >= y) => x = m
        BY <4>1, <4>2
      <4>5. Max(S) = m
        BY <4>3, <4>4 DEF Max
      <4> QED BY <4>2, <4>5 DEF S
    <3> QED BY <3>0, <3>1, <3>2, <3>3, <3>4
  <2> QED BY <2>1, <2>2 DEF UpIn
<1>11. newest \in 0 .. upTo /\ (newest = 0 \/ newest \in all) /\ newest >= known.newest
  <2>1. newRows = {} => newest = known.newest
    OBVIOUS
  <2> HIDE DEF newest, newRows
  <2> QED BY <1>2, <1>3, <1>10, <2>1
(* The blocks wanted are not after the newest, and those read start         *)
(* somewhere: where the known ones do, at the first, or at the last page.   *)
<1>12. /\ \A b \in Wanted(1, upTo) : b <= newest
       /\ \E a \in 0 .. newest : logs = Wanted(a, upTo)
       /\ read /\ ~Full(logs) => Wanted(Start, upTo) \subseteq logs
  <2>0. Wanted(1, upTo) \subseteq all
    BY <1>0, InRows
  <2>s. Start \in 1 .. LastBlock
    BY <1>0, HistoryNumbers DEF Start
  <2>1. CASE reachedKnown
    <3>1. stop = known.newest /\ stop # 0 /\ stop \in 1 .. upTo
      BY <1>3, <1>8, <2>1
    <3>2. \A b \in Wanted(1, upTo) : b <= newest
      <4>1. newRows # {} => \A b \in all : b <= newest
        BY <1>10
      <4>2. newRows = {} => \A b \in all : b <= known.newest /\ newest = known.newest
        <5> SUFFICES ASSUME newRows = {} PROVE (\A b \in all : b <= known.newest) /\ newest = known.newest
          OBVIOUS
        <5>1. \A b \in all : ~(b > stop)
          BY <1>7, <3>1
        <5>2. \A b \in all : b \in Nat /\ stop \in Nat
          BY <1>2, <3>1
        <5>3. newest = known.newest
          OBVIOUS
        <5> HIDE DEF newRows, all, stop, newest
        <5>4. \A b \in all : b <= stop
          BY <5>1, <5>2
        <5> QED BY <3>1, <5>3, <5>4
      <4> QED BY <2>0, <4>1, <4>2
    <3>3. PICK a \in 0 .. known.newest : known.logs = Wanted(a, known.newest)
      BY <1>3 DEF Whole
    <3>4. logs = Wanted(a, upTo)
      <4>1. logs = (newRows \cap Wanted(1, upTo)) \cup Wanted(a, stop)
        BY <2>1, <3>1, <3>3
      <4>2. \A b : b \in newRows /\ b \in Wanted(1, upTo) <=> b \in Wanted(1, upTo) /\ b > stop
        BY <1>7, <2>0, <3>1
      <4> HIDE DEF logs, newRows, stop
      <4>3. a \in Int /\ a <= stop /\ stop \in Int /\ upTo \in Int /\ stop <= upTo
        BY <1>0, <3>1, <3>3
      <4>4. \A b : b \in Wanted(1, upTo) /\ b > stop <=> b \in Wanted(stop + 1, upTo)
        BY <1>0, <3>1, <4>3, InRows
      <4>5. Wanted(a, upTo) = Wanted(a, stop) \cup Wanted(stop + 1, upTo)
        BY <4>3, WantedParts
      <4> QED BY <4>1, <4>2, <4>4, <4>5
    <3>5. ASSUME read, ~Full(logs) PROVE Wanted(Start, upTo) \subseteq logs
      <4>1. known.complete /\ known.logs \subseteq logs
        BY <2>1, <3>5
      <4>2. logs \subseteq 1 .. LastBlock
        <5>1. a \in Int /\ upTo \in Int
          BY <1>0, <3>3
        <5> QED BY <3>4, <5>1, WantedParts
      <4>3. ~Full(known.logs)
        <5> HIDE DEF logs
        <5> QED BY <3>5, <4>1, <4>2, FullGrows
      <4>4. Wanted(Start, stop) \subseteq Wanted(a, stop)
        BY <1>3, <3>1, <3>3, <4>1, <4>3 DEF CoversUpTo
      <4>5. Wanted(Start, upTo) \subseteq Wanted(a, upTo)
        <5> SUFFICES ASSUME NEW b \in Wanted(Start, upTo) PROVE b \in Wanted(a, upTo)
          OBVIOUS
        <5>1. b \in Nat /\ stop \in Nat /\ a \in Int /\ a <= stop /\ upTo \in Int
          BY <1>0, <2>s, <3>1, <3>3, InRows
        <5> HIDE DEF stop
        <5>2. b <= stop => b \in Wanted(Start, stop)
          BY <1>0, <2>s, <5>1, InRows
        <5>3. b <= stop => b \in Wanted(a, upTo)
          BY <1>0, <2>s, <4>4, <5>1, <5>2, InRows
        <5>4. b > stop => b \in Wanted(a, upTo)
          BY <1>0, <2>s, <5>1, InRows
        <5> QED BY <5>1, <5>3, <5>4
      <4> QED BY <3>4, <4>5
    <3>6. a \in 0 .. newest
      BY <1>3, <1>11, <3>3
    <3> QED BY <3>2, <3>4, <3>5, <3>6
  <2>2. CASE stop # 0 /\ ~reachedKnown
    <3>1. BeforeCreation(stop) /\ stop > known.newest /\ stop \in 1 .. upTo
      BY <1>5, <1>6, <1>9, <2>2
    <3>2. feed = "trades" /\ Wanted(1, stop) = {}
      BY <3>1, NoneBefore
    <3>3. \A b \in Wanted(1, upTo) : b > stop /\ b \in newRows
      <4>1. \A b \in Wanted(1, upTo) : b <= stop => b \in Wanted(1, stop)
        BY <1>0, <3>1, InRows
      <4>2. \A b \in Wanted(1, upTo) : b > stop /\ b \in all
        <5> SUFFICES ASSUME NEW b \in Wanted(1, upTo) PROVE b > stop /\ b \in all
          OBVIOUS
        <5>1. b \in all /\ ~(b <= stop)
          BY <2>0, <3>2, <4>1
        <5>2. b \in Nat /\ stop \in Nat
          BY <1>2, <3>1, <5>1
        <5> HIDE DEF stop, all
        <5> QED BY <5>1, <5>2
      <4> QED BY <1>7, <2>2, <4>2
    <3>4. logs = Wanted(1, upTo)
      BY <2>2, <3>3
    <3>5. Wanted(1, upTo) = Wanted(0, upTo) /\ Wanted(Start, upTo) \subseteq Wanted(1, upTo)
      <4>1. \A b : b \in Wanted(1, upTo) <=> b \in Wanted(0, upTo)
        BY <1>0, InRows
      <4>2. Start \in Int /\ 1 <= Start /\ upTo \in Int /\ 1 \in Int
        BY <1>0, <2>s
      <4>3. Wanted(Start, upTo) \subseteq Wanted(1, upTo)
        BY <4>2, WantedParts
      <4> QED BY <4>1, <4>3
    <3>6. \A b \in Wanted(1, upTo) : b <= newest
      <4>1. newRows # {} => \A b \in all : b <= newest
        BY <1>10
      <4>2. newRows = {} => Wanted(1, upTo) = {}
        BY <3>3
      <4> QED BY <2>0, <4>1, <4>2
    <3>7. 0 \in 0 .. newest
      BY <1>11
    <3> QED BY <3>4, <3>5, <3>6, <3>7
  <2>3. CASE stop = 0
    <3>1. newRows = scanned /\ ~reachedKnown /\ UpIn(scanned, all)
      BY <1>4, <1>5, <1>6, <2>3
    <3>2. logs = scanned \cap Wanted(1, upTo)
      BY <3>1
    <3>3. read <=> scanned = all
      BY <2>3, <3>1
    <3>4. \A b \in Wanted(1, upTo) : b <= newest
      <4>1. newRows # {} => \A b \in all : b <= newest
        BY <1>10
      <4>2. newRows = {} => all = {}
        BY <1>4, <3>1
      <4> QED BY <2>0, <4>1, <4>2
    <3>5. \E a \in 0 .. newest : logs = Wanted(a, upTo)
      <4>1. CASE scanned = {}
        <5>1. logs = {} /\ all = {}
          BY <1>4, <3>2, <4>1
        <5>2. Wanted(0, upTo) = {}
          BY <1>0, <5>1, InRows
        <5>3. 0 \in 0 .. newest
          BY <1>11
        <5> QED BY <5>1, <5>2, <5>3
      <4>2. CASE scanned # {}
        <5> DEFINE m == Min(scanned)
        <5>1. scanned \subseteq all
          BY <3>1 DEF UpIn
        <5>2. m \in scanned /\ \A b \in scanned : m <= b
          BY <1>2, <4>2, <5>1, EndsOf
        <5>3. m \in 1 .. upTo /\ m <= newest
          BY <1>2, <1>10, <3>1, <5>1, <5>2
        <5> HIDE DEF m
        <5>4. \A b : b \in scanned /\ b \in Wanted(1, upTo) <=> b \in Wanted(m, upTo)
          <6>1. \A b : b \in Wanted(m, upTo) <=> b \in Wanted(1, upTo) /\ m <= b
            BY <1>0, <5>3, InRows
          <6>2. \A b \in Wanted(1, upTo) : m <= b => b \in scanned
            <7> SUFFICES ASSUME NEW b \in Wanted(1, upTo), m <= b PROVE b \in scanned
              OBVIOUS
            <7>1. b \in all /\ b \in Nat
              BY <1>2, <2>0
            <7>2. b > m => b \in scanned
              BY <3>1, <5>2, <7>1 DEF UpIn
            <7> QED BY <5>2, <5>3, <7>1, <7>2
          <6> QED BY <5>2, <6>1, <6>2
        <5>5. logs = Wanted(m, upTo)
          BY <3>2, <5>4
        <5>6. m \in 0 .. newest
          BY <1>11, <5>3
        <5> QED BY <5>5, <5>6
      <4> QED BY <4>1, <4>2
    <3>6. ASSUME read PROVE Wanted(Start, upTo) \subseteq logs
      <4>1. logs = Wanted(1, upTo)
        BY <2>0, <3>2, <3>3, <3>6
      <4>2. Start \in Int /\ 1 <= Start /\ upTo \in Int /\ 1 \in Int
        BY <1>0, <2>s
      <4>3. Wanted(Start, upTo) \subseteq Wanted(1, upTo)
        BY <4>2, WantedParts
      <4> QED BY <4>1, <4>3
    <3> QED BY <3>4, <3>5, <3>6
  <2> QED BY <2>1, <2>2, <2>3
<1> HIDE DEF logs, newest, read, all, stops, stop, newRows
<1>13. PICK a \in 0 .. newest : logs = Wanted(a, upTo)
  BY <1>12
<1>14. /\ Whole(logs, newest)
       /\ Full(logs) => Whole(Latest(logs, MaxShown), newest) /\ Full(Latest(logs, MaxShown))
  BY <1>11, <1>12, <1>13, TrimmedWhole
<1>15. Whole(h.logs, newest) /\ CoversUpTo(h, upTo)
  BY <1>1, <1>12, <1>14 DEF CoversUpTo
<1>16. CoversUpTo(h, newest)
  <2>1. Start \in Int
    BY <1>0 DEF Start
  <2>2. Wanted(Start, newest) \subseteq Wanted(Start, upTo)
    BY <1>0, <1>11, <2>1, InRows
  <2> QED BY <1>15, <2>2 DEF CoversUpTo
<1> QED BY <1>1, <1>11, <1>15, <1>16 DEF IsHistory, h, all
-----------------------------------------------------------------------------
(* Blocks from the RPC.                                                     *)
IsTail(t, upTo) ==
  /\ t = [from |-> t.from, to |-> t.to, logs |-> t.logs, reachedStart |-> t.reachedStart]
  /\ t.from \in Nat /\ t.to \in Nat /\ t.from <= t.to + 1 /\ t.to <= upTo
  /\ t.logs = Wanted(t.from, t.to)
  /\ t.reachedStart => feed = "trades" /\ Wanted(Created, t.from - 1) = {}

LEMMA TailKept ==
  ASSUME ChainOK, NEW u \in Nat, NEW v \in Nat, u <= v, NEW t, IsTail(t, u)
  PROVE  IsTail(t, v)
BY DEF IsTail

LEMMA NoTailIs ==
  ASSUME ChainOK, NEW u \in Nat
  PROVE  IsTail(NoTail, u)
<1>1. Wanted(1, 0) = {}
  BY InRows, HistoryNumbers
<1> QED BY <1>1 DEF IsTail, NoTail

(* Of two numbers the larger.                                               *)
LEMMA Larger ==
  ASSUME NEW a \in Int, NEW b \in Int
  PROVE  Max({a, b}) = IF a >= b THEN a ELSE b
<1> DEFINE S == {a, b}
           m == IF a >= b THEN a ELSE b
<1>1. m \in S /\ \A y \in S : m >= y
  OBVIOUS
<1>2. \A x \in S : (\A y \in S : x >= y) => x = m
  OBVIOUS
<1> HIDE DEF m, S
<1>3. Max(S) = m
  BY <1>1, <1>2 DEF Max
<1> QED BY <1>3 DEF m, S

(* What a read of windows from the newest block down has read: the range,   *)
(* or its newest part, or down to before the creation.                      *)
RangeRead(r, from, to, windows) ==
  /\ r.used \in Nat /\ r.used <= windows
  /\ r.lowest \in Int /\ r.lowest <= to + 1
  /\ from <= to => from <= r.lowest
  /\ r.covered => r.lowest <= from \/ to < from
  /\ r.reachedStart => BeforeCreation(r.lowest)
  /\ to < from => r.lowest = to + 1

LEMMA RangeReads ==
  ASSUME ChainOK, NEW from \in Nat, NEW to \in Nat, NEW windows \in Nat, NEW held, NEW mayStop
  PROVE  RangeRead(ReadRange(from, to, windows, held, mayStop), from, to, windows)
<1> DEFINE Low(n) == Max({from, to - n * (WINDOW + 1) + 1})
           Young(n) == mayStop /\ BeforeCreation(Low(n))
           stops == {n \in 1 .. windows :
                       \/ Low(n) = from \/ Young(n) \/ n = windows
                       \/ mayStop /\ Full(held \cup Wanted(Low(n), to))}
           last == Min(stops)
           r == ReadRange(from, to, windows, held, mayStop)
<1>1. CASE to < from \/ windows = 0
  <2>1. r = [lowest |-> to + 1, covered |-> to < from, reachedStart |-> FALSE, used |-> 0]
    BY <1>1 DEF ReadRange
  <2> HIDE DEF r
  <2>a. r.lowest = to + 1 /\ (r.covered <=> to < from) /\ r.reachedStart = FALSE /\ r.used = 0
    BY <2>1
  <2>b. to + 1 \in Int /\ (from <= to => from <= to + 1) /\ 0 <= windows /\ 0 \in Nat
    OBVIOUS
  <2>c. r.covered => to < from
    BY <2>a
  <2>2. RangeRead(r, from, to, windows)
    BY <2>a, <2>b, <2>c DEF RangeRead
  <2> QED BY <2>2 DEF r
<1>2. CASE ~(to < from) /\ windows # 0
  <2>1. r = [lowest |-> Low(last), covered |-> Low(last) = from, reachedStart |-> Young(last), used |-> last]
    BY <1>2 DEF ReadRange
  <2>2. last \in 1 .. windows
    <3>1. stops \subseteq 1 .. windows /\ windows \in stops
      BY <1>2
    <3> HIDE DEF stops
    <3>2. Min(stops) \in stops
      BY <3>1, FirstOf
    <3> QED BY <3>1, <3>2
  <2>3. PICK k : k = last
    OBVIOUS
  <2>4. PICK p : p = k * (WINDOW + 1)
    OBVIOUS
  <2>5. p \in Nat /\ p >= 1
    <3>1. k \in Nat /\ k >= 1 /\ WINDOW + 1 \in Nat /\ WINDOW + 1 >= 1
      BY <2>2, <2>3, HistoryNumbers
    <3>2. k * (WINDOW + 1) >= 1 * 1
      BY <3>1, SMT
    <3> QED BY <2>4, <3>1, <3>2
  <2>6. Low(k) = IF from >= to - p + 1 THEN from ELSE to - p + 1
    <3>1. to - p + 1 \in Int
      BY <2>5
    <3>2. Low(k) = Max({from, to - p + 1})
      BY <2>4
    <3> QED BY <3>1, <3>2, Larger
  <2>7. Low(k) \in Int /\ from <= Low(k) /\ Low(k) <= to + 1
    BY <1>2, <2>5, <2>6
  <2>8. r = [lowest |-> Low(k), covered |-> Low(k) = from, reachedStart |-> mayStop /\ BeforeCreation(Low(k)), used |-> k]
    BY <2>1, <2>3
  <2>9. k \in Nat /\ k <= windows
    BY <2>2, <2>3
  <2>10. PICK l : l = Low(k)
    OBVIOUS
  <2> HIDE DEF r, last, Low
  <2>11. RangeRead(r, from, to, windows)
    BY <1>2, <2>7, <2>8, <2>9, <2>10 DEF RangeRead
  <2> QED BY <2>11 DEF r
<1> QED BY <1>1, <1>2

(* Read down from a block, a range is a tail.                               *)
LEMMA TailOfRead ==
  ASSUME ChainOK, NEW from \in Nat, NEW to \in Nat, NEW windows \in Nat, NEW r,
         RangeRead(r, from, to, windows)
  PROVE  IsTail(TailOf(r, to), to)
<1> DEFINE t == TailOf(r, to)
<1>1. t = [from |-> r.lowest, to |-> to, logs |-> Wanted(r.lowest, to), reachedStart |-> r.reachedStart]
  BY DEF TailOf
<1>2. r.lowest \in Nat /\ r.lowest <= to + 1
  BY DEF RangeRead
<1>3. r.reachedStart => feed = "trades" /\ Wanted(Created, r.lowest - 1) = {}
  <2> SUFFICES ASSUME r.reachedStart PROVE feed = "trades" /\ Wanted(Created, r.lowest - 1) = {}
    OBVIOUS
  <2>1. BeforeCreation(r.lowest) /\ r.lowest \in Int
    BY <1>2 DEF RangeRead
  <2>2. feed = "trades" /\ r.lowest < Created
    BY <2>1, NoneBefore
  <2>3. Created \in Int /\ r.lowest - 1 \in Int /\ r.lowest - 1 < Created
    BY <1>2, <2>2, HistoryNumbers
  <2> QED BY <2>2, <2>3, WantedParts
<1> HIDE DEF t
<1>4. IsTail(t, to)
  BY <1>1, <1>2, <1>3 DEF IsTail
<1> QED BY <1>4 DEF t

(* What is newer, or older, joins the tail without a hole.                  *)
LEMMA JoinTail ==
  ASSUME ChainOK, NEW a \in Int, NEW b \in Int, NEW c \in Int, a <= b + 1, b <= c
  PROVE  Wanted(a, c) = Wanted(a, b) \cup Wanted(b + 1, c)
BY WantedParts

LEMMA TailReads ==
  ASSUME ChainOK, NEW hi \in Nat, NEW hd \in Nat, NEW kept, IsTail(kept, hd)
  PROVE  IsTail(TailAfter(kept, hi, hd), hd) /\ TailAfter(kept, hi, hd).to = hd
<1> DEFINE gapStart == hi + 1
           usable == kept # NoTail /\ kept.to + 1 >= gapStart
           newer == ReadRange(kept.to + 1, hd, MaxTailWindows, {}, FALSE)
           grown == IF kept.to < hd THEN WithNewer(kept, newer, hd) ELSE kept
           budget == MaxTailWindows - (IF kept.to < hd THEN newer.used ELSE 0)
           older == ReadRange(gapStart, grown.from - 1, budget, grown.logs, TRUE)
           whole == ReadRange(gapStart, hd, MaxTailWindows, {}, TRUE)
           deeper == [grown EXCEPT !.from = older.lowest, !.reachedStart = older.reachedStart,
                                   !.logs = @ \cup Wanted(older.lowest, grown.from - 1)]
           enough == grown.reachedStart \/ grown.from <= gapStart \/ Full(grown.logs) \/ budget = 0
           t == TailAfter(kept, hi, hd)
<1>0. MaxTailWindows \in Nat /\ gapStart \in Nat
  BY HistoryNumbers
<1>1. t = IF ~usable THEN TailOf(whole, hd) ELSE IF enough THEN grown ELSE deeper
  BY DEF TailAfter
<1>2. RangeRead(whole, gapStart, hd, MaxTailWindows)
  BY <1>0, RangeReads
<1>3. IsTail(TailOf(whole, hd), hd) /\ TailOf(whole, hd).to = hd
  <2> HIDE DEF whole
  <2>1. TailOf(whole, hd).to = hd
    BY DEF TailOf
  <2> QED BY <1>0, <1>2, <2>1, TailOfRead
<1>k. /\ kept = [from |-> kept.from, to |-> kept.to, logs |-> kept.logs, reachedStart |-> kept.reachedStart]
      /\ kept.from \in Nat /\ kept.to \in Nat /\ kept.from <= kept.to + 1 /\ kept.to <= hd
      /\ kept.logs = Wanted(kept.from, kept.to)
      /\ kept.reachedStart => feed = "trades" /\ Wanted(Created, kept.from - 1) = {}
  BY DEF IsTail
<1>4. RangeRead(newer, kept.to + 1, hd, MaxTailWindows)
  <2>1. kept.to + 1 \in Nat
    BY <1>k
  <2> QED BY <1>0, <2>1, RangeReads
<1>5. budget \in Nat
  <2> HIDE DEF newer
  <2> QED BY <1>0, <1>4 DEF RangeRead
<1>6. IsTail(grown, hd) /\ grown.to = hd
  <2> HIDE DEF newer
  <2>1. CASE ~(kept.to < hd)
    BY <1>k, <2>1
  <2>2. CASE kept.to < hd /\ newer.covered
    <3>1. grown = [from |-> kept.from, to |-> hd, logs |-> kept.logs \cup Wanted(kept.to + 1, hd),
                   reachedStart |-> kept.reachedStart]
      BY <1>k, <2>2 DEF WithNewer
    <3>2. Wanted(kept.from, hd) = Wanted(kept.from, kept.to) \cup Wanted(kept.to + 1, hd)
      BY <1>k, JoinTail
    <3> HIDE DEF grown
    <3> QED BY <1>k, <2>2, <3>1, <3>2 DEF IsTail
  <2>3. CASE kept.to < hd /\ ~newer.covered
    <3>1. IsTail(TailOf(newer, hd), hd)
      <4>1. kept.to + 1 \in Nat
        BY <1>k
      <4> QED BY <1>0, <1>4, <4>1, TailOfRead
    <3>2. grown = [from |-> newer.lowest, to |-> hd, logs |-> Wanted(newer.lowest, hd), reachedStart |-> FALSE]
      BY <2>3 DEF WithNewer, TailOf
    <3> HIDE DEF grown
    <3> QED BY <3>1, <3>2 DEF IsTail, TailOf
  <2> QED BY <2>1, <2>2, <2>3
<1> HIDE DEF grown, newer, whole
<1>g. /\ grown = [from |-> grown.from, to |-> hd, logs |-> grown.logs, reachedStart |-> grown.reachedStart]
      /\ grown.from \in Nat /\ grown.from <= hd + 1
      /\ grown.logs = Wanted(grown.from, hd)
  BY <1>6 DEF IsTail
<1>7. CASE usable /\ ~enough
  <2>1. grown.from - 1 \in Nat /\ gapStart <= grown.from - 1
    BY <1>0, <1>7, <1>g
  <2>2. RangeRead(older, gapStart, grown.from - 1, budget)
    BY <1>0, <1>5, <2>1, RangeReads
  <2> HIDE DEF older, budget
  <2>3. deeper = [from |-> older.lowest, to |-> hd,
                  logs |-> grown.logs \cup Wanted(older.lowest, grown.from - 1),
                  reachedStart |-> older.reachedStart]
    <3>1. PICK f, l, s : grown = [from |-> f, to |-> hd, logs |-> l, reachedStart |-> s]
      BY <1>g
    <3>2. PICK o, x, m : o = older.lowest /\ x = older.reachedStart /\ m = Wanted(o, grown.from - 1)
      OBVIOUS
    <3>3. [grown EXCEPT !.from = o, !.reachedStart = x, !.logs = @ \cup m]
            = [from |-> o, to |-> hd, logs |-> l \cup m, reachedStart |-> x]
      <4>1. PICK d : d = [grown EXCEPT !.from = o]
        OBVIOUS
      <4>2. d = [from |-> o, to |-> hd, logs |-> l, reachedStart |-> s]
        BY <3>1, <4>1
      <4>3. PICK e : e = [d EXCEPT !.reachedStart = x]
        OBVIOUS
      <4>4. e = [from |-> o, to |-> hd, logs |-> l, reachedStart |-> x]
        BY <4>2, <4>3
      <4>5. [e EXCEPT !.logs = @ \cup m] = [from |-> o, to |-> hd, logs |-> l \cup m, reachedStart |-> x]
        BY <4>4
      <4>6. [grown EXCEPT !.from = o, !.reachedStart = x, !.logs = @ \cup m] = [e EXCEPT !.logs = @ \cup m]
        BY <3>1, <4>1, <4>3
      <4> QED BY <4>5, <4>6
    <3>4. grown.logs = l
      BY <3>1
    <3> QED BY <3>2, <3>3, <3>4
  <2>4. IsTail(TailOf(older, grown.from - 1), grown.from - 1)
    BY <1>0, <1>5, <2>1, <2>2, TailOfRead
  <2>5. /\ older.lowest \in Nat /\ older.lowest <= (grown.from - 1) + 1
        /\ older.reachedStart => feed = "trades" /\ Wanted(Created, older.lowest - 1) = {}
    BY <2>4 DEF IsTail, TailOf
  <2>6. PICK b : b = grown.from - 1
    OBVIOUS
  <2>7. b \in Int /\ older.lowest \in Int /\ older.lowest <= b + 1 /\ b <= hd /\ b + 1 = grown.from
    BY <1>g, <2>1, <2>5, <2>6
  <2>8. Wanted(older.lowest, hd) = Wanted(older.lowest, b) \cup Wanted(b + 1, hd)
    <3>1. PICK lo \in Int : lo = older.lowest
      BY <2>7
    <3>2. Wanted(lo, hd) = Wanted(lo, b) \cup Wanted(b + 1, hd)
      <4>1. lo \in Int /\ b \in Int /\ hd \in Int /\ lo <= b + 1 /\ b <= hd
        BY <2>7, <3>1
      <4>2. \A y \in Int : lo <= y + 1 /\ y <= hd => Wanted(lo, hd) = Wanted(lo, y) \cup Wanted(y + 1, hd)
        BY <4>1, WantedParts
      <4> QED BY <4>1, <4>2
    <3> QED BY <3>1, <3>2
  <2>9. deeper.logs = Wanted(older.lowest, hd)
    BY <1>g, <2>3, <2>6, <2>7, <2>8
  <2> HIDE DEF deeper
  <2>10. IsTail(deeper, hd) /\ deeper.to = hd
    BY <1>g, <2>3, <2>5, <2>9 DEF IsTail
  <2>11. t = deeper
    BY <1>1, <1>7
  <2> QED BY <2>10, <2>11
<1>8. CASE ~usable
  BY <1>1, <1>3, <1>8
<1>9. CASE usable /\ enough
  BY <1>1, <1>6, <1>9
<1> QED BY <1>7, <1>8, <1>9
-----------------------------------------------------------------------------
(* What is kept in the lemmas below and carried from one step to the next,  *)
(* of a feed f over a chain c.                                              *)
WantedOf(f, c, from, to) ==
  {b \in (from .. to) \cap DOMAIN c : c[b] # "none" /\ (f = "prices" \/ c[b] = "ours")}

CoversOf(f, c, h, to) ==
  h.complete /\ ~(f = "trades" /\ Cardinality(h.logs) >= MaxShown) =>
    WantedOf(f, c, IF f = "trades" THEN Created ELSE 1, to) \subseteq h.logs

HistoryOf(f, c, h, upTo) ==
  /\ h.newest \in 0 .. upTo
  /\ h.newest = 0 \/ (h.newest \in (1 .. upTo) \cap DOMAIN c /\ c[h.newest] # "none")
  /\ \E a \in 0 .. h.newest : h.logs = WantedOf(f, c, a, h.newest)
  /\ CoversOf(f, c, h, h.newest)

TailKeptOf(f, c, t, upTo) ==
  /\ t = [from |-> t.from, to |-> t.to, logs |-> t.logs, reachedStart |-> t.reachedStart]
  /\ t.from \in Nat /\ t.to \in Nat /\ t.from <= t.to + 1 /\ t.to <= upTo
  /\ t.logs = WantedOf(f, c, t.from, t.to)
  /\ t.reachedStart => f = "trades" /\ WantedOf(f, c, Created, t.from - 1) = {}

(* A read of the tail under way, and the head it reads from.                *)
TailingOf(f, c, r, upTo) ==
  r.hi \in Nat /\ r.hd \in Nat /\ r.hd <= upTo /\ TailKeptOf(f, c, r.kept, r.hd)

ReaderOf(f, c, r, isIndexed, upTo) ==
  /\ r = [at |-> r.at, paging |-> r.paging, known |-> r.known, page |-> r.page,
          got |-> r.got, hi |-> r.hi, hd |-> r.hd, kept |-> r.kept]
  /\ r.paging \in BOOLEAN
  /\ r.paging => r.at = "reading" /\ HistoryOf(f, c, r.known, isIndexed)
  /\ r.hi = Unknown \/ r.hi \in Nat
  /\ r.at \in {"reading", "tailing"} /\ ~r.paging =>
       r.page \in Nat /\ r.got.logs \subseteq 1 .. LastBlock /\ CoversOf(f, c, r.got, r.page)
  /\ r.at = "tailing" => TailingOf(f, c, r, upTo)

LateOf(f, c, l, isIndexed, upTo) ==
  \/ l = Idle
  \/ l.paging = TRUE /\ HistoryOf(f, c, l.known, isIndexed)
  \/ l.paging = FALSE /\ TailingOf(f, c, l, upTo)

ShownOf(f, c, s) ==
  s.complete /\ ~(f = "trades" /\ Cardinality(s.logs) >= MaxShown) =>
    WantedOf(f, c, IF f = "trades" THEN Created ELSE 1, s.upTo) \subseteq s.logs \cup s.gap

(* The inductive invariant: what is kept has no hole, and what a poll under *)
(* way, or left behind, started from and was answered had none either.      *)
HistoryInv ==
  /\ ChainOK
  /\ indexed \in Nat /\ top \in Nat /\ indexed <= top /\ top <= LastBlock
  /\ heads \in {Unknown, Asked} \cup Nat
  /\ HistoryOf(feed, chain, cache, indexed) /\ TailKeptOf(feed, chain, tail, top)
  /\ ReaderOf(feed, chain, reader, indexed, top)
  /\ LateOf(feed, chain, late, indexed, top)
  /\ ShownOf(feed, chain, shown)

(* Of the feed and chain read, they are what the lemmas above speak of.     *)
LEMMA OfFeed ==
  /\ \A a, b : WantedOf(feed, chain, a, b) = Wanted(a, b)
  /\ \A h, to : CoversOf(feed, chain, h, to) <=> CoversUpTo(h, to)
  /\ \A h, to : HistoryOf(feed, chain, h, to) <=> IsHistory(h, to)
  /\ \A t, to : TailKeptOf(feed, chain, t, to) <=> IsTail(t, to)
<1>1. ASSUME NEW a, NEW b PROVE WantedOf(feed, chain, a, b) = Wanted(a, b)
  BY DEF WantedOf, Wanted, Rows
<1>2. ASSUME NEW h, NEW to PROVE CoversOf(feed, chain, h, to) <=> CoversUpTo(h, to)
  BY <1>1 DEF CoversOf, CoversUpTo, Full, Start
<1>3. ASSUME NEW h, NEW to PROVE HistoryOf(feed, chain, h, to) <=> IsHistory(h, to)
  <2>1. h.newest \in Rows(1, to) <=> h.newest \in (1 .. to) \cap DOMAIN chain /\ chain[h.newest] # "none"
    BY DEF Rows
  <2> QED BY <1>1, <1>2, <2>1 DEF HistoryOf, IsHistory, Whole
<1>4. ASSUME NEW t, NEW to PROVE TailKeptOf(feed, chain, t, to) <=> IsTail(t, to)
  BY <1>1 DEF TailKeptOf, IsTail
<1> QED BY <1>1, <1>2, <1>3, <1>4

LEMMA ReadersKept ==
  ASSUME ChainOK, NEW r, NEW u \in Nat, NEW x \in Nat, u <= x, NEW v \in Nat, NEW y \in Nat, v <= y
  PROVE  /\ ReaderOf(feed, chain, r, u, v) => ReaderOf(feed, chain, r, x, y)
         /\ LateOf(feed, chain, r, u, v) => LateOf(feed, chain, r, x, y)
<1>1. \A h : HistoryOf(feed, chain, h, u) => HistoryOf(feed, chain, h, x)
  BY HistoryGrows, OfFeed
<1>2. TailingOf(feed, chain, r, v) => TailingOf(feed, chain, r, y)
  BY DEF TailingOf
<1> QED BY <1>1, <1>2 DEF ReaderOf, LateOf

LEMMA IdleReader ==
  ASSUME NEW u, NEW v, NEW w
  PROVE  /\ ReaderOf(feed, chain, Idle, u, v) /\ LateOf(feed, chain, Idle, u, v)
         /\ ReaderOf(feed, chain, [Idle EXCEPT !.at = "fallback"], u, v)
<1>1. Idle.paging = FALSE /\ Idle.at = "idle" /\ Idle.hi = Unknown
  BY DEF Idle
<1>2. Idle = [at |-> Idle.at, paging |-> Idle.paging, known |-> Idle.known, page |-> Idle.page,
              got |-> Idle.got, hi |-> Idle.hi, hd |-> Idle.hd, kept |-> Idle.kept]
  BY DEF Idle
<1>3. PICK e : e = [Idle EXCEPT !.at = "fallback"]
  OBVIOUS
<1>4. e = [at |-> "fallback", paging |-> FALSE, known |-> NoHistory, page |-> Unknown,
           got |-> NoHistory, hi |-> Unknown, hd |-> Unknown, kept |-> NoTail]
  BY <1>3 DEF Idle
<1>5. ReaderOf(feed, chain, Idle, u, v)
  BY <1>1, <1>2 DEF ReaderOf
<1>6. ReaderOf(feed, chain, e, u, v)
  BY <1>4 DEF ReaderOf
<1>7. LateOf(feed, chain, Idle, u, v)
  BY DEF LateOf
<1> QED BY <1>3, <1>5, <1>6, <1>7

(* What is shown as complete is, if what was read is.                       *)
LEMMA ShownIs ==
  ASSUME ChainOK, NEW logs, logs \subseteq 1 .. LastBlock, NEW complete, NEW upTo, NEW gap,
         complete /\ ~Full(logs) => Wanted(Start, upTo) \subseteq logs \cup gap
  PROVE  ShownOf(feed, chain,
                 [logs |-> Latest(logs, IF feed = "trades" THEN MaxShown ELSE LastBlock),
                  complete |-> complete, upTo |-> upTo, gap |-> gap])
<1> DEFINE n == IF feed = "trades" THEN MaxShown ELSE LastBlock
           new == Latest(logs, n)
           s == [logs |-> new, complete |-> complete, upTo |-> upTo, gap |-> gap]
<1>1. n \in Nat /\ LastBlock \in Nat /\ MaxShown \in Nat
  BY HistoryNumbers
<1>2. /\ new # logs => Cardinality(new) >= n
      /\ Cardinality(logs) >= n => Cardinality(new) >= n
      /\ Cardinality(new) <= Cardinality(logs)
  <2> HIDE DEF n
  <2> QED BY <1>1, LatestAll
<1>3. new \subseteq logs
  BY DEF Latest
<1> HIDE DEF new
<1>4. Cardinality(new) \in Nat /\ Cardinality(logs) \in Nat
  BY <1>3, FewerBlocks
<1>5. ~Full(new) => new = logs
  <2>1. CASE feed = "trades"
    BY <1>1, <1>2, <1>4, <2>1 DEF Full
  <2>2. CASE feed # "trades"
    <3>1. SUFFICES ASSUME new # logs PROVE FALSE
      OBVIOUS
    <3>2. Cardinality(new) >= LastBlock
      BY <1>2, <2>2, <3>1
    <3>3. IsFiniteSet(1 .. LastBlock) /\ Cardinality(1 .. LastBlock) = LastBlock
      BY <1>1, FS_Interval
    <3>4. new \in SUBSET (1 .. LastBlock)
      BY <1>3
    <3>5. Cardinality(new) <= LastBlock /\ (LastBlock = Cardinality(new) => 1 .. LastBlock = new)
      BY <3>3, <3>4, FS_Subset
    <3>6. new = 1 .. LastBlock
      BY <1>1, <1>4, <3>2, <3>5
    <3> QED BY <1>3, <3>1, <3>6
  <2> QED BY <2>1, <2>2
<1>6. complete /\ ~Full(new) => Wanted(Start, upTo) \subseteq new \cup gap
  BY <1>5
<1>7. s.logs = new /\ s.complete = complete /\ s.upTo = upTo /\ s.gap = gap
  OBVIOUS
<1> HIDE DEF s
<1>8. WantedOf(feed, chain, Start, upTo) = Wanted(Start, upTo)
  BY OfFeed
<1>9. ShownOf(feed, chain, s)
  BY <1>6, <1>7, <1>8 DEF ShownOf, Full, Start
<1> QED BY <1>9 DEF s, new

-----------------------------------------------------------------------------
(* Every step keeps it.                                                     *)
LEMMA InvFacts ==
  ASSUME HistoryInv
  PROVE  /\ ChainOK /\ LastBlock \in Nat
         /\ indexed \in Nat /\ top \in Nat /\ indexed <= top /\ top <= LastBlock
         /\ indexed \in 0 .. LastBlock /\ top \in 0 .. LastBlock
BY HistoryNumbers DEF HistoryInv

(* A step that leaves the chain, the explorer and what is kept alone.       *)
LEMMA PollStep ==
  ASSUME HistoryInv, UNCHANGED <<feed, chain, top, indexed, cache, tail>>,
         heads' \in {Unknown, Asked} \cup Nat,
         ReaderOf(feed, chain, reader', indexed, top), LateOf(feed, chain, late', indexed, top),
         shown' = shown \/ ShownOf(feed, chain, shown')
  PROVE  HistoryInv'
<1>1. ChainOK'
  BY DEF HistoryInv, ChainOK
<1> QED BY <1>1 DEF HistoryInv

LEMMA AskStays == HistoryInv /\ Ask => HistoryInv'
<1> SUFFICES ASSUME HistoryInv, Ask PROVE HistoryInv'
  OBVIOUS
<1>1. PICK h : h = IF heads >= 0 THEN heads ELSE Unknown
  OBVIOUS
<1>2. h = Unknown \/ h \in Nat
  BY <1>1 DEF HistoryInv, Unknown, Asked
<1>3. reader' = [at |-> "reading", paging |-> TRUE, known |-> cache, page |-> Unknown,
                 got |-> NoHistory, hi |-> h, hd |-> Unknown, kept |-> NoTail]
  <2>1. PICK k : k = cache
    OBVIOUS
  <2>2. reader' = [Idle EXCEPT !.at = "reading", !.paging = TRUE, !.known = k, !.hi = h]
    BY <1>1, <2>1 DEF Ask
  <2>3. reader' = [at |-> "reading", paging |-> TRUE, known |-> k, page |-> Unknown,
                   got |-> NoHistory, hi |-> h, hd |-> Unknown, kept |-> NoTail]
    BY <2>2 DEF Idle
  <2> QED BY <2>1, <2>3
<1>4. ReaderOf(feed, chain, reader', indexed, top)
  <2>1. HistoryOf(feed, chain, cache, indexed)
    BY DEF HistoryInv
  <2>2. PICK r : r = reader'
    OBVIOUS
  <2>3. /\ r.at = "reading" /\ r.paging = TRUE /\ r.known = cache /\ r.hi = h
        /\ r = [at |-> r.at, paging |-> r.paging, known |-> r.known, page |-> r.page,
                got |-> r.got, hi |-> r.hi, hd |-> r.hd, kept |-> r.kept]
    BY <1>3, <2>2
  <2>4. ReaderOf(feed, chain, r, indexed, top)
    BY <1>2, <2>1, <2>3 DEF ReaderOf
  <2> QED BY <2>2, <2>4
<1>5. heads' \in {Unknown, Asked} \cup Nat
  BY DEF Ask, HistoryInv
<1>6. LateOf(feed, chain, late', indexed, top)
  BY DEF Ask, HistoryInv
<1> QED BY <1>4, <1>5, <1>6, PollStep DEF Ask

LEMMA PagesReadStays == HistoryInv /\ PagesRead => HistoryInv'
<1> SUFFICES ASSUME HistoryInv, PagesRead PROVE HistoryInv'
  OBVIOUS
<1>1. PICK h : h = HistoryAfter(reader.known, indexed)
  OBVIOUS
<1>2. IsHistory(h, indexed) /\ CoversUpTo(h, indexed)
  <2>1. IsHistory(reader.known, indexed)
    BY OfFeed DEF HistoryInv, ReaderOf, PagesRead
  <2>2. PICK k : k = reader.known
    OBVIOUS
  <2>3. IsHistory(HistoryAfter(k, indexed), indexed) /\ CoversUpTo(HistoryAfter(k, indexed), indexed)
    BY <2>1, <2>2, InvFacts, HistoryReads
  <2> QED BY <1>1, <2>2, <2>3
<1>3. cache' = h /\ reader' = [reader EXCEPT !.paging = FALSE, !.known = NoHistory, !.got = h, !.page = indexed]
  BY <1>1 DEF PagesRead
<1>4. h.logs \subseteq 1 .. LastBlock
  <2>1. PICK a \in 0 .. h.newest : h.logs = Wanted(a, h.newest)
    BY <1>2 DEF IsHistory, Whole
  <2>2. a \in Int /\ h.newest \in Int
    BY <1>2, <2>1, InvFacts DEF IsHistory
  <2> QED BY <2>1, <2>2, InvFacts, WantedParts
<1>5. ReaderOf(feed, chain, reader', indexed, top)
  <2>0. reader.paging /\ reader.at = "reading" /\ (reader.hi = Unknown \/ reader.hi \in Nat)
        /\ reader = [at |-> reader.at, paging |-> reader.paging, known |-> reader.known, page |-> reader.page,
                     got |-> reader.got, hi |-> reader.hi, hd |-> reader.hd, kept |-> reader.kept]
    BY DEF HistoryInv, ReaderOf, PagesRead
  <2>1. PICK r : r = reader'
    OBVIOUS
  <2>2. /\ r.at = "reading" /\ r.paging = FALSE /\ r.got = h /\ r.page = indexed /\ r.hi = reader.hi
        /\ r = [at |-> r.at, paging |-> r.paging, known |-> r.known, page |-> r.page,
                got |-> r.got, hi |-> r.hi, hd |-> r.hd, kept |-> r.kept]
    BY <1>3, <2>0, <2>1
  <2>3. CoversOf(feed, chain, h, indexed)
    BY <1>2, OfFeed
  <2>4. ReaderOf(feed, chain, r, indexed, top)
    BY <1>4, <2>0, <2>2, <2>3, InvFacts DEF ReaderOf
  <2> QED BY <2>1, <2>4
<1>6. HistoryOf(feed, chain, h, indexed)
  BY <1>2, OfFeed
<1>7. ChainOK'
  BY DEF HistoryInv, ChainOK, PagesRead
<1> QED BY <1>3, <1>5, <1>6, <1>7 DEF HistoryInv, PagesRead

LEMMA HeadsStay ==
  /\ HistoryInv /\ IndexedHeadAnswered => HistoryInv'
  /\ HistoryInv /\ IndexedHeadExpires => HistoryInv'
<1>1. ASSUME HistoryInv, IndexedHeadAnswered PROVE HistoryInv'
  <2>1. ReaderOf(feed, chain, reader', indexed, top)
    <3>1. CASE reader' = reader
      BY <1>1, <3>1 DEF HistoryInv
    <3>2. CASE reader.at = "reading" /\ reader' = [reader EXCEPT !.hi = indexed]
      <4>1. PICK r, i : r = reader' /\ i = indexed
        OBVIOUS
      <4>2. r = [reader EXCEPT !.hi = i]
        BY <3>2, <4>1
      <4>3. reader = [at |-> reader.at, paging |-> reader.paging, known |-> reader.known, page |-> reader.page,
                      got |-> reader.got, hi |-> reader.hi, hd |-> reader.hd, kept |-> reader.kept]
        BY <1>1 DEF HistoryInv, ReaderOf
      <4>4. r = [at |-> reader.at, paging |-> reader.paging, known |-> reader.known, page |-> reader.page,
                 got |-> reader.got, hi |-> i, hd |-> reader.hd, kept |-> reader.kept]
        BY <4>2, <4>3
      <4>5. /\ r.at = reader.at /\ r.paging = reader.paging /\ r.known = reader.known /\ r.page = reader.page
            /\ r.got = reader.got /\ r.hi = i /\ r.hd = reader.hd /\ r.kept = reader.kept
        BY <4>4
      <4>6. ReaderOf(feed, chain, reader, indexed, top) /\ i \in Nat
        BY <1>1, <4>1, InvFacts DEF HistoryInv
      <4>7. ReaderOf(feed, chain, r, indexed, top)
        BY <3>2, <4>4, <4>5, <4>6 DEF ReaderOf
      <4> QED BY <4>1, <4>7
    <3> QED BY <1>1, <3>1, <3>2 DEF IndexedHeadAnswered
  <2>2. heads' \in Nat
    BY <1>1, InvFacts DEF IndexedHeadAnswered
  <2>3. LateOf(feed, chain, late', indexed, top)
    BY <1>1 DEF HistoryInv, IndexedHeadAnswered
  <2> QED BY <1>1, <2>1, <2>2, <2>3, PollStep DEF IndexedHeadAnswered
<1>2. ASSUME HistoryInv, IndexedHeadExpires PROVE HistoryInv'
  <2>1. /\ ReaderOf(feed, chain, reader', indexed, top) /\ LateOf(feed, chain, late', indexed, top)
        /\ heads' = Unknown
    BY <1>2 DEF HistoryInv, IndexedHeadExpires
  <2> QED BY <1>2, <2>1, PollStep DEF IndexedHeadExpires
<1> QED BY <1>1, <1>2

(* A step that leaves the chain and the explorer alone.                     *)
LEMMA KeepStep ==
  ASSUME HistoryInv, UNCHANGED <<feed, chain, top, indexed>>,
         HistoryOf(feed, chain, cache', indexed), TailKeptOf(feed, chain, tail', top),
         heads' \in {Unknown, Asked} \cup Nat,
         ReaderOf(feed, chain, reader', indexed, top), LateOf(feed, chain, late', indexed, top),
         shown' = shown \/ ShownOf(feed, chain, shown')
  PROVE  HistoryInv'
<1>1. ChainOK'
  BY DEF HistoryInv, ChainOK
<1> QED BY <1>1 DEF HistoryInv

LEMMA InvKept ==
  ASSUME HistoryInv
  PROVE  /\ heads \in {Unknown, Asked} \cup Nat
         /\ HistoryOf(feed, chain, cache, indexed) /\ TailKeptOf(feed, chain, tail, top)
         /\ ReaderOf(feed, chain, reader, indexed, top) /\ LateOf(feed, chain, late, indexed, top)
         /\ ShownOf(feed, chain, shown)
         /\ ReaderOf(feed, chain, Idle, indexed, top) /\ LateOf(feed, chain, Idle, indexed, top)
         /\ ReaderOf(feed, chain, [Idle EXCEPT !.at = "fallback"], indexed, top)
BY IdleReader DEF HistoryInv

(* What a poll that has been answered is going to show, or read on from.    *)
LEMMA AnsweredIs ==
  ASSUME HistoryInv, reader.at \in {"reading", "tailing"}, ~reader.paging
  PROVE  /\ reader.page \in Nat /\ reader.got.logs \subseteq 1 .. LastBlock
         /\ CoversUpTo(reader.got, reader.page)
BY OfFeed DEF HistoryInv, ReaderOf

LEMMA CurrentStays == HistoryInv /\ ExplorerCurrent => HistoryInv'
<1> SUFFICES ASSUME HistoryInv, ExplorerCurrent PROVE HistoryInv'
  OBVIOUS
<1>1. reader.at = "reading" /\ ~reader.paging
  BY DEF ExplorerCurrent, Answered
<1>2. PICK logs, complete, upTo : logs = reader.got.logs /\ complete = reader.got.complete /\ upTo = reader.page
  OBVIOUS
<1>3. logs \subseteq 1 .. LastBlock /\ (complete /\ ~Full(logs) => Wanted(Start, upTo) \subseteq logs \cup {})
  BY <1>1, <1>2, AnsweredIs DEF CoversUpTo
<1>4. shown' = [logs |-> Latest(logs, IF feed = "trades" THEN MaxShown ELSE LastBlock),
                complete |-> complete, upTo |-> upTo, gap |-> {}]
  BY <1>2 DEF ExplorerCurrent, Shows
<1>5. ShownOf(feed, chain, shown')
  BY <1>3, <1>4, InvFacts, ShownIs
<1>6. TailKeptOf(feed, chain, tail', top)
  BY InvFacts, NoTailIs, OfFeed DEF ExplorerCurrent
<1> QED BY <1>5, <1>6, InvKept, KeepStep DEF ExplorerCurrent, Shows

LEMMA BehindStays == HistoryInv /\ ExplorerBehind => HistoryInv'
<1> SUFFICES ASSUME HistoryInv, ExplorerBehind PROVE HistoryInv'
  OBVIOUS
<1>1. reader.at = "reading" /\ ~reader.paging /\ reader.hi # Unknown
  BY DEF ExplorerBehind, Answered
<1>2. /\ reader = [at |-> reader.at, paging |-> reader.paging, known |-> reader.known, page |-> reader.page,
                   got |-> reader.got, hi |-> reader.hi, hd |-> reader.hd, kept |-> reader.kept]
      /\ reader.paging = FALSE /\ reader.hi \in Nat
      /\ reader.page \in Nat /\ reader.got.logs \subseteq 1 .. LastBlock
      /\ CoversOf(feed, chain, reader.got, reader.page)
  BY <1>1, InvKept DEF ReaderOf
<1>3. PICK r, d, k : r = reader' /\ d = top /\ k = tail
  OBVIOUS
<1>4. r = [reader EXCEPT !.at = "tailing", !.hd = d, !.kept = k]
  BY <1>3 DEF ExplorerBehind
<1>5. r = [at |-> "tailing", paging |-> reader.paging, known |-> reader.known, page |-> reader.page,
           got |-> reader.got, hi |-> reader.hi, hd |-> d, kept |-> k]
  BY <1>2, <1>4
<1>6. TailKeptOf(feed, chain, k, d) /\ d \in Nat /\ d <= top
  BY <1>3, InvKept, InvFacts
<1>7. /\ r.at = "tailing" /\ r.paging = FALSE /\ r.page = reader.page /\ r.got = reader.got
      /\ r.hi = reader.hi /\ r.hd = d /\ r.kept = k
      /\ r = [at |-> r.at, paging |-> r.paging, known |-> r.known, page |-> r.page,
              got |-> r.got, hi |-> r.hi, hd |-> r.hd, kept |-> r.kept]
  BY <1>2, <1>5
<1>8. TailingOf(feed, chain, r, top)
  BY <1>2, <1>6, <1>7 DEF TailingOf
<1>9. ReaderOf(feed, chain, r, indexed, top)
  BY <1>2, <1>7, <1>8 DEF ReaderOf
<1> QED BY <1>3, <1>9, InvKept, KeepStep DEF ExplorerBehind

(* What a read of the tail leaves to be kept.                               *)
LEMMA TailToKeep ==
  ASSUME HistoryInv, NEW r, TailingOf(feed, chain, r, top),
         KeepsTail(TailAfter(r.kept, r.hi, r.hd))
  PROVE  TailKeptOf(feed, chain, tail', top)
<1>1. PICK hi, hd, kept : hi = r.hi /\ hd = r.hd /\ kept = r.kept
  OBVIOUS
<1>2. hi \in Nat /\ hd \in Nat /\ hd <= top /\ IsTail(kept, hd)
  BY <1>1, OfFeed DEF TailingOf
<1>3. IsTail(TailAfter(kept, hi, hd), hd)
  BY <1>2, InvFacts, TailReads
<1>4. IsTail(TailAfter(kept, hi, hd), top)
  BY <1>2, <1>3, InvFacts, TailKept
<1>5. IsTail(NoTail, top)
  BY InvFacts, NoTailIs
<1> QED BY <1>1, <1>4, <1>5, OfFeed DEF KeepsTail

LEMMA TailReadStays == HistoryInv /\ TailRead => HistoryInv'
<1> SUFFICES ASSUME HistoryInv, TailRead PROVE HistoryInv'
  OBVIOUS
<1>1. reader.at = "tailing" /\ TailingOf(feed, chain, reader, top) /\ ~reader.paging
  BY InvKept DEF TailRead, ReaderOf
<1>2. PICK hi, hd, kept, answer, page :
        hi = reader.hi /\ hd = reader.hd /\ kept = reader.kept /\ answer = reader.got /\ page = reader.page
  OBVIOUS
<1>3. PICK t : t = TailAfter(kept, hi, hd)
  OBVIOUS
<1> DEFINE whole == t.reachedStart \/ Full(t.logs) \/ (t.from <= hi + 1 /\ answer.complete)
           logs == answer.logs \cup t.logs
<1>4. KeepsTail(t) /\ Shows(logs, whole, hd, (page + 1) .. hi)
  BY <1>2, <1>3 DEF TailRead
<1>5. hi \in Nat /\ hd \in Nat /\ hd <= top /\ IsTail(kept, hd)
  BY <1>1, <1>2, OfFeed DEF TailingOf
<1>6. IsTail(t, hd) /\ t.to = hd
  BY <1>3, <1>5, InvFacts, TailReads
<1>7. page \in Nat /\ answer.logs \subseteq 1 .. LastBlock /\ CoversUpTo(answer, page)
  BY <1>1, <1>2, AnsweredIs
<1>8. /\ t.from \in Nat /\ t.logs = Wanted(t.from, hd)
      /\ t.reachedStart => feed = "trades" /\ Wanted(Created, t.from - 1) = {}
  BY <1>6 DEF IsTail
<1>9. t.logs \subseteq 1 .. LastBlock /\ logs \subseteq 1 .. LastBlock
  BY <1>5, <1>7, <1>8, InvFacts, WantedParts
<1>10. Start \in Int /\ (feed = "trades" => Start = Created)
  BY HistoryNumbers DEF Start
<1>11. ASSUME whole, ~Full(logs), NEW b \in Wanted(Start, hd) PROVE b \in logs \cup ((page + 1) .. hi)
  <2>1. b \in Nat /\ Start <= b /\ b <= hd
    <3>1. PICK s \in Int : s = Start
      BY <1>10
    <3>2. b \in Wanted(s, hd) /\ hd \in Int /\ ChainOK
      BY <1>5, <1>11, <3>1, InvFacts
    <3>3. b \in 1 .. LastBlock /\ s <= b /\ b <= hd
      BY <3>2, InRows
    <3> QED BY <3>1, <3>3, HistoryNumbers
  <2>2. ~Full(t.logs) /\ ~Full(answer.logs)
    BY <1>9, <1>7, <1>11, FullGrows
  <2>3. t.from <= b => b \in t.logs
    BY <1>5, <1>8, <1>10, <1>11, <2>1, InvFacts, InRows
  <2>4. CASE t.reachedStart
    <3>1. PICK l : l = t.from - 1
      OBVIOUS
    <3>2. l \in Int /\ Wanted(Start, l) = {} /\ (b <= l \/ t.from <= b)
      BY <1>8, <1>10, <2>1, <2>4, <3>1
    <3>3. ~(b <= l)
      BY <1>5, <1>10, <1>11, <2>1, <3>2, InvFacts, InRows
    <3> QED BY <2>3, <3>2, <3>3
  <2>5. CASE t.from <= hi + 1 /\ answer.complete
    <3>1. Wanted(Start, page) \subseteq answer.logs
      BY <1>7, <2>2, <2>5 DEF CoversUpTo
    <3>2. b <= page => b \in answer.logs
      BY <1>5, <1>7, <1>10, <1>11, <2>1, <3>1, InvFacts, InRows
    <3>3. b <= page \/ t.from <= b \/ b \in (page + 1) .. hi
      BY <1>5, <1>7, <1>8, <2>1, <2>5
    <3> QED BY <2>3, <3>2, <3>3
  <2> QED BY <1>11, <2>2, <2>4, <2>5
<1>12. shown' = [logs |-> Latest(logs, IF feed = "trades" THEN MaxShown ELSE LastBlock),
                 complete |-> whole, upTo |-> hd, gap |-> (page + 1) .. hi]
  BY <1>4 DEF Shows
<1> HIDE DEF whole, logs
<1>13. ShownOf(feed, chain, shown')
  <2>1. PICK c, g : c = whole /\ g = (page + 1) .. hi
    OBVIOUS
  <2>2. c /\ ~Full(logs) => Wanted(Start, hd) \subseteq logs \cup g
    BY <1>11, <2>1
  <2>3. ShownOf(feed, chain, [logs |-> Latest(logs, IF feed = "trades" THEN MaxShown ELSE LastBlock),
                              complete |-> c, upTo |-> hd, gap |-> g])
    BY <1>9, <2>2, InvFacts, ShownIs
  <2> QED BY <1>12, <2>1, <2>3
<1>14. TailKeptOf(feed, chain, tail', top)
  BY <1>1, <1>2, <1>3, <1>4, TailToKeep
<1>15. reader' = Idle
  BY <1>4 DEF Shows
<1> QED BY <1>13, <1>14, <1>15, InvKept, KeepStep DEF TailRead

LEMMA FallbackStays == HistoryInv /\ Fallback => HistoryInv'
<1> SUFFICES ASSUME HistoryInv, Fallback PROVE HistoryInv'
  OBVIOUS
<1>1. PICK hd : hd = top
  OBVIOUS
<1>2. PICK r : r = ReadRange(0, hd, RpcWindows, {}, TRUE)
  OBVIOUS
<1>3. Shows(Wanted(r.lowest, hd), r.covered \/ r.reachedStart, hd, {})
  BY <1>1, <1>2 DEF Fallback
<1>4. RangeRead(r, 0, hd, RpcWindows) /\ hd \in Nat
  BY <1>1, <1>2, InvFacts, HistoryNumbers, RangeReads
<1>5. PICK low : low = r.lowest
  OBVIOUS
<1>6. low \in Int /\ (r.covered => low <= 0) /\ (r.reachedStart => BeforeCreation(low))
  BY <1>4, <1>5 DEF RangeRead
<1>7. PICK logs, c : logs = Wanted(low, hd) /\ c = (r.covered \/ r.reachedStart)
  OBVIOUS
<1>8. logs \subseteq 1 .. LastBlock
  BY <1>4, <1>6, <1>7, InvFacts, WantedParts
<1>9. c => Wanted(Start, hd) \subseteq logs \cup {}
  <2>1. Start \in Int /\ 1 <= Start /\ (feed = "trades" => Start = Created) /\ Created \in Int
    BY HistoryNumbers DEF Start
  <2>2. c => low <= Start
    <3>1. BeforeCreation(low) => feed = "trades" /\ low < Created
      BY <1>6, InvFacts, NoneBefore
    <3>2. r.covered => low <= 0
      BY <1>6
    <3>3. r.reachedStart => low < Created /\ feed = "trades"
      BY <1>6, <3>1
    <3>4. CASE r.covered
      BY <1>6, <2>1, <3>2, <3>4
    <3>5. CASE r.reachedStart
      BY <1>6, <2>1, <3>3, <3>5
    <3> QED BY <1>7, <3>4, <3>5
  <2> QED BY <1>4, <1>6, <1>7, <2>1, <2>2, InvFacts, WantedParts
<1>10. shown' = [logs |-> Latest(logs, IF feed = "trades" THEN MaxShown ELSE LastBlock),
                 complete |-> c, upTo |-> hd, gap |-> {}]
  BY <1>3, <1>5, <1>7 DEF Shows
<1>11. ShownOf(feed, chain, shown')
  BY <1>8, <1>9, <1>10, InvFacts, ShownIs
<1>12. reader' = Idle
  BY <1>3 DEF Shows
<1> QED BY <1>11, <1>12, InvKept, KeepStep DEF Fallback

(* The poll goes on without the explorer; its pages are left behind.        *)
LEMMA LeftBehind ==
  ASSUME HistoryInv, WithoutExplorer
  PROVE  ReaderOf(feed, chain, reader', indexed, top) /\ LateOf(feed, chain, late', indexed, top)
<1>1. ReaderOf(feed, chain, reader', indexed, top)
  BY InvKept DEF WithoutExplorer
<1>2. CASE reader.paging
  <2>1. PICK k, l : k = reader.known /\ l = late'
    OBVIOUS
  <2>2. l = [Idle EXCEPT !.paging = TRUE, !.known = k]
    BY <1>2, <2>1 DEF WithoutExplorer
  <2>3. l.paging = TRUE /\ l.known = k
    BY <2>2 DEF Idle
  <2>4. HistoryOf(feed, chain, k, indexed)
    BY <1>2, <2>1, InvKept DEF ReaderOf
  <2>5. LateOf(feed, chain, l, indexed, top)
    BY <2>3, <2>4 DEF LateOf
  <2> QED BY <1>1, <2>1, <2>5
<1>3. CASE ~reader.paging
  BY <1>1, <1>3, InvKept DEF WithoutExplorer
<1> QED BY <1>2, <1>3

LEMMA FailuresStay ==
  /\ HistoryInv /\ PageFails => HistoryInv'
  /\ HistoryInv /\ IndexedHeadFails => HistoryInv'
  /\ HistoryInv /\ RpcFails => HistoryInv'
  /\ HistoryInv /\ FallbackFails => HistoryInv'
<1>1. HistoryInv /\ PageFails => HistoryInv'
  BY InvKept, KeepStep DEF PageFails
<1>2. ASSUME HistoryInv, IndexedHeadFails PROVE HistoryInv'
  <2>1. ReaderOf(feed, chain, reader', indexed, top) /\ LateOf(feed, chain, late', indexed, top)
    <3>1. CASE WithoutExplorer
      BY <1>2, <3>1, LeftBehind
    <3>2. CASE UNCHANGED <<reader, late>>
      BY <1>2, <3>2, InvKept
    <3> QED BY <1>2, <3>1, <3>2 DEF IndexedHeadFails
  <2> QED BY <1>2, <2>1, InvKept, KeepStep DEF IndexedHeadFails
<1>3. HistoryInv /\ RpcFails => HistoryInv'
  BY LeftBehind, InvKept, KeepStep DEF RpcFails
<1>4. HistoryInv /\ FallbackFails => HistoryInv'
  BY InvKept, KeepStep DEF FallbackFails
<1> QED BY <1>1, <1>2, <1>3, <1>4

LEMMA LeaveStays == HistoryInv /\ Leave => HistoryInv'
<1> SUFFICES ASSUME HistoryInv, Leave PROVE HistoryInv'
  OBVIOUS
<1>1. LateOf(feed, chain, late', indexed, top)
  <2>1. CASE reader.at = "tailing"
    <3>1. PICK hi, hd, k, l : hi = reader.hi /\ hd = reader.hd /\ k = reader.kept /\ l = late'
      OBVIOUS
    <3>2. l = [Idle EXCEPT !.at = "tailing", !.hi = hi, !.hd = hd, !.kept = k]
      BY <2>1, <3>1 DEF Leave
    <3>3. l.paging = FALSE /\ l.hi = hi /\ l.hd = hd /\ l.kept = k
      BY <3>2 DEF Idle
    <3>4. TailingOf(feed, chain, reader, top)
      BY <2>1, InvKept DEF ReaderOf
    <3>5. TailingOf(feed, chain, l, top)
      BY <3>1, <3>3, <3>4 DEF TailingOf
    <3>6. LateOf(feed, chain, l, indexed, top)
      BY <3>3, <3>5 DEF LateOf
    <3> QED BY <3>1, <3>6
  <2>2. CASE reader.at # "tailing"
    BY <2>2, InvKept DEF Leave
  <2> QED BY <2>1, <2>2
<1> QED BY <1>1, InvKept, KeepStep DEF Leave

(* A read left behind writes what it read, and that has no hole either.     *)
LEMMA LateReadStays == HistoryInv /\ LateRead => HistoryInv'
<1> SUFFICES ASSUME HistoryInv, LateRead PROVE HistoryInv'
  OBVIOUS
<1>0. late # Idle /\ late' = Idle
  BY DEF LateRead
<1>1. CASE late.paging = TRUE /\ HistoryOf(feed, chain, late.known, indexed)
  <2>1. PICK k : k = late.known
    OBVIOUS
  <2>2. cache' = HistoryAfter(k, indexed) /\ UNCHANGED tail
    BY <1>1, <2>1 DEF LateRead
  <2>3. IsHistory(HistoryAfter(k, indexed), indexed)
    BY <1>1, <2>1, OfFeed, InvFacts, HistoryReads
  <2>4. HistoryOf(feed, chain, cache', indexed)
    BY <2>2, <2>3, OfFeed
  <2> QED BY <1>0, <2>2, <2>4, InvKept, KeepStep DEF LateRead
<1>2. CASE late.paging = FALSE /\ TailingOf(feed, chain, late, top)
  <2>1. KeepsTail(TailAfter(late.kept, late.hi, late.hd)) /\ UNCHANGED cache
    BY <1>2 DEF LateRead
  <2>2. PICK l : l = late
    OBVIOUS
  <2>3. TailKeptOf(feed, chain, tail', top)
    BY <1>2, <2>1, <2>2, TailToKeep
  <2> QED BY <1>0, <2>1, <2>3, InvKept, KeepStep DEF LateRead
<1> QED BY <1>0, <1>1, <1>2, InvKept DEF LateOf

LEMMA ChainGrows ==
  /\ HistoryInv /\ NewBlock => HistoryInv'
  /\ HistoryInv /\ Indexes => HistoryInv'
<1>1. ASSUME HistoryInv, UNCHANGED <<feed, chain, cache, tail, heads, reader, late, shown>>,
             NEW x \in Nat, x = indexed', NEW y \in Nat, y = top',
             indexed <= x, top <= y, x <= y, y <= LastBlock
      PROVE  HistoryInv'
  <2>1. ReaderOf(feed, chain, reader, x, y) /\ LateOf(feed, chain, late, x, y)
    BY <1>1, InvKept, InvFacts, ReadersKept
  <2>2. HistoryOf(feed, chain, cache, x)
    <3>1. PICK h, u : h = cache /\ u = indexed
      OBVIOUS
    <3>2. IsHistory(h, u) /\ u \in Nat /\ u <= x
      BY <1>1, <3>1, InvKept, InvFacts, OfFeed
    <3>3. IsHistory(h, x)
      BY <1>1, <3>2, InvFacts, HistoryGrows
    <3> QED BY <3>1, <3>3, OfFeed
  <2>3. TailKeptOf(feed, chain, tail, y)
    <3>1. PICK t, u : t = tail /\ u = top
      OBVIOUS
    <3>2. IsTail(t, u) /\ u \in Nat /\ u <= y
      BY <1>1, <3>1, InvKept, InvFacts, OfFeed
    <3>3. IsTail(t, y)
      BY <1>1, <3>2, InvFacts, TailKept
    <3> QED BY <3>1, <3>3, OfFeed
  <2>4. ChainOK'
    BY <1>1 DEF HistoryInv, ChainOK
  <2> QED BY <1>1, <2>1, <2>2, <2>3, <2>4 DEF HistoryInv
<1>2. ASSUME HistoryInv, NewBlock PROVE HistoryInv'
  <2>1. PICK x, y : x = indexed' /\ y = top'
    OBVIOUS
  <2>2. x \in Nat /\ y \in Nat /\ indexed <= x /\ top <= y /\ x <= y /\ y <= LastBlock
    BY <1>2, <2>1, InvFacts DEF NewBlock
  <2> QED BY <1>1, <1>2, <2>1, <2>2 DEF NewBlock
<1>3. ASSUME HistoryInv, Indexes PROVE HistoryInv'
  <2>1. PICK x, y : x = indexed' /\ y = top'
    OBVIOUS
  <2>2. x \in Nat /\ y \in Nat /\ indexed <= x /\ top <= y /\ x <= y /\ y <= LastBlock
    BY <1>3, <2>1, InvFacts DEF Indexes
  <2> QED BY <1>1, <1>3, <2>1, <2>2 DEF Indexes
<1> QED BY <1>2, <1>3

LEMMA HistoryStarts == HInit => HistoryInv
<1> SUFFICES ASSUME HInit PROVE HistoryInv
  OBVIOUS
<1>1. ChainOK
  BY HistoryAssumption DEF HInit, ChainOK
<1>2. indexed \in Nat /\ top \in Nat /\ indexed <= top /\ top <= LastBlock
  BY HistoryNumbers DEF HInit
<1>3. HistoryOf(feed, chain, cache, indexed) /\ TailKeptOf(feed, chain, tail, top)
  BY <1>1, <1>2, NoHistoryIs, NoTailIs, OfFeed DEF HInit
<1>4. ShownOf(feed, chain, shown)
  BY DEF HInit, ShownOf, NothingShown
<1>5. ReaderOf(feed, chain, reader, indexed, top) /\ LateOf(feed, chain, late, indexed, top)
  BY IdleReader DEF HInit
<1>6. heads = Unknown
  BY DEF HInit
<1> QED BY <1>1, <1>2, <1>3, <1>4, <1>5, <1>6 DEF HistoryInv

LEMMA HistoryStays == HistoryInv /\ [HNext]_hVars => HistoryInv'
<1> SUFFICES ASSUME HistoryInv, [HNext]_hVars PROVE HistoryInv'
  OBVIOUS
<1>1. CASE Reads
  BY <1>1, AskStays, PagesReadStays, CurrentStays, BehindStays, TailReadStays, FallbackStays DEF Reads
<1>2. CASE LateRead
  BY <1>2, LateReadStays
<1>3. CASE IndexedHeadAnswered \/ IndexedHeadExpires
  BY <1>3, HeadsStay
<1>4. CASE PageFails \/ IndexedHeadFails \/ RpcFails \/ FallbackFails
  BY <1>4, FailuresStay
<1>5. CASE Leave
  BY <1>5, LeaveStays
<1>6. CASE NewBlock \/ Indexes
  BY <1>6, ChainGrows
<1>7. CASE UNCHANGED hVars
  <2>1. /\ UNCHANGED <<feed, chain, top, indexed, cache, tail>> /\ heads' = heads /\ reader' = reader
        /\ late' = late /\ shown' = shown
    BY <1>7 DEF hVars
  <2> QED BY <2>1, InvKept, PollStep
<1> QED BY <1>1, <1>2, <1>3, <1>4, <1>5, <1>6, <1>7 DEF HNext

(* Nothing that is kept has a hole, and what is shown as complete is.       *)
LEMMA InvIsWhole == HistoryInv => KeptHasNoHole /\ CompleteMissesNothing
<1> SUFFICES ASSUME HistoryInv PROVE KeptHasNoHole /\ CompleteMissesNothing
  OBVIOUS
<1>1. IsHistory(cache, indexed) /\ IsTail(tail, top)
  BY OfFeed DEF HistoryInv
<1>2. CompleteMissesNothing
  BY OfFeed DEF HistoryInv, ShownOf, CompleteMissesNothing, Full, Start
<1>3. PICK logs, newest : logs = cache.logs /\ newest = cache.newest
  OBVIOUS
<1>4. PICK a \in 0 .. newest : logs = Wanted(a, newest)
  BY <1>1, <1>3 DEF IsHistory, Whole
<1>5. a \in Int /\ newest \in Int /\ a <= newest /\ newest \in Nat
  BY <1>1, <1>3, <1>4, InvFacts DEF IsHistory
<1>6. logs \subseteq 1 .. LastBlock
  BY <1>4, <1>5, InvFacts, WantedParts
<1>7. PICK oldest : oldest = IF logs = {} THEN newest ELSE Min(logs)
  OBVIOUS
<1>8. logs = Wanted(oldest, newest)
  <2>1. CASE logs = {}
    <3>1. Wanted(newest, newest) \subseteq Wanted(a, newest)
      BY <1>5, InvFacts, WantedParts
    <3> QED BY <1>4, <1>7, <2>1, <3>1
  <2>2. CASE logs # {}
    <3>1. oldest \in logs /\ \A b \in logs : oldest <= b
      BY <1>6, <1>7, <2>2, EndsOf
    <3>2. oldest \in Nat /\ a <= oldest
      BY <1>4, <1>5, <3>1, InvFacts, InRows
    <3>3. Wanted(oldest, newest) \subseteq logs
      BY <1>4, <1>5, <3>2, InvFacts, WantedParts
    <3>4. \A b \in logs : b \in Wanted(oldest, newest)
      BY <1>4, <1>5, <3>1, <3>2, InvFacts, InRows
    <3> QED BY <3>3, <3>4
  <2> QED BY <2>1, <2>2
<1>9. cache.complete /\ ~Full(logs) => Wanted(Start, newest) \subseteq logs
  BY <1>1, <1>3 DEF IsHistory, CoversUpTo
<1>10. tail.logs = Wanted(tail.from, tail.to) /\ (tail.reachedStart => Wanted(Created, tail.from - 1) = {})
  BY <1>1 DEF IsTail
<1>11. KeptHasNoHole
  BY <1>3, <1>7, <1>8, <1>9, <1>10 DEF KeptHasNoHole
<1> QED BY <1>2, <1>11

-----------------------------------------------------------------------------
(* Times.                                                                   *)
LEMMA LaterTime ==
  ASSUME NEW a \in Nat, NEW b \in Nat, a <= b
  PROVE  TimeOf(a) \in Nat /\ TimeOf(b) \in Nat /\ TimeOf(a) <= TimeOf(b)
BY DEF TimeOf

(* A block on the line between two others.                                  *)
OnLine(p, q, b) ==
  TimeOf(p) + (2 * ((b - p) * (TimeOf(q) - TimeOf(p))) + q - p) \div (2 * (q - p))

LEMMA QuotientMono ==
  ASSUME NEW x \in Int, NEW y \in Int, x <= y, NEW d \in Nat, d > 0
  PROVE  x \div d \in Int /\ x \div d <= y \div d
<1>1. PICK u, v : u = x \div d /\ v = y \div d
  OBVIOUS
<1>2. u \in Int /\ v \in Int /\ u * d <= x /\ y < (v + 1) * d
  BY <1>1, DivBounds
<1>3. u * d \in Int /\ (v + 1) * d \in Int /\ u * d < (v + 1) * d
  BY <1>2
<1>4. u < v + 1
  BY <1>2, <1>3, MulCancel
<1> QED BY <1>1, <1>2, <1>4

LEMMA LineBetween ==
  ASSUME NEW p \in Nat, NEW q \in Nat, NEW b \in Nat, NEW c \in Nat, p <= b, b <= c, c <= q, p < q
  PROVE  /\ OnLine(p, q, b) \in Int /\ OnLine(p, q, c) \in Int
         /\ TimeOf(p) <= OnLine(p, q, b) /\ OnLine(p, q, b) <= OnLine(p, q, c) /\ OnLine(p, q, c) <= TimeOf(q)
<1>1. PICK k : k = TimeOf(q) - TimeOf(p)
  OBVIOUS
<1>2. k \in Nat /\ TimeOf(p) \in Nat /\ TimeOf(q) \in Nat /\ TimeOf(q) = TimeOf(p) + k
  BY <1>1, LaterTime
<1>3. PICK w : w = q - p
  OBVIOUS
<1>4. w \in Nat /\ w > 0 /\ 2 * w \in Nat /\ 2 * w > 0
  BY <1>3
<1>5. PICK r, s : r = (b - p) * k /\ s = (c - p) * k
  OBVIOUS
<1>6. r \in Int /\ s \in Int /\ 0 <= r /\ r <= s /\ s <= w * k
  <2>1. 0 * k <= (b - p) * k /\ (b - p) * k <= (c - p) * k /\ (c - p) * k <= w * k
    <3>1. 0 \in Int /\ b - p \in Int /\ c - p \in Int /\ w \in Int /\ 0 <= b - p /\ b - p <= c - p /\ c - p <= w
      BY <1>3
    <3> QED BY <1>2, <3>1, MulMono
  <2>2. (b - p) * k \in Int /\ (c - p) * k \in Int /\ 0 * k = 0
    BY <1>2
  <2> QED BY <1>5, <2>1, <2>2
<1>7. PICK x, y, z : x = 2 * r + w /\ y = 2 * s + w /\ z = w * k
  OBVIOUS
<1>8. x \in Int /\ y \in Int /\ z \in Int /\ 0 <= x /\ x <= y /\ y <= 2 * z + w /\ y < 2 * z + 2 * w
  BY <1>2, <1>4, <1>6, <1>7
<1>9. PICK u, v : u = x \div (2 * w) /\ v = y \div (2 * w)
  OBVIOUS
<1>10. u \in Int /\ v \in Int /\ u <= v /\ 0 <= u
  <2>1. u \in Int /\ u <= v
    BY <1>4, <1>8, <1>9, QuotientMono
  <2>2. v \in Int
    BY <1>4, <1>8, <1>9, QuotientMono
  <2>3. x \in Nat
    BY <1>8
  <2>4. u \in Nat
    BY <1>4, <1>9, <2>3, DivNat
  <2> QED BY <2>1, <2>2, <2>4
<1>11. v <= k
  <2>1. v * (2 * w) <= y
    BY <1>4, <1>8, <1>9, DivBounds
  <2>2. (k + 1) * (2 * w) = 2 * z + 2 * w
    <3>1. (k + 1) * (2 * w) = k * (2 * w) + 2 * w /\ k * (2 * w) = 2 * (w * k)
      BY <1>2, <1>4, Z3
    <3> QED BY <1>7, <3>1
  <2>3. v * (2 * w) < (k + 1) * (2 * w)
    <3>1. PICK m : m = v * (2 * w)
      OBVIOUS
    <3>2. m \in Int
      BY <1>4, <1>10, <3>1
    <3> QED BY <1>4, <1>8, <2>1, <2>2, <3>1, <3>2
  <2>4. v < k + 1
    BY <1>2, <1>4, <1>10, <2>3, MulCancel
  <2> QED BY <1>2, <1>10, <2>4
<1>12. OnLine(p, q, b) = TimeOf(p) + u /\ OnLine(p, q, c) = TimeOf(p) + v
  <2>1. 2 * ((b - p) * (TimeOf(q) - TimeOf(p))) + q - p = x
    <3>1. 2 * r + q - p = 2 * r + w
      BY <1>3, <1>6
    <3> QED BY <1>1, <1>5, <1>7, <3>1
  <2>2. 2 * ((c - p) * (TimeOf(q) - TimeOf(p))) + q - p = y
    <3>1. 2 * s + q - p = 2 * s + w
      BY <1>3, <1>6
    <3> QED BY <1>1, <1>5, <1>7, <3>1
  <2> QED BY <1>3, <1>9, <2>1, <2>2 DEF OnLine
<1> QED BY <1>2, <1>10, <1>11, <1>12

(* The blocks whose times were known or read: a block that is none of them  *)
(* lies between two.                                                        *)
LEMMA AnchorsAround ==
  ASSUME NEW logs, logs \subseteq 1 .. LastBlock, NEW known \in SUBSET logs, NEW anchors,
         anchors = known \cup (Latest(logs \ known, 2) \cup Least(logs \ known, 1)),
         NEW b \in logs, b \notin anchors
  PROVE  (\E a \in anchors : a < b) /\ (\E a \in anchors : b < a)
<1> DEFINE untimed == logs \ known
<1>1. untimed \subseteq 1 .. LastBlock /\ b \in untimed /\ b \in Nat /\ \A d \in untimed : d \in Nat
  BY HistoryNumbers
<1>2. PICK first, last : first = Min(untimed) /\ last = Max(untimed)
  OBVIOUS
<1>3. first \in untimed /\ last \in untimed /\ \A d \in untimed : first <= d /\ d <= last
  <2> HIDE DEF untimed
  <2> QED BY <1>1, <1>2, EndsOf
<1>4. first \in anchors /\ last \in anchors
  <2>1. {d \in untimed : d < first} = {} /\ {d \in untimed : d > last} = {}
    <3> HIDE DEF untimed
    <3>1. first \in Nat /\ last \in Nat
      BY <1>1, <1>3
    <3>2. \A d \in untimed : ~(d < first) /\ ~(d > last)
      BY <1>1, <1>3, <3>1
    <3> QED BY <3>2
  <2>2. Cardinality({d \in untimed : d < first}) < 1 /\ Cardinality({d \in untimed : d > last}) < 2
    BY <2>1, FS_EmptySet
  <2>3. first \in Least(untimed, 1) /\ last \in Latest(untimed, 2)
    BY <1>3, <2>2 DEF Least, Latest
  <2> QED BY <2>3
<1>5. first # b /\ last # b /\ first \in Nat /\ last \in Nat
  BY <1>1, <1>3, <1>4
<1>6. first < b /\ b < last
  <2> HIDE DEF untimed
  <2> QED BY <1>1, <1>3, <1>5
<1> QED BY <1>4, <1>6

(* Every log gets a time between those of the first and the last, in order. *)
LEMMA TimesOrdered ==
  ASSUME NEW logs, logs \subseteq 1 .. LastBlock, NEW known \in SUBSET logs, NEW b \in logs, NEW c \in logs, b < c
  PROVE  /\ TimeOf(Min(logs)) <= FillTimes(logs, known, 3)[b]
         /\ FillTimes(logs, known, 3)[b] <= FillTimes(logs, known, 3)[c]
<1>0. LastBlock \in Nat /\ \A d \in logs : d \in Nat
  BY HistoryNumbers
<1>1. PICK anchors : anchors = known \cup (Latest(logs \ known, 2) \cup Least(logs \ known, 1))
  OBVIOUS
<1>2. anchors \subseteq logs
  BY <1>1 DEF Latest, Least
<1> DEFINE low(x) == {a \in anchors : a < x}
           high(x) == {a \in anchors : a > x}
           time == FillTimes(logs, known, 3)
<1>3. Max({1, 3 - 1}) = 2
  BY Larger
<1>4. \A x \in logs : time[x] = IF x \in anchors THEN TimeOf(x)
                                ELSE IF low(x) = {} \/ high(x) = {} THEN 0
                                ELSE OnLine(Max(low(x)), Min(high(x)), x)
  BY <1>1, <1>3 DEF FillTimes, OnLine
<1> HIDE DEF time
<1>5. ASSUME NEW x \in logs, x \notin anchors
      PROVE  \E p, q \in anchors :
               /\ p < x /\ x < q /\ time[x] = OnLine(p, q, x)
               /\ \A a \in anchors : a <= p \/ q <= a
  <2>1. low(x) # {} /\ high(x) # {}
    <3>1. (\E a \in anchors : a < x) /\ (\E a \in anchors : x < a)
      BY <1>1, <1>5, AnchorsAround
    <3>2. PICK a, d \in anchors : a < x /\ x < d
      BY <3>1
    <3>3. d > x
      BY <3>2
    <3> QED BY <3>2, <3>3
  <2>2. low(x) \subseteq 1 .. LastBlock /\ high(x) \subseteq 1 .. LastBlock
    BY <1>2
  <2>3. PICK p, q : p = Max(low(x)) /\ q = Min(high(x))
    OBVIOUS
  <2>4. /\ p \in low(x) /\ \A a \in low(x) : a <= p
        /\ q \in high(x) /\ \A a \in high(x) : q <= a
    <3> HIDE DEF low, high
    <3> QED BY <2>1, <2>2, <2>3, EndsOf
  <2>5. time[x] = OnLine(p, q, x)
    <3> HIDE DEF low, high
    <3> QED BY <1>4, <1>5, <2>1, <2>3
  <2>6. p \in anchors /\ q \in anchors /\ p < x /\ x < q
    BY <1>0, <1>2, <2>4
  <2>7. \A a \in anchors : a <= p \/ q <= a
    <3> SUFFICES ASSUME NEW a \in anchors PROVE a <= p \/ q <= a
      OBVIOUS
    <3>1. a \in Nat /\ x \in Nat /\ a # x
      BY <1>0, <1>2, <1>5
    <3>2. a < x \/ a > x
      BY <3>1
    <3> QED BY <2>4, <3>2
  <2> QED BY <2>5, <2>6, <2>7
<1> DEFINE Near(x, p, q) == /\ p \in anchors /\ q \in anchors /\ p <= x /\ x <= q
                            /\ TimeOf(p) <= time[x] /\ time[x] <= TimeOf(q) /\ time[x] \in Int
<1>6. ASSUME NEW x \in logs, x \in anchors PROVE time[x] = TimeOf(x) /\ time[x] \in Nat
  <2>1. time[x] = TimeOf(x)
    <3> HIDE DEF low, high
    <3> QED BY <1>4, <1>6
  <2>2. x \in Nat
    BY <1>0
  <2> QED BY <2>1, <2>2, LaterTime
<1>7. PICK m : m = Min(logs)
  OBVIOUS
<1>8. m \in logs /\ m \in Nat /\ \A d \in logs : m <= d
  BY <1>0, <1>7, EndsOf
<1>9. \A x, y \in anchors : x <= y => TimeOf(x) \in Nat /\ TimeOf(y) \in Nat /\ TimeOf(x) <= TimeOf(y)
  BY <1>0, <1>2, LaterTime
<1>10. ASSUME NEW x \in logs, NEW p \in anchors, NEW q \in anchors, p < x, x < q, time[x] = OnLine(p, q, x)
       PROVE  TimeOf(p) <= time[x] /\ time[x] <= TimeOf(q) /\ time[x] \in Int
  <2>1. p \in Nat /\ q \in Nat /\ x \in Nat /\ p <= x /\ x <= x /\ x <= q /\ p < q
    BY <1>0, <1>2, <1>10
  <2> QED BY <1>10, <2>1, LineBetween
<1>11. TimeOf(m) <= time[b]
  <2>1. CASE b \in anchors
    BY <1>0, <1>6, <1>8, <2>1, LaterTime
  <2>2. CASE b \notin anchors
    <3>1. PICK p, q \in anchors : p < b /\ b < q /\ time[b] = OnLine(p, q, b)
      BY <1>5, <2>2
    <3>2. TimeOf(p) <= time[b] /\ time[b] \in Int
      BY <1>10, <3>1
    <3>3. TimeOf(m) <= TimeOf(p) /\ TimeOf(m) \in Nat /\ TimeOf(p) \in Nat
      BY <1>0, <1>2, <1>8, LaterTime
    <3> QED BY <3>2, <3>3
  <2> QED BY <2>1, <2>2
<1>12. time[b] <= time[c]
  <2>0. b \in Nat /\ c \in Nat
    BY <1>0
  <2>1. CASE b \in anchors /\ c \in anchors
    BY <1>6, <1>9, <2>0, <2>1
  <2>2. CASE b \in anchors /\ c \notin anchors
    <3>1. PICK p, q \in anchors : /\ p < c /\ c < q /\ time[c] = OnLine(p, q, c)
                                  /\ \A a \in anchors : a <= p \/ q <= a
      BY <1>5, <2>2
    <3>2. TimeOf(p) <= time[c] /\ time[c] \in Int
      BY <1>10, <3>1
    <3>3. b <= p
      BY <1>0, <1>2, <2>0, <2>2, <3>1
    <3>4. TimeOf(b) <= TimeOf(p) /\ TimeOf(b) \in Nat /\ TimeOf(p) \in Nat
      BY <1>9, <2>2, <3>3
    <3> QED BY <1>6, <2>2, <3>2, <3>4
  <2>3. CASE b \notin anchors /\ c \in anchors
    <3>1. PICK p, q \in anchors : /\ p < b /\ b < q /\ time[b] = OnLine(p, q, b)
                                  /\ \A a \in anchors : a <= p \/ q <= a
      BY <1>5, <2>3
    <3>2. time[b] <= TimeOf(q) /\ time[b] \in Int
      BY <1>10, <3>1
    <3>3. q <= c
      BY <1>0, <1>2, <2>0, <2>3, <3>1
    <3>4. TimeOf(q) <= TimeOf(c) /\ TimeOf(q) \in Nat /\ TimeOf(c) \in Nat
      BY <1>9, <2>3, <3>3
    <3> QED BY <1>6, <2>3, <3>2, <3>4
  <2>4. CASE b \notin anchors /\ c \notin anchors
    <3>1. PICK p, q \in anchors : /\ p < b /\ b < q /\ time[b] = OnLine(p, q, b)
                                  /\ \A a \in anchors : a <= p \/ q <= a
      BY <1>5, <2>4
    <3>2. PICK r, s \in anchors : /\ r < c /\ c < s /\ time[c] = OnLine(r, s, c)
                                  /\ \A a \in anchors : a <= r \/ s <= a
      BY <1>5, <2>4
    <3>3. p \in Nat /\ q \in Nat /\ r \in Nat /\ s \in Nat
      BY <1>0, <1>2
    <3>4. CASE q <= r
      <4>1. time[b] <= TimeOf(q) /\ time[b] \in Int /\ TimeOf(r) <= time[c] /\ time[c] \in Int
        BY <1>10, <3>1, <3>2
      <4>2. TimeOf(q) <= TimeOf(r) /\ TimeOf(q) \in Nat /\ TimeOf(r) \in Nat
        BY <1>9, <3>4
      <4> QED BY <4>1, <4>2
    <3>5. CASE r <= p
      <4>1. s <= p \/ p <= r
        BY <3>2
      <4>2. p = r
        BY <2>0, <3>1, <3>2, <3>3, <3>5, <4>1
      <4>3. q = s
        BY <2>0, <3>1, <3>2, <3>3, <4>2
      <4>4. p <= b /\ b <= c /\ c <= q /\ p < q
        BY <2>0, <3>1, <3>2, <3>3, <4>2, <4>3
      <4>5. OnLine(p, q, b) <= OnLine(p, q, c)
        BY <2>0, <3>3, <4>4, LineBetween
      <4> QED BY <3>1, <3>2, <4>2, <4>3, <4>5
    <3> QED BY <3>1, <3>4, <3>5
  <2> QED BY <2>1, <2>2, <2>3, <2>4
<1> QED BY <1>7, <1>11, <1>12 DEF time

(* The invariant is inductive: for any chain, any page size and any number  *)
(* of pages, windows, failures and logs shown.                              *)
THEOREM HistoryInvariance == HSpec => []HistoryInv
BY HistoryStarts, HistoryStays, PTL DEF HSpec

(* What a page keeps between its polls has no hole and what it shows as     *)
(* complete is, whichever polls overlapped, failed or were left behind, and *)
(* the times it gives the logs are in order (HistoryIsWhole).               *)
THEOREM HistoriesAreWhole == HSpec => []HistoryIsWhole
<1>1. HistoryInv => HistoryIsWhole
  <2>1. TimesInOrder
    BY TimesOrdered DEF TimesInOrder
  <2> QED BY <2>1, InvIsWhole DEF HistoryIsWhole
<1> QED BY <1>1, HistoryInvariance, PTL
=============================================================================
