--------------------------- MODULE RehearsalProofs ---------------------------
(***************************************************************************)
(* The journal of a rehearsal tells the truth, for every script whose      *)
(* calls are laid out as PlansAssumption says, every cap and any number of *)
(* interruptions and faults.                                               *)
(*                                                                         *)
(* A transaction of the driver is in sight until the journal records it:   *)
(* it waits in the journal, or recovery gave up on it.  It was signed in   *)
(* its turn, when everything before it in the script was settled, so a     *)
(* call that landed out of turn cannot stand in the way of another; and it *)
(* was signed when no copy of it was recorded or waiting, with the cost of *)
(* all that is recorded or waiting counted.                                *)
(***************************************************************************)
EXTENDS Rehearsal, ArithmeticProofs, SequenceTheorems

-----------------------------------------------------------------------------
(* Sequences and counting *)

(* The numbers below the length index a sequence. *)
LEMMA Indexed ==
  ASSUME NEW q, Sequence(q)
  PROVE  /\ Len(q) \in Nat /\ DOMAIN q = 1..Len(q)
         /\ \A x \in DOMAIN q : q[x] \in ToSet(q)
         /\ q = <<>> <=> Len(q) = 0
BY LenProperties, EmptySeq DEF Sequence, ToSet

(* What is appended is last, the rest stays in place. *)
LEMMA Appended ==
  ASSUME NEW q, Sequence(q), NEW h
  PROVE  /\ Sequence(Append(q, h)) /\ Append(q, h) # <<>>
         /\ Len(Append(q, h)) = Len(q) + 1 /\ Append(q, h)[Len(q) + 1] = h
         /\ ToSet(Append(q, h)) = ToSet(q) \cup {h}
<1> DEFINE S == ToSet(q) \cup {h}
           r == Append(q, h)
<1>1. q \in Seq(S)
  BY SeqMonotonic DEF Sequence
<1>2. /\ r \in Seq(S) /\ r # <<>> /\ Len(r) = Len(q) + 1
      /\ \A x \in 1..Len(q) : r[x] = q[x]
      /\ r[Len(q) + 1] = h
  BY <1>1, AppendProperties
<1>3. Len(q) \in Nat /\ DOMAIN q = 1..Len(q) /\ DOMAIN r = 1..(Len(q) + 1)
  BY <1>1, <1>2, LenProperties
<1> HIDE DEF r
<1>4. ToSet(r) = S
  BY <1>2, <1>3 DEF ToSet
<1> QED BY <1>2, <1>4 DEF Sequence, r

LEMMA Single ==
  ASSUME NEW h
  PROVE  /\ Sequence(<<h>>) /\ <<h>> # <<>> /\ Len(<<h>>) = 1 /\ <<h>>[1] = h
         /\ ToSet(<<h>>) = {h}
BY DEF Sequence, ToSet

(* A sequence is its first element and the rest. *)
LEMMA FirstAndRest ==
  ASSUME NEW q, Sequence(q), q # <<>>
  PROVE  Sequence(Tail(q)) /\ ToSet(q) = {q[1]} \cup ToSet(Tail(q))
<1> DEFINE r == Tail(q)
<1>1. /\ r \in Seq(ToSet(q)) /\ Len(r) = Len(q) - 1
      /\ \A x \in 1..Len(r) : r[x] = q[x + 1]
  BY HeadTailProperties DEF Sequence
<1>2. /\ Len(q) \in Nat /\ Len(r) \in Nat
      /\ DOMAIN q = 1..Len(q) /\ DOMAIN r = 1..Len(r)
  BY <1>1, LenProperties DEF Sequence
<1>3. Len(q) # 0
  BY Indexed
<1> HIDE DEF r
<1>4. ToSet(r) = {r[x] : x \in 1..Len(r)} /\ ToSet(q) = {q[x] : x \in 1..Len(q)}
  BY <1>2 DEF ToSet
<1>5. r \in Seq(ToSet(r))
  <2>1. \A x \in 1..Len(r) : r[x] \in ToSet(r)
    BY <1>4
  <2> QED BY <2>1, <1>1, <1>2, SeqDef
<1>6. \A x \in 1..Len(q) : x = 1 \/ (x - 1 \in 1..Len(r) /\ r[x - 1] = q[x])
  <2> TAKE x \in 1..Len(q)
  <2> SUFFICES ASSUME x # 1 PROVE x - 1 \in 1..Len(r) /\ r[x - 1] = q[x]
    OBVIOUS
  <2>1. x - 1 \in 1..Len(r) /\ (x - 1) + 1 = x
    BY <1>1, <1>2
  <2> QED BY <2>1, <1>1
<1>7. ToSet(q) \subseteq {q[1]} \cup ToSet(r)
  BY <1>4, <1>6
<1>8. \A x \in 1..Len(r) : x + 1 \in 1..Len(q) /\ r[x] = q[x + 1]
  BY <1>1, <1>2
<1>9. ToSet(r) \subseteq ToSet(q) /\ q[1] \in ToSet(q)
  BY <1>2, <1>3, <1>4, <1>8
<1> QED BY <1>5, <1>7, <1>9 DEF Sequence, r

(* The image of a finite set is finite and no larger. *)
LEMMA ImageCount ==
  ASSUME NEW T, IsFiniteSet(T), NEW f, f \in [T -> {f[t] : t \in T}]
  PROVE  /\ IsFiniteSet({f[t] : t \in T})
         /\ Cardinality({f[t] : t \in T}) <= Cardinality(T)
<1>1. f \in Surjection(T, {f[t] : t \in T})
  BY DEF Surjection
<1> QED BY <1>1, FS_Surjection

LEMMA ToSetCount ==
  ASSUME NEW q, Sequence(q)
  PROVE  IsFiniteSet(ToSet(q)) /\ Cardinality(ToSet(q)) <= Len(q)
<1>1. Len(q) \in Nat /\ DOMAIN q = 1..Len(q) /\ ToSet(q) = {q[x] : x \in 1..Len(q)}
  BY Indexed DEF ToSet
<1>2. IsFiniteSet(1..Len(q)) /\ Cardinality(1..Len(q)) = Len(q)
  <2> DEFINE n == Len(q)
  <2>1. n \in Nat
    BY <1>1
  <2> HIDE DEF n
  <2>2. /\ IsFiniteSet(1..n)
        /\ Cardinality(1..n) = IF 1 > n THEN 0 ELSE n - 1 + 1
    BY <2>1, FS_Interval
  <2>3. Cardinality(1..n) = n
    BY <2>1, <2>2
  <2> QED BY <2>2, <2>3 DEF n
<1>3. q \in Seq(ToSet(q))
  BY DEF Sequence
<1>4. q \in [1..Len(q) -> {q[x] : x \in 1..Len(q)}]
  BY <1>1, <1>3, LenProperties
<1> QED BY <1>1, <1>2, <1>4, ImageCount

LEMMA TxCount ==
  ASSUME NEW T, IsFiniteSet(T)
  PROVE  IsFiniteSet({t.tx : t \in T}) /\ Cardinality({t.tx : t \in T}) <= Cardinality(T)
<1> DEFINE f == [t \in T |-> t.tx]
<1>1. {f[t] : t \in T} = {t.tx : t \in T} /\ f \in [T -> {f[t] : t \in T}]
  OBVIOUS
<1> HIDE DEF f
<1>2. /\ IsFiniteSet({f[t] : t \in T})
      /\ Cardinality({f[t] : t \in T}) <= Cardinality(T)
  BY <1>1, ImageCount
<1> QED BY <1>1, <1>2

(* Some of finitely many are no more than all. *)
LEMMA Fewer ==
  ASSUME NEW T, IsFiniteSet(T), NEW U, U \subseteq T
  PROVE  /\ IsFiniteSet(U) /\ Cardinality(U) \in Nat /\ Cardinality(T) \in Nat
         /\ Cardinality(U) <= Cardinality(T)
BY FS_Subset, FS_CardinalityType

-----------------------------------------------------------------------------
(* Scripts *)

LEMMA ScriptShape ==
  ASSUME NEW script, Shaped(script)
  PROVE  /\ Len(script) \in Nat /\ DOMAIN script = 1..Len(script)
         /\ \A n \in DOMAIN script :
              /\ Len(script[n].sends) \in Nat /\ DOMAIN script[n].sends = 1..Len(script[n].sends)
              /\ \A m \in DOMAIN script[n].sends :
                   /\ Len(script[n].sends[m].calls) \in Nat \ {0}
                   /\ DOMAIN script[n].sends[m].calls = 1..Len(script[n].sends[m].calls)
<1>1. Len(script) \in Nat /\ DOMAIN script = 1..Len(script)
  BY Indexed DEF Shaped
<1>2. ASSUME NEW n \in DOMAIN script
      PROVE  Len(script[n].sends) \in Nat /\ DOMAIN script[n].sends = 1..Len(script[n].sends)
  BY Indexed DEF Shaped, StepShaped
<1>3. ASSUME NEW n \in DOMAIN script, NEW m \in DOMAIN script[n].sends
      PROVE  /\ Len(script[n].sends[m].calls) \in Nat \ {0}
             /\ DOMAIN script[n].sends[m].calls = 1..Len(script[n].sends[m].calls)
  <2>1. SendShaped(script[n].sends[m])
    BY DEF Shaped, StepShaped
  <2> QED BY <2>1, Indexed DEF SendShaped
<1> QED BY <1>1, <1>2, <1>3

LEMMA PlaceIs ==
  ASSUME NEW script, NEW at \in Places(script)
  PROVE  /\ at = <<at[1], at[2], at[3]>>
         /\ at[1] \in DOMAIN script /\ at[2] \in DOMAIN script[at[1]].sends
         /\ at[3] \in DOMAIN script[at[1]].sends[at[2]].calls
BY DEF Places

LEMMA IsPlace ==
  ASSUME NEW script, NEW n \in DOMAIN script, NEW m \in DOMAIN script[n].sends,
         NEW a \in DOMAIN script[n].sends[m].calls
  PROVE  /\ <<n, m, a>> \in Places(script)
         /\ CallAt(script, <<n, m, a>>) = script[n].sends[m].calls[a]
BY DEF Places, CallAt

(* A step sends a call of a name once, and nothing beside a noted one. *)
LEMMA OncePlaced ==
  ASSUME NEW script, Shaped(script), NEW at \in Places(script), NEW to \in Places(script),
         script[at[1]].id = script[to[1]].id,
         CallAt(script, at).what = CallAt(script, to).what \/ CallAt(script, at).kept = "note"
  PROVE  at = to
<1>1. at[1] \in DOMAIN script /\ to[1] \in DOMAIN script
  BY PlaceIs
<1>2. at[1] = to[1]
  BY <1>1 DEF Shaped
<1> QED BY <1>2 DEF Shaped

-----------------------------------------------------------------------------
(* The invariant *)

(* A call is settled when a run that comes back to it sends nothing. *)
KeptAs(id, c) == IF c.kept = "note" THEN id \in notes ELSE Recorded(id, c)
SettledAt(at) == Covered(CallAt(plan, at)) \/ KeptAs(plan[at[1]].id, CallAt(plan, at))

Running == pc \notin {"off", "finished"}
InSend  == pc \in {"sign", "broadcast", "await"}
Waiting == ToSet(pending)
Swept   == \E n \in DOMAIN plan : n < p /\ plan[n].recovers

(* Where the process can be. *)
PlaceInv ==
  /\ plan \in Plans /\ gasCap \in GasCaps(plan) /\ Sequence(pending)
  /\ Running => p \in 1..(Len(plan) + 1) /\ s \in Nat \ {0} /\ i \in Nat \ {0}
  /\ pc = "step" /\ p <= Len(plan) => s <= Len(St.sends) + 1
  /\ pc = "recover" => p \in DOMAIN plan /\ St.recovers
  /\ InSend => p \in DOMAIN plan /\ s \in DOMAIN St.sends /\ i \in DOMAIN Send.calls

(* What lies behind the process, and the steps that are done, are settled; *)
(* a note rests on a mined transaction.                                    *)
ProgressInv ==
  /\ Running => \A at \in Places(plan) : at[1] < p \/ (at[1] = p /\ at[2] < s) => SettledAt(at)
  /\ \A at \in Places(plan) : plan[at[1]].id \in done => SettledAt(at)
  /\ \A at \in Places(plan) : plan[at[1]].id \in notes /\ CallAt(plan, at).kept = "note"
                                => Recorded(plan[at[1]].id, CallAt(plan, at))

(* A nonce is used once; the journal records what the chain holds. *)
LandedInv ==
  /\ next \in Nat /\ IsFiniteSet(landed)
  /\ \A t \in landed : t.tx.nonce \in Nat /\ t.tx.nonce < next
  /\ \A t, u \in landed : t.tx.nonce = u.tx.nonce => t = u
  /\ txs \subseteq Ours /\ recovered \subseteq Ours

(* No transaction of the driver is out of sight, on the chain or before it. *)
SightInv ==
  /\ \A t \in Ours : t \in txs \/ t.tx \in Waiting \/ t.tx \in givenUp
  /\ \A h \in pool : IsOurs(h) => h \in Waiting \cup givenUp /\ ~HasLanded(h)
  /\ pc = "recover" =>
       \A x \in DOMAIN pending : x < i => pending[x] \in givenUp \/ \E t \in recovered : t.tx = pending[x]

(* A transaction was signed in its turn: what its script has before it was *)
(* settled then, and stays settled.                                        *)
InTurn(h) ==
  \E at \in Places(plan) :
    /\ h.step = plan[at[1]].id /\ h.call = CallAt(plan, at)
    /\ \A to \in Places(plan) : SendBefore(to, at) => SettledAt(to)
Elsewhere(h) == ~IsOurs(h) /\ h.call.op = "transfer"

TurnInv ==
  /\ \A t \in landed : InTurn(t.tx) \/ Elsewhere(t.tx)
  /\ \A h \in pool : InTurn(h) \/ Elsewhere(h)
  /\ \A h \in Waiting : IsOurs(h) /\ InTurn(h)

(* What the process has in hand is sent for the first time. *)
OfThisBatch(h) == h.step = St.id /\ \E a \in DOMAIN Send.calls : a < i /\ h.call = Send.calls[a]

HandInv ==
  /\ pc = "step" /\ Swept => pending = <<>>
  /\ pc \in {"sign", "broadcast"} => \A a \in DOMAIN Send.calls : a >= i => ~KeptAs(St.id, Send.calls[a])
  /\ pc = "sign" => \A h \in Waiting : IF Send.batch THEN OfThisBatch(h) ELSE h \notin pool /\ ~HasLanded(h)
  /\ pc = "broadcast" =>
       /\ pending # <<>> /\ InHand.step = St.id /\ InHand.call = TheCall
       /\ \A h \in Waiting : h = InHand \/ (Send.batch /\ OfThisBatch(h))

(* Of the transactions that succeeded or may succeed, none repeats another. *)
Alive == {t.tx : t \in {u \in Ours : u.ok}} \cup Waiting

OnceInv ==
  \A g, h \in Alive \ givenUp :
    g.step = h.step /\ g.call.what = h.call.what /\ g.call.kept = "journal" /\ h.call.kept = "journal" => g = h

(* What was paid for and what may have to be. *)
Paid == ({t.tx : t \in Ours} \cup Waiting) \ givenUp
CapInv == IsFiniteSet(Paid) /\ Cardinality(Paid) <= gasCap

RInv == PlaceInv /\ ProgressInv /\ LandedInv /\ SightInv /\ TurnInv /\ HandInv /\ OnceInv /\ CapInv /\ OwnCallsReady

-----------------------------------------------------------------------------
(* What stays *)

(* What is settled stays settled while the journal grows. *)
LEMMA RecordedStays ==
  ASSUME txs \subseteq txs', NEW id, NEW c, Recorded(id, c)
  PROVE  Recorded(id, c)'
BY DEF Recorded

LEMMA SettledStays ==
  ASSUME plan' = plan, endowed' = endowed, txs \subseteq txs', notes \subseteq notes',
         NEW at, SettledAt(at)
  PROVE  SettledAt(at)'
BY DEF SettledAt, Covered, KeptAs, Recorded

LEMMA InTurnStays ==
  ASSUME plan' = plan, endowed' = endowed, txs \subseteq txs', notes \subseteq notes',
         NEW h, InTurn(h)
  PROVE  InTurn(h)'
<1>1. PICK at \in Places(plan) :
        /\ h.step = plan[at[1]].id /\ h.call = CallAt(plan, at)
        /\ \A to \in Places(plan) : SendBefore(to, at) => SettledAt(to)
  BY DEF InTurn
<1>2. \A to \in Places(plan) : SendBefore(to, at) => SettledAt(to)'
  BY <1>1, SettledStays
<1> QED BY <1>1, <1>2 DEF InTurn

LEMMA OnceStays ==
  ASSUME OnceInv, (Alive \ givenUp)' \subseteq Alive \ givenUp
  PROVE  OnceInv'
BY DEF OnceInv

LEMMA CapStays ==
  ASSUME CapInv, plan \in Plans, gasCap \in GasCaps(plan), gasCap' = gasCap, Paid' \subseteq Paid
  PROVE  CapInv'
<1>1. gasCap \in Nat
  BY GasCapAssumption
<1>2. /\ IsFiniteSet(Paid') /\ Cardinality(Paid') \in Nat /\ Cardinality(Paid) \in Nat
      /\ Cardinality(Paid') <= Cardinality(Paid)
  BY Fewer DEF CapInv
<1>3. Cardinality(Paid') <= gasCap'
  BY <1>1, <1>2 DEF CapInv
<1> QED BY <1>2, <1>3 DEF CapInv

(* A step that neither signs, nor mines, nor records leaves all but the    *)
(* place of the process as it is.                                          *)
LEMMA StillTrue ==
  ASSUME RInv, UNCHANGED <<world, chain, txs, pending, notes, givenUp>>,
         recovered' = recovered \/ recovered' = {},
         pc' = "recover" => i' = 1
  PROVE  LandedInv' /\ SightInv' /\ TurnInv' /\ OnceInv' /\ CapInv'
<1> USE DEF world, chain
<1>1. LandedInv'
  BY DEF RInv, LandedInv, Ours
<1>2. SightInv'
  <2>1. Waiting' = Waiting /\ Ours' = Ours
    BY DEF Waiting, Ours
  <2>2. pc' = "recover" => \A x \in DOMAIN pending' : ~(x < i')
    <3>1. DOMAIN pending = 1..Len(pending)
      BY Indexed DEF RInv, PlaceInv
    <3> QED BY <3>1
  <2> QED BY <2>1, <2>2 DEF RInv, SightInv, HasLanded
<1>3. TurnInv'
  <2>1. \A h : InTurn(h) => InTurn(h)'
    BY InTurnStays
  <2>2. Waiting' = Waiting
    BY DEF Waiting
  <2> QED BY <2>1, <2>2 DEF RInv, TurnInv
<1>4. OnceInv'
  <2>1. Alive' = Alive
    BY DEF Alive, Ours, Waiting
  <2> QED BY <2>1, OnceStays DEF RInv
<1>5. CapInv'
  <2>1. Paid' = Paid
    BY DEF Paid, Ours, Waiting
  <2> QED BY <2>1, CapStays DEF RInv, PlaceInv
<1> QED BY <1>1, <1>2, <1>3, <1>4, <1>5

-----------------------------------------------------------------------------
(* Stopping *)

LEMMA StopKeeps ==
  ASSUME RInv, NEW reason, Stop(reason), UNCHANGED <<world, chain, journal, memory, givenUp>>,
         reason # "refused" \/ givenUp # {}
  PROVE  RInv'
<1> USE DEF world, chain, journal, memory, place
<1>1. pc' = "off" /\ why' = reason
  BY DEF Stop
<1>2. LandedInv' /\ SightInv' /\ TurnInv' /\ OnceInv' /\ CapInv'
  BY <1>1, StillTrue
<1>3. PlaceInv' /\ HandInv' /\ OwnCallsReady'
  BY <1>1 DEF RInv, PlaceInv, HandInv, OwnCallsReady, Running, InSend
<1>4. ProgressInv'
  <2>1. \A at : SettledAt(at) => SettledAt(at)'
    BY SettledStays
  <2>2. \A id, c : Recorded(id, c) => Recorded(id, c)'
    BY RecordedStays
  <2> QED BY <1>1, <2>1, <2>2 DEF RInv, ProgressInv, Running
<1> QED BY <1>2, <1>3, <1>4 DEF RInv

-----------------------------------------------------------------------------
(* Moving on *)

LEMMA PlanShape ==
  ASSUME RInv
  PROVE  Shaped(plan) /\ Ordered(plan)
BY PlansAssumption DEF RInv, PlaceInv

(* What a step that sends and records nothing owes the invariant. *)
LEMMA MoveKeeps ==
  ASSUME RInv, UNCHANGED <<world, chain, txs, pending, notes, why, givenUp>>,
         recovered' = recovered \/ recovered' = {},
         pc' = "recover" => i' = 1,
         PlaceInv', HandInv',
         Running' => \A at \in Places(plan) : at[1] < p' \/ (at[1] = p' /\ at[2] < s') => SettledAt(at),
         \A at \in Places(plan) : plan[at[1]].id \in done' => SettledAt(at)
  PROVE  RInv'
<1>1. LandedInv' /\ SightInv' /\ TurnInv' /\ OnceInv' /\ CapInv'
  BY StillTrue
<1>2. plan' = plan /\ endowed' = endowed /\ txs' = txs /\ notes' = notes
  BY DEF world
<1>3. ProgressInv'
  <2>1. \A at : SettledAt(at) => SettledAt(at)'
    BY <1>2, SettledStays
  <2>2. Running' => \A at \in Places(plan') : at[1] < p' \/ (at[1] = p' /\ at[2] < s') => SettledAt(at)'
    BY <1>2, <2>1
  <2>3. \A at \in Places(plan') : plan'[at[1]].id \in done' => SettledAt(at)'
    BY <1>2, <2>1
  <2>4. (\A at \in Places(plan) : plan[at[1]].id \in notes /\ CallAt(plan, at).kept = "note"
                                    => Recorded(plan[at[1]].id, CallAt(plan, at)))'
    BY <1>2 DEF RInv, ProgressInv, Recorded
  <2> QED BY <2>2, <2>3, <2>4 DEF ProgressInv
<1>4. OwnCallsReady'
  BY DEF RInv, OwnCallsReady
<1> QED BY <1>1, <1>3, <1>4 DEF RInv

(* Nothing lies before the first step. *)
LEMMA StartKeeps ==
  ASSUME RInv, Start
  PROVE  RInv'
<1> USE DEF Start, world, chain, journal
<1>1. Len(plan) \in Nat /\ DOMAIN plan = 1..Len(plan)
  BY PlanShape, ScriptShape
<1>2. \A n \in DOMAIN plan : Len(plan[n].sends) \in Nat /\ DOMAIN plan[n].sends = 1..Len(plan[n].sends)
  BY PlanShape, ScriptShape
<1>3. PlaceInv'
  BY <1>1, <1>2 DEF RInv, PlaceInv, Running, InSend, St
<1>4. HandInv'
  <2>1. ~Swept'
    BY <1>1 DEF Swept
  <2> QED BY <2>1 DEF HandInv
<1>5. \A at \in Places(plan) : ~(at[1] < p' \/ (at[1] = p' /\ at[2] < s'))
  <2> SUFFICES ASSUME NEW at \in Places(plan) PROVE ~(at[1] < 1) /\ ~(at[2] < 1)
    OBVIOUS
  <2>1. at[1] \in DOMAIN plan /\ at[2] \in DOMAIN plan[at[1]].sends
    BY PlaceIs
  <2> QED BY <1>1, <1>2, <2>1
<1>6. \A at \in Places(plan) : plan[at[1]].id \in done' => SettledAt(at)
  BY DEF RInv, ProgressInv
<1> QED BY <1>3, <1>4, <1>5, <1>6, MoveKeeps

LEMMA BeginKeeps ==
  ASSUME RInv, BeginRecovery
  PROVE  RInv'
<1> USE DEF BeginRecovery, world, chain, journal
<1>1. PlaceInv' /\ HandInv'
  <2>1. p \in DOMAIN plan
    <3>1. Len(plan) \in Nat /\ DOMAIN plan = 1..Len(plan)
      BY PlanShape, ScriptShape
    <3> QED BY <3>1 DEF RInv, PlaceInv, Running
  <2> QED BY <2>1 DEF RInv, PlaceInv, HandInv, Running, InSend, St
<1>2. /\ Running' => \A at \in Places(plan) : at[1] < p' \/ (at[1] = p' /\ at[2] < s') => SettledAt(at)
      /\ \A at \in Places(plan) : plan[at[1]].id \in done' => SettledAt(at)
  BY DEF RInv, ProgressInv, Running
<1> QED BY <1>1, <1>2, MoveKeeps

LEMMA FinishKeeps ==
  ASSUME RInv, Finish
  PROVE  RInv'
<1> USE DEF Finish, world, chain, journal, memory, place
<1>1. PlaceInv' /\ HandInv' /\ ~Running'
  BY DEF RInv, PlaceInv, HandInv, Running, InSend
<1>2. \A at \in Places(plan) : plan[at[1]].id \in done' => SettledAt(at)
  BY DEF RInv, ProgressInv
<1> QED BY <1>1, <1>2, MoveKeeps

(* The next step, once this one is settled. *)
LEMMA NextStepKeeps ==
  ASSUME RInv, InStep, NextStep, pc' = pc,
         UNCHANGED <<world, chain, txs, pending, notes, recovered, why, givenUp>>,
         \A at \in Places(plan) : at[1] = p => SettledAt(at),
         \A at \in Places(plan) : plan[at[1]].id \in done' => SettledAt(at)
  PROVE  RInv'
<1> USE DEF InStep, NextStep
<1>1. /\ Len(plan) \in Nat /\ DOMAIN plan = 1..Len(plan)
      /\ \A n \in DOMAIN plan : Len(plan[n].sends) \in Nat
  BY PlanShape, ScriptShape
<1>2. p \in Nat /\ p \in DOMAIN plan /\ plan' = plan /\ gasCap' = gasCap
  BY <1>1 DEF RInv, PlaceInv, Running, world
<1>3. PlaceInv'
  BY <1>1, <1>2 DEF RInv, PlaceInv, Running, InSend, St
<1>4. HandInv'
  <2>1. Swept' => Swept
    BY <1>1, <1>2 DEF Swept, St
  <2> QED BY <2>1 DEF RInv, HandInv
<1>5. \A at \in Places(plan) : at[1] < p' \/ (at[1] = p' /\ at[2] < s') => SettledAt(at)
  <2> SUFFICES ASSUME NEW at \in Places(plan), at[1] < p + 1 \/ at[2] < 1 PROVE SettledAt(at)
    OBVIOUS
  <2>1. /\ at[1] \in DOMAIN plan /\ at[2] \in DOMAIN plan[at[1]].sends
        /\ DOMAIN plan[at[1]].sends = 1..Len(plan[at[1]].sends)
    BY PlaceIs, PlanShape, ScriptShape
  <2>2. at[1] < p \/ at[1] = p
    BY <1>1, <1>2, <2>1
  <2> QED BY <2>2 DEF RInv, ProgressInv, Running
<1> QED BY <1>3, <1>4, <1>5, MoveKeeps

LEMMA SkipKeeps ==
  ASSUME RInv, SkipStep
  PROVE  RInv'
<1> USE DEF SkipStep
<1>1. \A at \in Places(plan) : at[1] = p => SettledAt(at)
  BY DEF RInv, ProgressInv, Skipped, St
<1>2. \A at \in Places(plan) : plan[at[1]].id \in done' => SettledAt(at)
  BY DEF RInv, ProgressInv, journal
<1> QED BY <1>1, <1>2, NextStepKeeps DEF journal

LEMMA ChecksKeep ==
  ASSUME RInv, ChecksPass
  PROVE  RInv'
<1> USE DEF ChecksPass, InStep
<1>1. /\ Len(plan) \in Nat /\ DOMAIN plan = 1..Len(plan)
      /\ \A n \in DOMAIN plan : Len(plan[n].sends) \in Nat /\ DOMAIN plan[n].sends = 1..Len(plan[n].sends)
  BY PlanShape, ScriptShape
<1>2. p \in DOMAIN plan /\ s \in Nat
  BY <1>1 DEF RInv, PlaceInv, Running
<1>3. ASSUME NEW at \in Places(plan), at[1] = p PROVE SettledAt(at)
  <2>1. at[2] \in 1..Len(plan[p].sends)
    BY <1>1, <1>2, <1>3, PlaceIs
  <2>2. at[2] < s
    BY <1>1, <1>2, <2>1 DEF St
  <2> QED BY <1>3, <2>2 DEF RInv, ProgressInv, Running
<1>4. ASSUME NEW at \in Places(plan), plan[at[1]].id \in done' PROVE SettledAt(at)
  <2>1. CASE plan[at[1]].id \in done
    BY <2>1 DEF RInv, ProgressInv
  <2>2. CASE plan[at[1]].id = St.id
    <3>1. at[1] \in DOMAIN plan
      BY PlaceIs
    <3>2. at[1] = p
      BY <3>1, <1>2, <2>2, PlanShape DEF Shaped, St
    <3> QED BY <3>2, <1>3
  <2> QED BY <1>4, <2>1, <2>2
<1> QED BY <1>3, <1>4, NextStepKeeps

-----------------------------------------------------------------------------
(* Inside a step *)

(* Before a step sends anything, recovery has emptied the journal of what  *)
(* was in flight.                                                          *)
LEMMA AtSend ==
  ASSUME RInv, Sending
  PROVE  /\ pc = "step" /\ p \in DOMAIN plan /\ s \in DOMAIN St.sends /\ p \in Nat /\ s \in Nat
         /\ SendShaped(Send) /\ pending = <<>>
         /\ Len(Send.calls) \in Nat \ {0} /\ DOMAIN Send.calls = 1..Len(Send.calls)
<1> USE DEF Sending, InStep, St
<1>1. Shaped(plan) /\ Len(plan) \in Nat /\ DOMAIN plan = 1..Len(plan)
  BY PlanShape, ScriptShape
<1>2. p \in DOMAIN plan /\ p \in Nat /\ s \in Nat \ {0}
  BY <1>1 DEF RInv, PlaceInv, Running
<1>3. Len(plan[p].sends) \in Nat /\ DOMAIN plan[p].sends = 1..Len(plan[p].sends)
  BY <1>1, <1>2, ScriptShape
<1>4. s \in DOMAIN plan[p].sends
  BY <1>2, <1>3
<1>5. StepShaped(plan, p)
  BY <1>1, <1>2 DEF Shaped
<1>6. SendShaped(Send)
  BY <1>4, <1>5 DEF StepShaped, Send
<1>7. Len(Send.calls) \in Nat \ {0} /\ DOMAIN Send.calls = 1..Len(Send.calls)
  BY <1>1, <1>2, <1>4, ScriptShape DEF Send
<1>8. plan[p].sends # <<>>
  BY <1>3, <1>4
<1>9. Swept
  BY <1>5, <1>8 DEF StepShaped, Swept
<1> QED BY <1>2, <1>4, <1>6, <1>7, <1>9 DEF RInv, HandInv

LEMMA FirstIsMissing ==
  ASSUME RInv, Sending, Missing # {}
  PROVE  /\ FirstMissing \in Missing /\ FirstMissing \in DOMAIN Send.calls
         /\ FirstMissing \in Nat /\ Missing \subseteq Nat
         /\ ~OutOfOrder => \A a \in DOMAIN Send.calls : a >= FirstMissing => a \in Missing
<1>1. Len(Send.calls) \in Nat /\ DOMAIN Send.calls = 1..Len(Send.calls)
  BY AtSend
<1>2. Missing \subseteq DOMAIN Send.calls /\ Missing \subseteq Nat
  BY <1>1 DEF Missing
<1>3. FirstMissing \in Missing /\ \A m \in Missing : FirstMissing <= m
  <2>1. \E n \in Missing : \A m \in Missing : n <= m
    BY <1>2, HasFirst
  <2> QED BY <2>1 DEF FirstMissing
<1>4. ASSUME ~OutOfOrder, NEW a \in DOMAIN Send.calls, a >= FirstMissing, a \notin Missing
      PROVE  FALSE
  <2>1. FirstMissing < a
    BY <1>1, <1>2, <1>3, <1>4
  <2> QED BY <2>1, <1>3, <1>4 DEF OutOfOrder
<1> QED BY <1>2, <1>3, <1>4

(* The next send, once this one is settled. *)
LEMMA NextSendKeeps ==
  ASSUME RInv, Sending, NextSend, pc' = pc,
         UNCHANGED <<world, chain, journal, p, recovered, why, givenUp>>,
         \A at \in Places(plan) : at[1] = p /\ at[2] = s => SettledAt(at)
  PROVE  RInv'
<1> USE DEF NextSend
<1>1. /\ pc = "step" /\ p \in DOMAIN plan /\ p \in Nat /\ s \in Nat
      /\ Len(plan[p].sends) \in Nat /\ DOMAIN plan[p].sends = 1..Len(plan[p].sends)
      /\ s \in DOMAIN plan[p].sends
  BY AtSend, PlanShape, ScriptShape DEF St
<1>2. plan' = plan /\ gasCap' = gasCap /\ pending' = pending /\ txs' = txs /\ notes' = notes /\ done' = done
  BY DEF world, journal
<1>3. PlaceInv' /\ HandInv'
  BY <1>1, <1>2 DEF RInv, PlaceInv, HandInv, Running, InSend, St, Swept
<1>4. \A at \in Places(plan) : at[1] < p' \/ (at[1] = p' /\ at[2] < s') => SettledAt(at)
  <2> SUFFICES ASSUME NEW at \in Places(plan), at[1] < p \/ (at[1] = p /\ at[2] < s + 1)
               PROVE  SettledAt(at)
    OBVIOUS
  <2>1. at[2] \in DOMAIN plan[at[1]].sends
    BY PlaceIs
  <2>2. at[1] = p /\ at[2] < s + 1 => at[2] < s \/ at[2] = s
    BY <1>1, <2>1
  <2> QED BY <1>1, <2>2 DEF RInv, ProgressInv, Running
<1>5. \A at \in Places(plan) : plan[at[1]].id \in done' => SettledAt(at)
  BY <1>2 DEF RInv, ProgressInv
<1> QED BY <1>2, <1>3, <1>4, <1>5, MoveKeeps

LEMMA ReuseKeeps ==
  ASSUME RInv, Reuse
  PROVE  RInv'
<1> USE DEF Reuse
<1>1. ASSUME NEW at \in Places(plan), at[1] = p, at[2] = s PROVE SettledAt(at)
  <2>1. at[3] \in DOMAIN Send.calls /\ CallAt(plan, at) = Send.calls[at[3]]
    BY <1>1, PlaceIs DEF Send, St, CallAt
  <2>2. Kept(CallAt(plan, at))
    BY <2>1 DEF Missing
  <2> QED BY <1>1, <2>2 DEF Kept, SettledAt, KeptAs, St
<1> QED BY <1>1, NextSendKeeps

(* An optional call is all its send sends. *)
LEMMA OptionalKeeps ==
  ASSUME RInv, SkipOptional
  PROVE  RInv'
<1> USE DEF SkipOptional
<1>1. SendShaped(Send) /\ Len(Send.calls) \in Nat \ {0} /\ DOMAIN Send.calls = 1..Len(Send.calls)
  BY AtSend
<1>2. Send.calls[1].optional /\ endowed
  BY DEF Covered
<1>3. Len(Send.calls) = 1
  BY <1>1, <1>2 DEF SendShaped
<1>4. ASSUME NEW at \in Places(plan), at[1] = p, at[2] = s PROVE SettledAt(at)
  <2>1. at[3] \in DOMAIN Send.calls /\ CallAt(plan, at) = Send.calls[at[3]]
    BY <1>4, PlaceIs DEF Send, St, CallAt
  <2>2. at[3] = 1
    BY <2>1, <1>1, <1>3
  <2> QED BY <1>2, <2>1, <2>2 DEF SettledAt, Covered
<1> QED BY <1>4, NextSendKeeps

LEMMA SimulateKeeps ==
  ASSUME RInv, Simulate
  PROVE  RInv'
<1> USE DEF Simulate, journal
<1>1. /\ p \in DOMAIN plan /\ s \in DOMAIN St.sends /\ pending = <<>>
      /\ p \in Nat /\ Len(plan) \in Nat /\ DOMAIN plan = 1..Len(plan)
  BY AtSend, PlanShape, ScriptShape
<1>2. FirstMissing \in DOMAIN Send.calls
      /\ \A a \in DOMAIN Send.calls : a >= FirstMissing => a \in Missing
  BY FirstIsMissing
<1>3. plan' = plan /\ gasCap' = gasCap
  BY DEF world
<1>4. PlaceInv'
  <2>1. p \in 1..(Len(plan) + 1) /\ i' \in Nat \ {0} /\ s \in Nat \ {0}
    BY <1>1, <1>2, AtSend, PlanShape, ScriptShape DEF St, Send
  <2> QED BY <1>1, <1>2, <1>3, <2>1 DEF RInv, PlaceInv, Running, InSend, St, Send
<1>5. HandInv'
  <2>1. Send' = Send /\ St' = St
    BY <1>3 DEF Send, St
  <2>2. \A a \in DOMAIN Send.calls : a >= FirstMissing => ~KeptAs(St.id, Send.calls[a])
    BY <1>2 DEF Missing, Kept, KeptAs
  <2>3. \A a \in DOMAIN Send.calls : a >= FirstMissing => ~KeptAs(St.id, Send.calls[a])'
    BY <2>1, <2>2 DEF KeptAs, Recorded
  <2>4. Waiting' = {}
    BY <1>1 DEF Waiting, ToSet
  <2> QED BY <2>1, <2>3, <2>4 DEF HandInv
<1>6. /\ \A at \in Places(plan) : at[1] < p' \/ (at[1] = p' /\ at[2] < s') => SettledAt(at)
      /\ \A at \in Places(plan) : plan[at[1]].id \in done' => SettledAt(at)
  BY AtSend DEF RInv, ProgressInv, Running
<1> QED BY <1>4, <1>5, <1>6, MoveKeeps

-----------------------------------------------------------------------------
(* A call the driver comes to is one the contracts accept *)

(* A settled call that was sent is on the chain. *)
LEMMA KeptIsLanded ==
  ASSUME RInv, NEW at \in Places(plan), KeptAs(plan[at[1]].id, CallAt(plan, at))
  PROVE  DoneBy(CallAt(plan, at)) \in LandedCalls
<1>1. Recorded(plan[at[1]].id, CallAt(plan, at))
  BY DEF KeptAs, RInv, ProgressInv
<1>2. PICK t \in txs : t.ok /\ t.tx.step = plan[at[1]].id /\ t.tx.call.what = CallAt(plan, at).what
  BY <1>1 DEF Recorded
<1>3. t \in landed /\ IsOurs(t.tx)
  BY DEF RInv, LandedInv, Ours
<1>4. InTurn(t.tx)
  BY <1>3 DEF RInv, TurnInv, Elsewhere
<1>5. PICK to \in Places(plan) : t.tx.step = plan[to[1]].id /\ t.tx.call = CallAt(plan, to)
  BY <1>4 DEF InTurn
<1>6. to = at
  BY <1>2, <1>5, PlanShape, OncePlaced
<1>7. t.tx.call = CallAt(plan, at)
  BY <1>5, <1>6
<1> QED BY <1>2, <1>3, <1>7 DEF LandedCalls, DoneBy

(* While recovery gave up on nothing, the next call has what it needs and  *)
(* nothing that bars it.                                                   *)
LEMMA Ready ==
  ASSUME RInv, Sending, Missing # {}, ~OutOfOrder, givenUp = {}
  PROVE  Accepted(Send.calls[FirstMissing])
<1> DEFINE at == <<p, s, FirstMissing>>
           c  == Send.calls[FirstMissing]
<1>1. /\ p \in DOMAIN plan /\ s \in DOMAIN plan[p].sends /\ p \in Nat /\ s \in Nat
      /\ FirstMissing \in DOMAIN plan[p].sends[s].calls /\ FirstMissing \in Nat
      /\ FirstMissing \in Missing /\ pending = <<>>
      /\ \A a \in DOMAIN Send.calls : a >= FirstMissing => a \in Missing
      /\ Missing \subseteq Nat
  BY AtSend, FirstIsMissing DEF Send, St
<1>2. at \in Places(plan) /\ CallAt(plan, at) = c
  BY <1>1, IsPlace DEF Send, St
<1>3. at[1] = p /\ at[2] = s /\ at[3] = FirstMissing
  OBVIOUS
<1> HIDE DEF at, c
<1>4. ~KeptAs(plan[p].id, c)
  BY <1>1 DEF Missing, Kept, KeptAs, St, c
<1>5. ASSUME NEW to \in Places(plan), to[1] = p, to[2] = s
      PROVE  /\ to[3] \in Nat /\ to[3] \in DOMAIN Send.calls /\ CallAt(plan, to) = Send.calls[to[3]]
             /\ to[3] \notin Missing => KeptAs(plan[p].id, CallAt(plan, to))
  <2>1. to[3] \in DOMAIN Send.calls /\ CallAt(plan, to) = Send.calls[to[3]]
    BY <1>5, PlaceIs DEF Send, St, CallAt
  <2>2. to[3] \in Nat
    BY <2>1, AtSend
  <2> QED BY <2>1, <2>2 DEF Missing, Kept, KeptAs, St
<1>6. ASSUME NEW to \in Places(plan), Before(to, at) PROVE SettledAt(to)
  <2>1. CASE SendBefore(to, at)
    BY <2>1, <1>1, <1>3 DEF SendBefore, RInv, ProgressInv, Running, Sending, InStep
  <2>2. CASE to[1] = p /\ to[2] = s /\ to[3] < FirstMissing
    <3>1. to[3] \notin Missing
      <4>1. \A m \in Missing : FirstMissing <= m
        <5>1. \E n \in Missing : \A m \in Missing : n <= m
          BY <1>1, HasFirst
        <5> QED BY <5>1 DEF FirstMissing
      <4> QED BY <4>1, <2>2, <1>1, <1>5
    <3> QED BY <3>1, <2>2, <1>5 DEF SettledAt
  <2> QED BY <1>3, <1>6, <2>1, <2>2 DEF Before
<1>7. ASSUME NEW need \in Needs(c) PROVE need \in LandedCalls \cup Allowances
  <2>1. PICK to \in Places(plan) :
          /\ Before(to, at) /\ DoneBy(CallAt(plan, to)) = need
          /\ CallAt(plan, to).optional => need \in {<<"approve", "launchpad">>, <<"approve", "router">>}
    BY <1>2, PlanShape DEF Ordered
  <2>2. SettledAt(to)
    BY <1>6, <2>1
  <2>3. CASE Covered(CallAt(plan, to))
    BY <2>1, <2>3 DEF Covered, Allowances
  <2>4. CASE KeptAs(plan[to[1]].id, CallAt(plan, to))
    BY <2>1, <2>4, KeptIsLanded
  <2> QED BY <2>2, <2>3, <2>4 DEF SettledAt
<1>8. ASSUME NEW bar \in Bars(c), bar \in LandedCalls PROVE FALSE
  <2>1. PICK t \in landed : t.ok /\ bar = <<t.tx.call.op, t.tx.call.k>>
    BY <1>8 DEF LandedCalls
  <2>2. bar = <<"fill", c.k>>
    BY DEF Bars
  <2>3. t.tx.call.op = "fill"
    BY <2>1, <2>2
  <2>4. InTurn(t.tx) /\ IsOurs(t.tx)
    <3>1. ~Elsewhere(t.tx)
      BY <2>3 DEF Elsewhere
    <3>2. InTurn(t.tx)
      BY <3>1 DEF RInv, TurnInv
    <3>3. \A n \in DOMAIN plan : plan[n].id # Foreign
      BY PlanShape DEF Shaped, StepShaped
    <3>4. t.tx.step # Foreign
      BY <3>2, <3>3, PlaceIs DEF InTurn
    <3> QED BY <3>2, <3>4 DEF IsOurs
  <2>5. t \in txs
    BY <1>1, <2>4 DEF RInv, SightInv, Ours, Waiting, ToSet
  <2>6. PICK to \in Places(plan) :
          /\ t.tx.step = plan[to[1]].id /\ t.tx.call = CallAt(plan, to)
          /\ \A x \in Places(plan) : SendBefore(x, to) => SettledAt(x)
    BY <2>4 DEF InTurn
  <2>7. DoneBy(CallAt(plan, to)) \in Bars(CallAt(plan, at))
    BY <1>2, <2>1, <2>6 DEF DoneBy
  <2>8. /\ to = at \/ Before(at, to)
        /\ CallAt(plan, to).kept = "journal" /\ ~c.optional
    BY <1>2, <2>7, PlanShape DEF Ordered
  <2>9. KeptAs(plan[to[1]].id, CallAt(plan, to))
    BY <2>1, <2>5, <2>6, <2>8 DEF KeptAs, Recorded
  <2>10. ASSUME to = at PROVE FALSE
    BY <1>2, <1>3, <1>4, <2>9, <2>10
  <2>11. ASSUME SendBefore(at, to) PROVE FALSE
    <3>1. SettledAt(at)
      BY <1>2, <2>6, <2>11
    <3> QED BY <1>2, <1>3, <1>4, <2>8, <3>1 DEF SettledAt, Covered
  <2>12. ASSUME to[1] = p, to[2] = s, FirstMissing < to[3] PROVE FALSE
    <3>1. to[3] \in Nat /\ to[3] \in DOMAIN Send.calls /\ CallAt(plan, to) = Send.calls[to[3]]
      BY <1>5, <2>12
    <3>2. to[3] \in Missing
      BY <1>1, <2>12, <3>1
    <3>3. ~Kept(Send.calls[to[3]])
      BY <3>2 DEF Missing
    <3> QED BY <2>9, <2>12, <3>1, <3>3 DEF Kept, KeptAs, St
  <2> QED BY <1>3, <2>8, <2>10, <2>11, <2>12 DEF Before
<1> QED BY <1>7, <1>8 DEF Accepted, c

LEMMA RefusedKeeps ==
  ASSUME RInv, WouldRevert
  PROVE  RInv'
<1>1. givenUp # {}
  BY Ready DEF WouldRevert
<1> QED BY <1>1, StopKeeps DEF WouldRevert

-----------------------------------------------------------------------------
(* The chain *)

LEMMA OursInTurn ==
  ASSUME RInv, NEW h, InTurn(h)
  PROVE  IsOurs(h)
<1>1. \A n \in DOMAIN plan : plan[n].id # Foreign
  BY PlanShape DEF Shaped, StepShaped
<1> QED BY <1>1, PlaceIs DEF InTurn, IsOurs

(* The place of the process and its journal are none of the chain's. *)
LEMMA ChainKeeps ==
  ASSUME RInv, UNCHANGED <<world, journal, pc, memory, why, givenUp>>
  PROVE  /\ PlaceInv' /\ ProgressInv' /\ OwnCallsReady'
         /\ \A h : InTurn(h) => InTurn(h)'
         /\ Waiting' = Waiting
<1> USE DEF world, journal, memory, place
<1>1. PlaceInv' /\ OwnCallsReady'
  BY DEF RInv, PlaceInv, OwnCallsReady, Running, InSend, St, Send
<1>2. ProgressInv'
  <2>1. \A at : SettledAt(at) => SettledAt(at)'
    BY SettledStays
  <2> QED BY <2>1 DEF RInv, ProgressInv, Running, Recorded
<1> QED BY <1>1, <1>2, InTurnStays DEF Waiting

LEMMA LandKeeps ==
  ASSUME RInv, NEW h, NEW ok, Land(h, ok)
  PROVE  RInv'
<1> DEFINE t0 == Mined(h, ok)
<1> USE DEF Land
<1>1. t0.tx = h /\ t0.ok = ok
  BY DEF Mined
<1> HIDE DEF t0
<1>2. landed' = landed \cup {t0} /\ next' = next + 1 /\ next \in Nat /\ h.nonce = next /\ h \in pool
  BY DEF t0, RInv, LandedInv
<1>3. pool' \subseteq pool /\ \A g \in pool' : g.nonce > next
  OBVIOUS
<1>4. /\ PlaceInv' /\ ProgressInv' /\ OwnCallsReady' /\ Waiting' = Waiting
      /\ \A g : InTurn(g) => InTurn(g)'
  BY ChainKeeps
<1>5. /\ txs' = txs /\ recovered' = recovered /\ pending' = pending /\ givenUp' = givenUp
      /\ pc' = pc /\ i' = i /\ plan' = plan /\ p' = p /\ s' = s /\ notes' = notes /\ gasCap' = gasCap
  BY DEF journal, memory, place, world
<1>6. Ours \subseteq Ours' /\ Ours' \subseteq Ours \cup {t0}
  BY <1>2 DEF Ours
<1>7. LandedInv'
  <2>1. IsFiniteSet(landed')
    BY <1>2, FS_AddElement DEF RInv, LandedInv
  <2>2. \A t \in landed' : t.tx.nonce \in Nat /\ t.tx.nonce < next'
    BY <1>1, <1>2 DEF RInv, LandedInv
  <2>3. \A t, u \in landed' : t.tx.nonce = u.tx.nonce => t = u
    BY <1>1, <1>2 DEF RInv, LandedInv
  <2>4. txs' \subseteq Ours' /\ recovered' \subseteq Ours'
    BY <1>5, <1>6 DEF RInv, LandedInv
  <2> QED BY <1>2, <2>1, <2>2, <2>3, <2>4 DEF LandedInv
<1>8. t0 \in Ours' => h \in Waiting \cup givenUp
  BY <1>1, <1>2 DEF Ours, RInv, SightInv
<1>9. SightInv'
  <2>1. \A t \in Ours' : t \in txs' \/ t.tx \in Waiting' \/ t.tx \in givenUp'
    BY <1>1, <1>4, <1>5, <1>6, <1>8 DEF RInv, SightInv
  <2>2. \A g \in pool' : IsOurs(g) => g \in Waiting' \cup givenUp' /\ ~HasLanded(g)'
    <3> SUFFICES ASSUME NEW g \in pool', IsOurs(g)
                 PROVE  g \in Waiting \cup givenUp /\ \A t \in landed' : t.tx # g
      BY <1>4, <1>5 DEF HasLanded
    <3>1. g \in Waiting \cup givenUp /\ \A t \in landed : t.tx # g
      BY <1>3 DEF RInv, SightInv, HasLanded
    <3>2. h # g
      BY <1>2, <1>3
    <3> QED BY <1>1, <1>2, <3>1, <3>2
  <2> QED BY <1>5, <2>1, <2>2 DEF RInv, SightInv
<1>10. TurnInv'
  <2>1. \A t \in landed' : InTurn(t.tx)' \/ Elsewhere(t.tx)
    BY <1>1, <1>2, <1>4 DEF RInv, TurnInv
  <2>2. \A g \in pool' : InTurn(g)' \/ Elsewhere(g)
    BY <1>3, <1>4 DEF RInv, TurnInv
  <2>3. \A g \in Waiting' : IsOurs(g) /\ InTurn(g)'
    BY <1>4 DEF RInv, TurnInv
  <2> QED BY <2>1, <2>2, <2>3 DEF TurnInv
<1>11. HandInv'
  <2>1. St' = St /\ Send' = Send /\ InHand' = InHand /\ TheCall' = TheCall /\ Swept' = Swept
    BY <1>5 DEF St, Send, InHand, TheCall, Swept
  <2>3. pc \in {"sign", "broadcast"} =>
          \A a \in DOMAIN Send.calls : a >= i => ~KeptAs(St.id, Send.calls[a])'
    BY <1>5, <2>1 DEF RInv, HandInv, KeptAs, Recorded
  <2>4. pc = "sign" =>
          \A g \in Waiting : IF Send.batch THEN OfThisBatch(g)' ELSE g \notin pool' /\ ~HasLanded(g)'
    <3> SUFFICES ASSUME pc = "sign", NEW g \in Waiting
                 PROVE  IF Send.batch THEN OfThisBatch(g)' ELSE g \notin pool' /\ ~HasLanded(g)'
      OBVIOUS
    <3>1. CASE Send.batch
      BY <1>5, <2>1, <3>1 DEF RInv, HandInv, OfThisBatch
    <3>2. CASE ~Send.batch
      <4>1. g \notin pool /\ ~HasLanded(g)
        BY <3>2 DEF RInv, HandInv
      <4>2. g # h
        BY <1>2, <4>1
      <4> QED BY <1>1, <1>2, <1>3, <3>2, <4>1, <4>2 DEF HasLanded
    <3> QED BY <3>1, <3>2
  <2>5. pc = "broadcast" =>
          /\ pending # <<>> /\ InHand.step = St.id /\ InHand.call = TheCall
          /\ \A g \in Waiting : g = InHand \/ (Send.batch /\ OfThisBatch(g)')
    BY <1>5, <2>1 DEF RInv, HandInv, OfThisBatch
  <2> QED BY <1>4, <1>5, <2>1, <2>3, <2>4, <2>5 DEF RInv, HandInv
<1>12. OnceInv'
  <2>1. Alive' \subseteq Alive \cup {h} /\ (t0 \notin Ours' => Alive' \subseteq Alive)
    BY <1>1, <1>4, <1>6 DEF Alive
  <2>2. (Alive \ givenUp)' \subseteq Alive \ givenUp
    BY <1>5, <1>8, <2>1 DEF Alive
  <2> QED BY <2>2, OnceStays DEF RInv
<1>13. CapInv'
  <2>1. Paid' \subseteq Paid
    BY <1>1, <1>4, <1>5, <1>6, <1>8 DEF Paid
  <2> QED BY <1>5, <2>1, CapStays DEF RInv, PlaceInv
<1> QED BY <1>4, <1>7, <1>9, <1>10, <1>11, <1>12, <1>13 DEF RInv

(* What another process with the key waits for, and what the node drops. *)
LEMMA PoolKeeps ==
  ASSUME RInv, UNCHANGED <<world, next, landed, journal, pc, memory, why, givenUp>>,
         \A h \in pool' : h \in pool \/ Elsewhere(h)
  PROVE  RInv'
<1>1. /\ PlaceInv' /\ ProgressInv' /\ OwnCallsReady' /\ Waiting' = Waiting
      /\ \A g : InTurn(g) => InTurn(g)'
  BY ChainKeeps
<1>2. /\ txs' = txs /\ recovered' = recovered /\ pending' = pending /\ givenUp' = givenUp
      /\ pc' = pc /\ i' = i /\ plan' = plan /\ p' = p /\ s' = s /\ notes' = notes /\ gasCap' = gasCap
      /\ landed' = landed /\ next' = next
  BY DEF journal, memory, place, world
<1>3. Ours' = Ours /\ Alive' = Alive /\ Paid' = Paid
  BY <1>1, <1>2 DEF Ours, Alive, Paid
<1>4. LandedInv'
  BY <1>2, <1>3 DEF RInv, LandedInv
<1>5. SightInv'
  <2>1. \A h \in pool' : IsOurs(h) => h \in Waiting' \cup givenUp' /\ ~HasLanded(h)'
    BY <1>1, <1>2 DEF RInv, SightInv, HasLanded, Elsewhere
  <2> QED BY <1>1, <1>2, <1>3, <2>1 DEF RInv, SightInv
<1>6. TurnInv'
  BY <1>1, <1>2 DEF RInv, TurnInv
<1>7. HandInv'
  <2>1. St' = St /\ Send' = Send /\ InHand' = InHand /\ TheCall' = TheCall /\ Swept' = Swept
    BY <1>2 DEF St, Send, InHand, TheCall, Swept
  <2>2. pc \in {"sign", "broadcast"} =>
          \A a \in DOMAIN Send.calls : a >= i => ~KeptAs(St.id, Send.calls[a])'
    BY <1>2, <2>1 DEF RInv, HandInv, KeptAs, Recorded
  <2>3. pc = "sign" =>
          \A g \in Waiting : IF Send.batch THEN OfThisBatch(g)' ELSE g \notin pool' /\ ~HasLanded(g)'
    BY <1>2, <2>1 DEF RInv, HandInv, OfThisBatch, HasLanded, TurnInv, Elsewhere
  <2>4. pc = "broadcast" =>
          /\ pending # <<>> /\ InHand.step = St.id /\ InHand.call = TheCall
          /\ \A g \in Waiting : g = InHand \/ (Send.batch /\ OfThisBatch(g)')
    BY <1>2, <2>1 DEF RInv, HandInv, OfThisBatch
  <2> QED BY <1>1, <1>2, <2>1, <2>2, <2>3, <2>4 DEF RInv, HandInv
<1>8. OnceInv' /\ CapInv'
  BY <1>2, <1>3, OnceStays, CapStays DEF RInv, PlaceInv
<1> QED BY <1>1, <1>4, <1>5, <1>6, <1>7, <1>8 DEF RInv

LEMMA ForeignKeeps ==
  ASSUME RInv, ForeignTransaction
  PROVE  RInv'
<1> DEFINE h == Signed(Foreign, Call("transfer", "elsewhere"), PendingNonce)
<1>1. Elsewhere(h)
  BY DEF Signed, Elsewhere, IsOurs, Call
<1> HIDE DEF h
<1>2. pool' = pool \cup {h}
  BY DEF ForeignTransaction, h
<1> QED BY <1>1, <1>2, PoolKeeps DEF ForeignTransaction

LEMMA DropKeeps ==
  ASSUME RInv, DropPool
  PROVE  RInv'
BY PoolKeeps DEF DropPool

-----------------------------------------------------------------------------
(* Recovery *)

(* One transaction of the journal more is found mined, or given up on. *)
LEMMA LookKeeps ==
  ASSUME RInv, pc = "recover", i <= Len(pending), i' = i + 1,
         UNCHANGED <<world, chain, journal, pc, p, s, why>>,
         givenUp \subseteq givenUp', recovered \subseteq recovered', recovered' \subseteq Ours,
         pending[i] \in givenUp' \/ \E t \in recovered' : t.tx = pending[i]
  PROVE  RInv'
<1> USE DEF world, chain, journal
<1>1. i \in Nat \ {0} /\ DOMAIN pending = 1..Len(pending) /\ Len(pending) \in Nat
  BY Indexed DEF RInv, PlaceInv, Running
<1>2. /\ Ours' = Ours /\ Waiting' = Waiting /\ Alive' = Alive
      /\ (Alive \ givenUp)' \subseteq Alive \ givenUp /\ Paid' \subseteq Paid
  BY DEF Ours, Waiting, Alive, Paid
<1>3. PlaceInv' /\ HandInv' /\ OwnCallsReady'
  BY <1>1 DEF RInv, PlaceInv, HandInv, OwnCallsReady, Running, InSend, St
<1>4. ProgressInv'
  <2>1. \A at : SettledAt(at) => SettledAt(at)'
    BY SettledStays
  <2> QED BY <2>1 DEF RInv, ProgressInv, Running, Recorded
<1>5. LandedInv'
  BY <1>2 DEF RInv, LandedInv
<1>6. SightInv'
  <2>1. \A x \in DOMAIN pending : x < i + 1 =>
           pending[x] \in givenUp' \/ \E t \in recovered' : t.tx = pending[x]
    <3> SUFFICES ASSUME NEW x \in DOMAIN pending, x < i + 1
                 PROVE  pending[x] \in givenUp' \/ \E t \in recovered' : t.tx = pending[x]
      OBVIOUS
    <3>1. x < i \/ x = i
      BY <1>1
    <3> QED BY <3>1 DEF RInv, SightInv
  <2> QED BY <1>2, <2>1 DEF RInv, SightInv, HasLanded
<1>7. TurnInv'
  <2>1. \A h : InTurn(h) => InTurn(h)'
    BY InTurnStays
  <2> QED BY <1>2, <2>1 DEF RInv, TurnInv
<1>8. OnceInv' /\ CapInv'
  BY <1>2, OnceStays, CapStays DEF RInv, PlaceInv
<1> QED BY <1>3, <1>4, <1>5, <1>6, <1>7, <1>8 DEF RInv

LEMMA MinedKeeps ==
  ASSUME RInv, RecoverMined
  PROVE  RInv'
<1> USE DEF RecoverMined
<1>1. PICK t \in landed : t.tx = pending[i] /\ recovered' = recovered \cup {t}
  OBVIOUS
<1>2. i \in DOMAIN pending /\ pending[i] \in Waiting
  BY Indexed DEF RInv, PlaceInv, Running, Waiting
<1>3. t \in Ours
  BY <1>1, <1>2 DEF RInv, TurnInv, Ours
<1>4. recovered' \subseteq Ours
  BY <1>1, <1>3 DEF RInv, LandedInv
<1> QED BY <1>1, <1>4, LookKeeps

LEMMA GivenUpKeeps ==
  ASSUME RInv, GiveUp
  PROVE  RInv'
<1> USE DEF GiveUp
<1>1. recovered' \subseteq Ours
  BY DEF RInv, LandedInv
<1> QED BY <1>1, LookKeeps

(* What recordings owe the invariant: recorded transactions leave the      *)
(* pending ones, nothing else does that is on the chain or may get there.  *)
LEMMA RecordKeeps ==
  ASSUME RInv, UNCHANGED <<world, chain, done, notes, why, givenUp>>,
         recovered' = recovered, pc' # "recover",
         txs \subseteq txs', txs' \subseteq Ours,
         Waiting' \subseteq Waiting,
         \A t \in Ours : t.tx \in Waiting => t \in txs' \/ t.tx \in Waiting' \/ t.tx \in givenUp,
         \A h \in pool : h \in Waiting => h \in Waiting' \/ h \in givenUp \/ HasLanded(h)
  PROVE  LandedInv' /\ SightInv' /\ TurnInv' /\ OnceInv' /\ CapInv' /\ OwnCallsReady'
<1> USE DEF world, chain
<1>1. /\ Ours' = Ours /\ Alive' \subseteq Alive
      /\ (Alive \ givenUp)' \subseteq Alive \ givenUp /\ Paid' \subseteq Paid
  BY DEF Ours, Alive, Paid
<1>2. LandedInv'
  BY <1>1 DEF RInv, LandedInv
<1>3. SightInv'
  BY <1>1 DEF RInv, SightInv, HasLanded
<1>4. TurnInv'
  <2>1. \A h : InTurn(h) => InTurn(h)'
    BY InTurnStays
  <2> QED BY <1>1, <2>1 DEF RInv, TurnInv
<1>5. OnceInv' /\ CapInv' /\ OwnCallsReady'
  BY <1>1, OnceStays, CapStays DEF RInv, PlaceInv, OwnCallsReady
<1> QED BY <1>2, <1>3, <1>4, <1>5

(* A longer journal settles no less. *)
LEMMA ProgressKeeps ==
  ASSUME RInv, UNCHANGED <<world, done>>, txs \subseteq txs', notes \subseteq notes',
         Running' => \A at \in Places(plan) :
                       at[1] < p' \/ (at[1] = p' /\ at[2] < s') => SettledAt(at) \/ SettledAt(at)',
         \A at \in Places(plan) : plan[at[1]].id \in notes' \ notes /\ CallAt(plan, at).kept = "note"
                                    => Recorded(plan[at[1]].id, CallAt(plan, at))
  PROVE  ProgressInv'
<1> USE DEF world
<1>1. \A at : SettledAt(at) => SettledAt(at)'
  BY SettledStays
<1>2. (\A at \in Places(plan) : plan[at[1]].id \in notes /\ CallAt(plan, at).kept = "note"
                                  => Recorded(plan[at[1]].id, CallAt(plan, at)))'
  BY DEF RInv, ProgressInv, Recorded
<1> QED BY <1>1, <1>2 DEF RInv, ProgressInv

LEMMA EndKeeps ==
  ASSUME RInv, EndRecovery
  PROVE  RInv'
<1> USE DEF EndRecovery
<1>1. /\ i \in Nat /\ DOMAIN pending = 1..Len(pending) /\ Len(pending) \in Nat
      /\ p \in DOMAIN plan /\ plan[p].recovers
  BY Indexed DEF RInv, PlaceInv, Running, St
<1>2. /\ Len(plan) \in Nat /\ DOMAIN plan = 1..Len(plan) /\ plan' = plan /\ gasCap' = gasCap
      /\ \A n \in DOMAIN plan : Len(plan[n].sends) \in Nat /\ DOMAIN plan[n].sends = 1..Len(plan[n].sends)
  BY PlanShape, ScriptShape DEF world
<1>3. Waiting' = {} /\ Sequence(pending')
  BY DEF Waiting, ToSet, Sequence
<1>4. \A h \in Waiting : h \in givenUp \/ \E t \in recovered : t.tx = h
  <2> SUFFICES ASSUME NEW x \in DOMAIN pending
               PROVE  pending[x] \in givenUp \/ \E t \in recovered : t.tx = pending[x]
    BY DEF Waiting, ToSet
  <2>1. x < i
    BY <1>1
  <2> QED BY <2>1 DEF RInv, SightInv
<1>5. recovered \subseteq landed /\ \A t, u \in landed : t.tx = u.tx => t = u
  BY DEF RInv, LandedInv, Ours
<1>6. LandedInv' /\ SightInv' /\ TurnInv' /\ OnceInv' /\ CapInv' /\ OwnCallsReady'
  <2>1. txs' \subseteq Ours
    BY DEF RInv, LandedInv
  <2>2. \A t \in Ours : t.tx \in Waiting => t \in txs' \/ t.tx \in givenUp
    BY <1>4, <1>5 DEF Ours
  <2>3. \A h \in pool : h \in Waiting => h \in givenUp \/ HasLanded(h)
    BY <1>4, <1>5 DEF HasLanded
  <2>4. done' = done /\ UNCHANGED <<world, chain, done, notes, why, givenUp>>
    OBVIOUS
  <2> QED BY <1>3, <2>1, <2>2, <2>3, <2>4, RecordKeeps
<1>7. PlaceInv' /\ HandInv'
  BY <1>1, <1>2, <1>3 DEF RInv, PlaceInv, HandInv, Running, InSend, St
<1>8. ProgressInv'
  <2>1. plan[p].sends = <<>>
    BY <1>1, PlanShape DEF Shaped, StepShaped
  <2>2. ASSUME NEW at \in Places(plan), at[1] < p + 1 \/ (at[1] = p + 1 /\ at[2] < 1)
        PROVE  SettledAt(at)
    <3>1. at[1] \in DOMAIN plan /\ at[2] \in DOMAIN plan[at[1]].sends
      BY PlaceIs
    <3>2. at[1] # p
      BY <2>1, <3>1
    <3>3. at[1] < p
      BY <1>1, <1>2, <2>2, <3>1, <3>2
    <3> QED BY <3>3 DEF RInv, ProgressInv, Running
  <2> QED BY <2>2, ProgressKeeps
<1> QED BY <1>6, <1>7, <1>8 DEF RInv

LEMMA ReceiptKeeps ==
  ASSUME RInv, Receipt
  PROVE  RInv'
<1> USE DEF Receipt
<1>1. PICK t \in landed : t.tx = pending[1] /\ txs' = txs \cup {t}
  OBVIOUS
<1>2. Sequence(pending') /\ Waiting = {pending[1]} \cup Waiting'
  BY FirstAndRest DEF RInv, PlaceInv, Waiting
<1>3. t \in Ours /\ HasLanded(pending[1])
  BY <1>1, <1>2 DEF RInv, TurnInv, Ours, HasLanded
<1>4. \A u \in Ours : u.tx = pending[1] => u = t
  BY <1>1 DEF RInv, LandedInv, Ours
<1>5. LandedInv' /\ SightInv' /\ TurnInv' /\ OnceInv' /\ CapInv' /\ OwnCallsReady'
  <2>1. txs' \subseteq Ours /\ txs \subseteq txs'
    BY <1>1, <1>3 DEF RInv, LandedInv
  <2>2. \A u \in Ours : u.tx \in Waiting => u \in txs' \/ u.tx \in Waiting'
    BY <1>1, <1>2, <1>4
  <2>3. \A h \in pool : h \in Waiting => h \in Waiting' \/ HasLanded(h)
    BY <1>2, <1>3
  <2> QED BY <1>2, <2>1, <2>2, <2>3, RecordKeeps DEF memory
<1>6. PlaceInv' /\ HandInv'
  BY <1>2 DEF RInv, PlaceInv, HandInv, Running, InSend, St, Send, memory, place, world
<1>7. ProgressInv'
  <2>1. Running' => \A at \in Places(plan) : at[1] < p' \/ (at[1] = p' /\ at[2] < s') => SettledAt(at)
    BY DEF RInv, ProgressInv, Running, memory, place
  <2> QED BY <1>1, <2>1, ProgressKeeps
<1> QED BY <1>5, <1>6, <1>7 DEF RInv

(* The calls of the send are recorded; a noted one is alone in its step. *)
LEMMA SettleKeeps ==
  ASSUME RInv, Settle
  PROVE  RInv'
<1> USE DEF Settle, NextSend
<1> DEFINE here == <<p, s, i>>
<1>1. /\ p \in DOMAIN plan /\ s \in DOMAIN plan[p].sends /\ i \in DOMAIN plan[p].sends[s].calls
      /\ p \in 1..(Len(plan) + 1) /\ s \in Nat \ {0}
  BY DEF RInv, PlaceInv, InSend, Running, St, Send
<1>2. /\ Len(plan) \in Nat /\ DOMAIN plan = 1..Len(plan) /\ plan' = plan /\ gasCap' = gasCap
      /\ Len(plan[p].sends) \in Nat /\ DOMAIN plan[p].sends = 1..Len(plan[p].sends)
  BY <1>1, PlanShape, ScriptShape DEF world
<1>3. here \in Places(plan) /\ CallAt(plan, here) = TheCall /\ here[1] = p
  BY <1>1, IsPlace DEF TheCall, Send, St
<1> HIDE DEF here
<1>4. notes \subseteq notes' /\ (TheCall.kept # "note" => notes' = notes)
      /\ notes' \subseteq notes \cup {plan[p].id}
  BY DEF St
<1>5. LandedInv' /\ SightInv' /\ TurnInv' /\ OnceInv' /\ CapInv' /\ OwnCallsReady'
  <2>1. \A h : InTurn(h) => InTurn(h)'
    BY <1>4, InTurnStays DEF world
  <2>2. Ours' = Ours /\ Waiting' = Waiting /\ Alive' = Alive /\ Paid' = Paid
    BY DEF Ours, Waiting, Alive, Paid, chain
  <2>3. LandedInv' /\ SightInv'
    BY <2>2 DEF RInv, LandedInv, SightInv, HasLanded, chain
  <2>4. TurnInv'
    BY <2>1, <2>2 DEF RInv, TurnInv, chain
  <2>5. OnceInv' /\ CapInv' /\ OwnCallsReady'
    BY <2>2, <1>2, OnceStays, CapStays DEF RInv, PlaceInv, OwnCallsReady
  <2> QED BY <2>3, <2>4, <2>5
<1>6. PlaceInv' /\ HandInv'
  BY <1>1, <1>2 DEF RInv, PlaceInv, HandInv, Running, InSend, St, world
<1>7. ProgressInv'
  <2>1. ASSUME NEW at \in Places(plan), at[1] = p, at[2] = s
        PROVE  SettledAt(at)'
    <3>1. at[3] \in DOMAIN Send.calls /\ CallAt(plan, at) = Send.calls[at[3]]
      BY <2>1, PlaceIs DEF Send, St, CallAt
    <3>2. Recorded(plan[p].id, CallAt(plan, at))
      BY <3>1 DEF AllMined, St
    <3>3. CASE CallAt(plan, at).kept = "note"
      <4>1. at = here
        BY <1>3, <2>1, <3>3, PlanShape, OncePlaced
      <4>2. plan[p].id \in notes'
        BY <1>3, <3>3, <4>1 DEF St
      <4> QED BY <1>2, <2>1, <3>3, <4>2 DEF SettledAt, KeptAs
    <3>4. CASE CallAt(plan, at).kept # "note"
      BY <1>2, <2>1, <3>2, <3>4 DEF SettledAt, KeptAs, Recorded
    <3> QED BY <3>3, <3>4
  <2>2. ASSUME NEW at \in Places(plan), at[1] < p \/ (at[1] = p /\ at[2] < s + 1)
        PROVE  SettledAt(at) \/ SettledAt(at)'
    <3>1. at[2] \in DOMAIN plan[at[1]].sends
      BY PlaceIs
    <3>2. at[1] < p \/ (at[1] = p /\ at[2] < s) \/ (at[1] = p /\ at[2] = s)
      BY <1>1, <1>2, <2>2, <3>1
    <3> QED BY <2>1, <3>2 DEF RInv, ProgressInv, Running
  <2>3. ASSUME NEW at \in Places(plan), plan[at[1]].id \in notes' \ notes, CallAt(plan, at).kept = "note"
        PROVE  Recorded(plan[at[1]].id, CallAt(plan, at))
    <3>1. plan[at[1]].id = plan[here[1]].id
      BY <1>3, <1>4, <2>3
    <3>2. at = here
      BY <1>3, <2>3, <3>1, PlanShape, OncePlaced
    <3> QED BY <1>1, <1>3, <3>1, <3>2 DEF AllMined, Send, St, TheCall
  <2> QED BY <1>4, <2>2, <2>3, ProgressKeeps
<1> QED BY <1>5, <1>6, <1>7 DEF RInv

-----------------------------------------------------------------------------
(* Signing *)

(* What Sign puts into the journal: the last one pending is the new one,   *)
(* alone or behind those of its batch.                                     *)
InHandNow == Signed(St.id, TheCall, Nonce)

LEMMA SignedIsLast ==
  ASSUME RInv, Sign
  PROVE  /\ Sequence(pending') /\ pending' # <<>> /\ InHand' = InHandNow /\ InHandNow \in Waiting'
         /\ Send.batch => Waiting' = Waiting \cup {InHandNow} /\ Len(pending') = Len(pending) + 1
         /\ ~Send.batch => Waiting' = {InHandNow} /\ Len(pending') = 1
         /\ InHandNow.step = St.id /\ InHandNow.call = TheCall
<1> DEFINE h == InHandNow
<1>1. pending' = IF Send.batch THEN Append(pending, h) ELSE <<h>>
  BY DEF Sign, InHandNow
<1>2. h.step = St.id /\ h.call = TheCall
  BY DEF InHandNow, Signed
<1>3. Sequence(pending)
  BY DEF RInv, PlaceInv
<1> HIDE DEF h
<1>4. CASE Send.batch
  <2>1. pending' = Append(pending, h)
    BY <1>1, <1>4
  <2>2. /\ Sequence(pending') /\ pending' # <<>> /\ Len(pending') = Len(pending) + 1
        /\ pending'[Len(pending) + 1] = h /\ ToSet(pending') = ToSet(pending) \cup {h}
    BY <1>3, <2>1, Appended
  <2> QED BY <1>2, <1>4, <2>2 DEF InHand, Waiting, h
<1>5. CASE ~Send.batch
  <2>1. pending' = <<h>>
    BY <1>1, <1>5
  <2>2. /\ Sequence(pending') /\ pending' # <<>> /\ Len(pending') = 1
        /\ pending'[1] = h /\ ToSet(pending') = {h}
    BY <2>1, Single
  <2> QED BY <1>2, <1>5, <2>2 DEF InHand, Waiting, h
<1> QED BY <1>4, <1>5

LEMMA SignKeeps ==
  ASSUME RInv, Sign
  PROVE  RInv'
<1> DEFINE h    == InHandNow
           here == <<p, s, i>>
<1>1. /\ pc = "sign" /\ pc' = "broadcast" /\ WorstSpent <= gasCap
      /\ plan' = plan /\ gasCap' = gasCap /\ endowed' = endowed
      /\ next' = next /\ pool' = pool /\ landed' = landed
      /\ done' = done /\ txs' = txs /\ notes' = notes /\ recovered' = recovered
      /\ p' = p /\ s' = s /\ i' = i /\ why' = why /\ givenUp' = givenUp
  BY DEF Sign, world, chain, memory, place
<1>2. /\ Sequence(pending') /\ pending' # <<>> /\ InHand' = h /\ h \in Waiting'
      /\ Send.batch => Waiting' = Waiting \cup {h} /\ Len(pending') = Len(pending) + 1
      /\ ~Send.batch => Waiting' = {h} /\ Len(pending') = 1
      /\ h.step = St.id /\ h.call = TheCall
  BY SignedIsLast
<1>3. /\ p \in DOMAIN plan /\ s \in DOMAIN plan[p].sends /\ i \in DOMAIN plan[p].sends[s].calls
      /\ Len(pending) \in Nat /\ i \in Nat
  BY <1>1, Indexed DEF RInv, PlaceInv, InSend, Running, St, Send
<1>4. here \in Places(plan) /\ CallAt(plan, here) = TheCall /\ here[1] = p /\ here[2] = s /\ here[3] = i
  BY <1>3, IsPlace DEF TheCall, Send, St
<1> HIDE DEF h, here
<1>5. Ours' = Ours /\ St' = St /\ Send' = Send /\ TheCall' = TheCall
  BY <1>1 DEF Ours, St, Send, TheCall
\* A transaction of one send after the other is not on the chain yet.
<1>6. ASSUME NEW g \in Waiting, ~Send.batch PROVE g \notin pool /\ ~HasLanded(g)
  BY <1>1, <1>6 DEF RInv, HandInv
<1>7. ASSUME NEW g \in Waiting, Send.batch PROVE OfThisBatch(g)
  BY <1>1, <1>7 DEF RInv, HandInv
<1>8. \A t \in Ours : t \in txs \/ t.tx \in Waiting' \/ t.tx \in givenUp
  <2> SUFFICES ASSUME NEW t \in Ours, t.tx \in Waiting PROVE t.tx \in Waiting'
    BY DEF RInv, SightInv
  <2>1. HasLanded(t.tx)
    BY DEF Ours, HasLanded
  <2> QED BY <1>2, <1>6, <2>1
<1>9. ~KeptAs(St.id, TheCall)
  BY <1>1, <1>3 DEF RInv, HandInv, TheCall, Send, St
<1>10. PlaceInv'
  BY <1>1, <1>2, <1>5 DEF RInv, PlaceInv, Running, InSend
<1>11. ProgressInv'
  <2>1. Running' => \A at \in Places(plan) : at[1] < p' \/ (at[1] = p' /\ at[2] < s') => SettledAt(at)
    BY <1>1 DEF RInv, ProgressInv, Running
  <2> QED BY <1>1, <2>1, ProgressKeeps DEF world
<1>12. LandedInv'
  BY <1>1, <1>5 DEF RInv, LandedInv
<1>13. SightInv'
  <2>1. \A g \in pool : IsOurs(g) => g \in Waiting' \cup givenUp
    BY <1>2, <1>6 DEF RInv, SightInv
  <2> QED BY <1>1, <1>5, <1>8, <2>1 DEF RInv, SightInv, HasLanded
<1>14. TurnInv'
  <2>1. \A g : InTurn(g) => InTurn(g)'
    BY <1>1, InTurnStays
  <2>2. InTurn(h)
    <3>1. ASSUME NEW to \in Places(plan), SendBefore(to, here) PROVE SettledAt(to)
      BY <1>1, <1>4, <3>1 DEF SendBefore, RInv, ProgressInv, Running
    <3> QED BY <1>2, <1>4, <3>1 DEF InTurn, St
  <2>3. IsOurs(h)
    BY <2>2, OursInTurn
  <2>4. Waiting' \subseteq Waiting \cup {h}
    BY <1>2
  <2>5. \A g \in Waiting' : IsOurs(g) /\ InTurn(g)'
    BY <2>1, <2>2, <2>3, <2>4 DEF RInv, TurnInv
  <2> QED BY <1>1, <2>1, <2>5 DEF RInv, TurnInv
<1>15. HandInv'
  <2>1. \A a \in DOMAIN Send.calls : a >= i => ~KeptAs(St.id, Send.calls[a])'
    BY <1>1, <1>5 DEF RInv, HandInv, KeptAs, Recorded
  <2>2. \A g \in Waiting' : g = h \/ (Send.batch /\ OfThisBatch(g)')
    BY <1>1, <1>2, <1>5, <1>7 DEF OfThisBatch
  <2> QED BY <1>1, <1>2, <1>5, <2>1, <2>2 DEF HandInv
\* No transaction that counts is of the same call.
<1>16. ASSUME NEW g \in Alive' \ givenUp, g # h,
              g.step = h.step, g.call.what = h.call.what, h.call.kept = "journal"
       PROVE  FALSE
  <2>1. ASSUME g \in Waiting PROVE ~Send.batch
    <3> SUFFICES ASSUME Send.batch PROVE FALSE
      OBVIOUS
    <3>1. PICK a \in DOMAIN Send.calls : a < i /\ g.call = Send.calls[a]
      BY <1>7, <2>1 DEF OfThisBatch
    <3>2. <<p, s, a>> \in Places(plan) /\ CallAt(plan, <<p, s, a>>) = Send.calls[a]
      BY <1>3, <3>1, IsPlace DEF Send, St
    <3>3. <<p, s, a>>[1] = p /\ <<p, s, a>>[3] = a
      OBVIOUS
    <3>4. <<p, s, a>> = here
      BY <1>2, <1>4, <1>16, <3>1, <3>2, <3>3, PlanShape, OncePlaced
    <3> QED BY <1>3, <1>4, <3>1, <3>3, <3>4
  <2>2. ASSUME g \in Waiting' PROVE FALSE
    BY <1>2, <1>16, <2>1, <2>2
  <2>3. ASSUME NEW t \in Ours, t.ok, g = t.tx PROVE FALSE
    <3>1. t \in txs
      BY <1>8, <1>16, <2>2, <2>3
    <3>2. Recorded(St.id, TheCall)
      BY <1>2, <1>16, <2>3, <3>1 DEF Recorded
    <3> QED BY <1>2, <1>9, <1>16, <3>2 DEF KeptAs
  <2> QED BY <1>5, <1>16, <2>2, <2>3 DEF Alive
<1>17. OnceInv'
  <2>1. ASSUME NEW g \in Alive' \ givenUp, NEW k \in Alive' \ givenUp, g # h, k # h
        PROVE  g \in Alive \ givenUp /\ k \in Alive \ givenUp
    BY <1>2, <1>5, <2>1 DEF Alive
  <2>2. ASSUME NEW g \in Alive' \ givenUp, NEW k \in Alive' \ givenUp,
               g.step = k.step, g.call.what = k.call.what, g.call.kept = "journal", k.call.kept = "journal"
        PROVE  g = k
    <3>1. CASE g = h
      BY <1>16, <2>2, <3>1
    <3>2. CASE k = h
      BY <1>16, <2>2, <3>2
    <3>3. CASE g # h /\ k # h
      BY <2>1, <2>2, <3>3 DEF RInv, OnceInv
    <3> QED BY <3>1, <3>2, <3>3
  <2> QED BY <1>1, <2>2 DEF OnceInv
<1>18. CapInv'
  <2> DEFINE A == {t.tx : t \in txs}
             B == ToSet(pending')
  <2>1. Paid' \subseteq A \cup B
    BY <1>1, <1>5, <1>8 DEF Paid, Waiting
  <2>2. IsFiniteSet(txs) /\ Cardinality(txs) \in Nat
    <3>1. txs \subseteq landed
      BY DEF RInv, LandedInv, Ours
    <3> QED BY <3>1, Fewer DEF RInv, LandedInv
  <2>3. IsFiniteSet(A) /\ Cardinality(A) <= Cardinality(txs)
    BY <2>2, TxCount
  <2>4. IsFiniteSet(B) /\ Cardinality(B) <= Len(pending')
    BY <1>2, ToSetCount
  <2> HIDE DEF A, B
  <2>5. /\ IsFiniteSet(A \cup B) /\ Cardinality(A \cup B) = Cardinality(A) + Cardinality(B) - Cardinality(A \cap B)
        /\ Cardinality(A) \in Nat /\ Cardinality(B) \in Nat /\ Cardinality(A \cap B) \in Nat
    BY <2>3, <2>4, FS_Union, FS_CardinalityType, FS_Intersection
  <2>6. /\ IsFiniteSet(Paid') /\ Cardinality(Paid') \in Nat
        /\ Cardinality(Paid') <= Cardinality(A \cup B)
    BY <2>1, <2>5, Fewer
  <2>7. gasCap \in Nat
    BY GasCapAssumption DEF RInv, PlaceInv
  <2>8. Cardinality(txs) + Len(pending') <= gasCap /\ Len(pending') \in Nat
    <3>1. Cardinality(txs) + (IF Send.batch THEN Len(pending) ELSE 0) + 1 <= gasCap
      BY <1>1 DEF WorstSpent
    <3>2. Len(pending') = (IF Send.batch THEN Len(pending) ELSE 0) + 1
      BY <1>2, <1>3
    <3>3. (IF Send.batch THEN Len(pending) ELSE 0) \in Nat
      BY <1>3
    <3> QED BY <2>2, <2>7, <3>1, <3>2, <3>3
  <2>9. Cardinality(Paid') <= gasCap
    BY <2>2, <2>3, <2>4, <2>5, <2>6, <2>7, <2>8
  <2> QED BY <1>1, <2>6, <2>9 DEF CapInv
<1>19. OwnCallsReady'
  BY <1>1 DEF RInv, OwnCallsReady
<1> QED BY <1>10, <1>11, <1>12, <1>13, <1>14, <1>15, <1>17, <1>18, <1>19 DEF RInv

-----------------------------------------------------------------------------
(* Sending *)

LEMMA AtBroadcast ==
  ASSUME RInv, pc = "broadcast"
  PROVE  /\ InHand \in Waiting /\ IsOurs(InHand) /\ InTurn(InHand)
         /\ p \in DOMAIN plan /\ s \in DOMAIN St.sends /\ i \in DOMAIN Send.calls /\ i \in Nat
         /\ Len(Send.calls) \in Nat /\ DOMAIN Send.calls = 1..Len(Send.calls)
<1>1. Sequence(pending) /\ pending # <<>>
  BY DEF RInv, PlaceInv, HandInv
<1>2. InHand \in Waiting
  <2>1. Len(pending) \in DOMAIN pending
    BY <1>1, Indexed
  <2> QED BY <1>1, <2>1, Indexed DEF InHand, Waiting
<1>3. p \in DOMAIN plan /\ s \in DOMAIN St.sends /\ i \in DOMAIN Send.calls
  BY DEF RInv, PlaceInv, InSend
<1>4. Len(Send.calls) \in Nat /\ DOMAIN Send.calls = 1..Len(Send.calls)
  BY <1>3, PlanShape, ScriptShape DEF Send, St
<1> QED BY <1>2, <1>3, <1>4 DEF RInv, TurnInv

(* The node holds what the journal has pending, and nothing else of ours. *)
LEMMA HeldKeeps ==
  ASSUME RInv, pc = "broadcast",
         UNCHANGED <<world, next, landed, journal, recovered, why, givenUp>>,
         pc' # "recover",
         \A h \in pool' : h \in pool \/ (h = InHand /\ ~HasLanded(InHand))
  PROVE  LandedInv' /\ SightInv' /\ TurnInv' /\ OnceInv' /\ CapInv' /\ OwnCallsReady'
<1> USE DEF world, journal
<1>1. Ours' = Ours /\ Waiting' = Waiting /\ Alive' = Alive /\ Paid' = Paid
  BY DEF Ours, Waiting, Alive, Paid
<1>2. InHand \in Waiting /\ InTurn(InHand)
  BY AtBroadcast
<1>3. LandedInv'
  BY <1>1 DEF RInv, LandedInv
<1>4. SightInv'
  BY <1>1, <1>2 DEF RInv, SightInv, HasLanded
<1>5. TurnInv'
  <2>1. \A h : InTurn(h) => InTurn(h)'
    BY InTurnStays
  <2> QED BY <1>1, <1>2, <2>1 DEF RInv, TurnInv
<1>6. OnceInv' /\ CapInv' /\ OwnCallsReady'
  BY <1>1, OnceStays, CapStays DEF RInv, PlaceInv, OwnCallsReady
<1> QED BY <1>3, <1>4, <1>5, <1>6

LEMMA SentKeeps ==
  ASSUME RInv, pc = "broadcast", Sent,
         UNCHANGED <<world, next, landed, journal, p, s, recovered, why, givenUp>>,
         \A h \in pool' : h \in pool \/ (h = InHand /\ ~HasLanded(InHand))
  PROVE  RInv'
<1> USE DEF world, journal
<1>1. \/ Send.batch /\ i < Len(Send.calls) /\ pc' = "sign" /\ i' = i + 1
      \/ pc' = "await" /\ i' = i
  BY DEF Sent
<1>2. LandedInv' /\ SightInv' /\ TurnInv' /\ OnceInv' /\ CapInv' /\ OwnCallsReady'
  BY <1>1, HeldKeeps
<1>3. /\ p \in DOMAIN plan /\ s \in DOMAIN St.sends /\ i \in DOMAIN Send.calls /\ i \in Nat
      /\ Len(Send.calls) \in Nat /\ DOMAIN Send.calls = 1..Len(Send.calls)
  BY AtBroadcast
<1>4. St' = St /\ Send' = Send /\ Waiting' = Waiting
  BY DEF St, Send, Waiting
<1>5. PlaceInv'
  <2>1. i' \in DOMAIN Send.calls /\ i' \in Nat \ {0}
    BY <1>1, <1>3
  <2> QED BY <1>1, <1>3, <1>4, <2>1 DEF RInv, PlaceInv, Running, InSend
<1>6. ProgressInv'
  <2>1. Running' => \A at \in Places(plan) : at[1] < p' \/ (at[1] = p' /\ at[2] < s') => SettledAt(at)
    BY DEF RInv, ProgressInv, Running
  <2> QED BY <2>1, ProgressKeeps
<1>7. HandInv'
  <2>1. CASE pc' = "await"
    BY <2>1 DEF HandInv
  <2>2. CASE pc' = "sign" /\ Send.batch /\ i' = i + 1
    <3>1. \A a \in DOMAIN Send.calls : a >= i + 1 => ~KeptAs(St.id, Send.calls[a])'
      <4>1. \A a \in DOMAIN Send.calls : a >= i + 1 => a >= i
        BY <1>3
      <4> QED BY <1>4, <4>1 DEF RInv, HandInv, KeptAs, Recorded
    <3>2. \A h \in Waiting : OfThisBatch(h)'
      <4> SUFFICES ASSUME NEW h \in Waiting
                   PROVE  h.step = St.id /\ \E a \in DOMAIN Send.calls : a < i + 1 /\ h.call = Send.calls[a]
        BY <1>4, <2>2 DEF OfThisBatch
      <4>1. CASE h = InHand
        BY <1>3, <4>1 DEF RInv, HandInv, TheCall
      <4>2. CASE OfThisBatch(h)
        <5>1. \A a \in DOMAIN Send.calls : a < i => a < i + 1
          BY <1>3
        <5> QED BY <4>2, <5>1 DEF OfThisBatch
      <4> QED BY <4>1, <4>2 DEF RInv, HandInv
    <3> QED BY <1>4, <2>2, <3>1, <3>2 DEF HandInv
  <2> QED BY <1>1, <2>1, <2>2
<1> QED BY <1>2, <1>5, <1>6, <1>7 DEF RInv

(* A free nonce has not landed. *)
LEMMA FreeIsNew ==
  ASSUME RInv, NonceFree
  PROVE  ~HasLanded(InHand)
BY DEF RInv, LandedInv, NonceFree, HasLanded

LEMMA AcceptedKeeps ==
  ASSUME RInv, BroadcastAccepted
  PROVE  RInv'
<1>1. ~HasLanded(InHand)
  BY FreeIsNew DEF BroadcastAccepted
<1> QED BY <1>1, SentKeeps DEF BroadcastAccepted

LEMMA KnownKeeps ==
  ASSUME RInv, BroadcastKnown
  PROVE  RInv'
BY SentKeeps DEF BroadcastKnown, chain

LEMMA AnswerLostKeeps ==
  ASSUME RInv, BroadcastAnswerLost
  PROVE  RInv'
<1> USE DEF BroadcastAnswerLost
<1>1. ~HasLanded(InHand)
  BY FreeIsNew
<1>2. UNCHANGED <<world, next, landed, journal, pc, recovered, why, givenUp>> /\ UNCHANGED <<p, s, i>>
  BY DEF memory, place
<1>3. LandedInv' /\ SightInv' /\ TurnInv' /\ OnceInv' /\ CapInv' /\ OwnCallsReady'
  BY <1>1, <1>2, HeldKeeps
<1>4. PlaceInv'
  BY <1>2 DEF RInv, PlaceInv, Running, InSend, St, Send, world, journal
<1>5. ProgressInv'
  <2>1. Running' => \A at \in Places(plan) : at[1] < p' \/ (at[1] = p' /\ at[2] < s') => SettledAt(at)
    BY <1>2 DEF RInv, ProgressInv, Running
  <2> QED BY <1>2, <2>1, ProgressKeeps DEF journal
<1>6. HandInv'
  BY <1>2 DEF RInv, HandInv, world, journal, St, Send, InHand, TheCall, Waiting, OfThisBatch, KeptAs, Recorded
<1> QED BY <1>3, <1>4, <1>5, <1>6 DEF RInv

LEMMA AgainKeeps ==
  ASSUME RInv, SignAgain
  PROVE  RInv'
<1> USE DEF SignAgain, Taken
<1>1. UNCHANGED <<p, s, i>> /\ plan' = plan /\ gasCap' = gasCap /\ UNCHANGED <<done, txs, pending, notes>>
      /\ pool' = pool /\ landed' = landed
  BY DEF place, world, journal, chain
<1>2. St' = St /\ Send' = Send /\ Waiting' = Waiting
  BY <1>1 DEF St, Send, Waiting
<1>3. PlaceInv'
  BY <1>1, <1>2 DEF RInv, PlaceInv, Running, InSend
<1>4. HandInv'
  <2>1. \A a \in DOMAIN Send.calls : a >= i => ~KeptAs(St.id, Send.calls[a])'
    BY <1>1, <1>2 DEF RInv, HandInv, KeptAs, Recorded
  <2>2. \A h \in Waiting : h \notin pool' /\ ~HasLanded(h)'
    BY <1>1 DEF RInv, HandInv, HasLanded
  <2> QED BY <1>1, <1>2, <2>1, <2>2 DEF HandInv
<1>5. /\ \A at \in Places(plan) : at[1] < p' \/ (at[1] = p' /\ at[2] < s') => SettledAt(at)
      /\ \A at \in Places(plan) : plan[at[1]].id \in done' => SettledAt(at)
  BY <1>1 DEF RInv, ProgressInv, Running
<1> QED BY <1>3, <1>4, <1>5, MoveKeeps DEF journal

-----------------------------------------------------------------------------
(* The theorems *)

LEMMA InitRInv == Init => RInv
<1> SUFFICES ASSUME Init PROVE RInv
  OBVIOUS
<1> USE DEF Init
<1>1. PlaceInv
  BY DEF PlaceInv, Sequence, Running, InSend
<1>2. Waiting = {} /\ Ours = {} /\ Alive = {} /\ Paid = {}
  BY DEF Waiting, ToSet, Ours, Alive, Paid
<1>3. ProgressInv /\ HandInv /\ OwnCallsReady
  BY DEF ProgressInv, HandInv, OwnCallsReady, Running
<1>4. LandedInv
  BY <1>2, FS_EmptySet DEF LandedInv
<1>5. SightInv /\ TurnInv /\ OnceInv
  BY <1>2 DEF SightInv, TurnInv, OnceInv
<1>6. CapInv
  <2>1. gasCap \in Nat
    BY GasCapAssumption
  <2>2. IsFiniteSet({}) /\ Cardinality({}) = 0
    BY FS_EmptySet
  <2> QED BY <1>2, <2>1, <2>2 DEF CapInv
<1> QED BY <1>1, <1>3, <1>4, <1>5, <1>6 DEF RInv

LEMMA StopsKeep ==
  ASSUME RInv,
         \/ Crash \/ ChecksFail \/ BatchBroken \/ GasCapReached
         \/ KeepsBeingTaken \/ NoReceipt \/ Reverted
  PROVE  RInv'
<1>1. CASE Crash
  BY <1>1, StopKeeps DEF Crash
<1>2. CASE ChecksFail
  BY <1>2, StopKeeps DEF ChecksFail
<1>3. CASE BatchBroken
  BY <1>3, StopKeeps DEF BatchBroken
<1>4. CASE GasCapReached
  BY <1>4, StopKeeps DEF GasCapReached
<1>5. CASE KeepsBeingTaken
  BY <1>5, StopKeeps DEF KeepsBeingTaken
<1>6. CASE NoReceipt
  BY <1>6, StopKeeps DEF NoReceipt
<1>7. CASE Reverted
  BY <1>7, StopKeeps DEF Reverted
<1> QED BY <1>1, <1>2, <1>3, <1>4, <1>5, <1>6, <1>7

LEMMA DriveKeeps ==
  ASSUME RInv, Drive
  PROVE  RInv'
<1>1. CASE BeginRecovery \/ RecoverMined \/ RecoverNeverMined \/ EndRecovery
  BY <1>1, BeginKeeps, MinedKeeps, GivenUpKeeps, EndKeeps DEF RecoverNeverMined
<1>2. CASE SkipStep \/ ChecksPass \/ Finish
  BY <1>2, SkipKeeps, ChecksKeep, FinishKeeps
<1>3. CASE Reuse \/ SkipOptional \/ BatchBroken \/ WouldRevert \/ Simulate
  BY <1>3, ReuseKeeps, OptionalKeeps, StopsKeep, RefusedKeeps, SimulateKeeps
<1>4. CASE GasCapReached \/ Sign
  BY <1>4, StopsKeep, SignKeeps
<1>5. CASE BroadcastAccepted \/ BroadcastKnown \/ SignAgain \/ KeepsBeingTaken
  BY <1>5, AcceptedKeeps, KnownKeeps, AgainKeeps, StopsKeep
<1>6. CASE Receipt \/ ReceiptNeverComes \/ Settle \/ Reverted
  BY <1>6, ReceiptKeeps, SettleKeeps, StopsKeep DEF ReceiptNeverComes
<1> QED BY <1>1, <1>2, <1>3, <1>4, <1>5, <1>6 DEF Drive

LEMMA FaultKeeps ==
  ASSUME RInv, Fault
  PROVE  RInv'
<1>1. CASE MineReverted
  BY <1>1, LandKeeps DEF MineReverted
<1>2. CASE ForeignTransaction \/ DropPool
  BY <1>2, ForeignKeeps, DropKeeps
<1>3. CASE Crash \/ ChecksFail \/ ReceiptTooLate
  BY <1>3, StopsKeep DEF ReceiptTooLate
<1>4. CASE RecoverStillWaiting \/ BroadcastAnswerLost
  BY <1>4, GivenUpKeeps, AnswerLostKeeps DEF RecoverStillWaiting
<1> QED BY <1>1, <1>2, <1>3, <1>4 DEF Fault

LEMMA NextRInv == RInv /\ [Next]_vars => RInv'
<1> SUFFICES ASSUME RInv, [Next]_vars PROVE RInv'
  OBVIOUS
<1>1. CASE Mine
  BY <1>1, LandKeeps DEF Mine
<1>2. CASE Start
  BY <1>2, StartKeeps
<1>3. CASE Drive
  BY <1>3, DriveKeeps
<1>4. CASE Fault
  BY <1>4, FaultKeeps
<1>5. CASE UNCHANGED vars
  <2>1. UNCHANGED <<world, next, landed, journal, pc, memory, why, givenUp>> /\ pool' = pool
    BY <1>5 DEF vars, chain
  <2> QED BY <2>1, PoolKeeps
<1> QED BY <1>1, <1>2, <1>3, <1>4, <1>5 DEF Next

(* In every state the driver can reach: where the process is and what lies *)
(* behind it, what is in sight, in its turn, sent once and within the cap. *)
THEOREM DriverInvariance == Spec => []RInv
<1>1. Init => RInv
  BY InitRInv
<1>2. RInv /\ [Next]_vars => RInv'
  BY NextRInv
<1> QED BY <1>1, <1>2, PTL DEF Spec

(* As many keys as transactions, when no two have one. *)
LEMMA KeysCount ==
  ASSUME NEW T, IsFiniteSet(T), \A t, u \in T : Key(t) = Key(u) => t = u
  PROVE  AllDistinct(T)
<1> DEFINE K == {Key(t) : t \in T}
           f == [t \in T |-> Key(t)]
<1>1. f \in Surjection(T, K) /\ f \in Injection(T, K)
  BY DEF Surjection, Injection, IsInjective
<1> HIDE DEF f
<1>2. Cardinality(K) = Cardinality(T)
  BY <1>1, FS_Surjection
<1> QED BY <1>2 DEF AllDistinct

LEMMA TxOnce ==
  ASSUME RInv, NEW t \in Ours, NEW u \in Ours, t.tx = u.tx
  PROVE  t = u
BY DEF RInv, LandedInv, Ours

LEMMA RInvNothingLost == RInv => NothingLost
<1> SUFFICES ASSUME RInv, NEW t \in Ours, t \notin txs, t.tx \notin givenUp
             PROVE  \E n \in DOMAIN pending : pending[n] = t.tx
  BY DEF NothingLost
<1> QED BY DEF RInv, SightInv, Waiting, ToSet

LEMMA RInvSentOnce == RInv => NothingSentTwice
<1> SUFFICES ASSUME RInv PROVE NothingSentTwice
  OBVIOUS
<1> DEFINE T == {t \in Counted : t.tx.call.kept = "journal"}
<1>1. IsFiniteSet(T)
  <2>1. T \subseteq landed
    BY DEF Counted, Ours
  <2> QED BY <2>1, Fewer DEF RInv, LandedInv
<1>2. ASSUME NEW t \in T, NEW u \in T, Key(t) = Key(u) PROVE t = u
  <2>1. t \in Ours /\ u \in Ours /\ t.tx \in Alive \ givenUp /\ u.tx \in Alive \ givenUp
    BY DEF Counted, Alive
  <2>2. t.tx.step = u.tx.step /\ t.tx.call.what = u.tx.call.what
    BY <1>2 DEF Key
  <2>3. t.tx = u.tx
    BY <2>1, <2>2 DEF RInv, OnceInv
  <2> QED BY <2>1, <2>3, TxOnce
<1> HIDE DEF T
<1>3. AllDistinct(T)
  BY <1>1, <1>2, KeysCount
<1> QED BY <1>3 DEF NothingSentTwice, T

LEMMA RInvDone == RInv => DoneMeansLanded
<1> SUFFICES ASSUME RInv, NEW n \in DOMAIN plan, plan[n].id \in done, NEW key \in Promised(plan[n])
             PROVE  key \in {Key(t) : t \in {u \in Ours : u.ok}}
  BY DEF DoneMeansLanded
<1>0. PICK m \in DOMAIN plan[n].sends :
        \E c \in ToSet(plan[n].sends[m].calls) : ~c.optional /\ key = <<plan[n].id, c.what>>
  BY DEF Promised
<1>1. PICK c \in ToSet(plan[n].sends[m].calls) : ~c.optional /\ key = <<plan[n].id, c.what>>
  BY <1>0
<1>2. PICK a \in DOMAIN plan[n].sends[m].calls : c = plan[n].sends[m].calls[a]
  BY DEF ToSet
<1> DEFINE at == <<n, m, a>>
<1>3. at \in Places(plan) /\ CallAt(plan, at) = c /\ at[1] = n
  BY <1>2, IsPlace
<1> HIDE DEF at
<1>4. SettledAt(at) /\ ~Covered(c)
  BY <1>1, <1>3 DEF RInv, ProgressInv, Covered
<1>5. Recorded(plan[n].id, c)
  BY <1>3, <1>4 DEF SettledAt, KeptAs, RInv, ProgressInv
<1>6. PICK t \in txs : t.ok /\ t.tx.step = plan[n].id /\ t.tx.call.what = c.what
  BY <1>5 DEF Recorded
<1>7. t \in Ours /\ Key(t) = key
  BY <1>1, <1>6 DEF RInv, LandedInv, Key
<1> QED BY <1>6, <1>7

LEMMA RInvCapped == RInv => GasCapped
<1> SUFFICES ASSUME RInv PROVE GasCapped
  OBVIOUS
<1> DEFINE T == {t \in Ours : t.tx \notin givenUp}
           f == [t \in T |-> t.tx]
<1>1. f \in Injection(T, Paid)
  <2>1. \A t \in T : t.tx \in Paid
    BY DEF Paid
  <2>2. \A t, u \in T : t.tx = u.tx => t = u
    BY TxOnce
  <2> QED BY <2>1, <2>2 DEF Injection, IsInjective
<1> HIDE DEF f, T
<1>2. IsFiniteSet(Paid) /\ Cardinality(Paid) <= gasCap
  BY DEF RInv, CapInv
<1>3. IsFiniteSet(T) /\ Cardinality(T) <= Cardinality(Paid)
  BY <1>1, <1>2, FS_Injection
<1>4. Cardinality(T) \in Nat /\ Cardinality(Paid) \in Nat /\ gasCap \in Nat
  BY <1>2, <1>3, FS_CardinalityType, GasCapAssumption DEF RInv, PlaceInv
<1>5. Cardinality(T) <= gasCap
  BY <1>2, <1>3, <1>4
<1> QED BY <1>5 DEF GasCapped, T

(* What a run finds in its journal is what the chain holds of it, at every *)
(* moment it may be killed: nothing of the account is lost from sight, no  *)
(* call succeeds twice, a step is done only when its calls landed, the     *)
(* driver refuses nothing of its own plan, and what it pays stays within   *)
(* GAS_CAP, unless recovery gave up on a transaction that then landed.     *)
THEOREM JournalHolds == Spec => []JournalIsTrue
<1>1. RInv => JournalIsTrue
  BY RInvNothingLost, RInvSentOnce, RInvDone, RInvCapped DEF JournalIsTrue, RInv
<1> QED BY <1>1, DriverInvariance, PTL
=============================================================================
