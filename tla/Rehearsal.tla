----------------------------- MODULE Rehearsal -----------------------------
(***************************************************************************)
(* The driver of the on-chain rehearsals (scripts/v14-rehearsal.ts and its *)
(* two siblings): one process sends a plan of transactions with one key,   *)
(* journals them in a progress file, and may be interrupted and run again  *)
(* at any point.  Around it are the chain, the node's transaction pool,    *)
(* another user of the same key, and a node whose answers get lost.        *)
(*                                                                         *)
(* The journal is a file replaced by a rename, so its four fields change   *)
(* together; what a process holds in memory is lost with it.               *)
(***************************************************************************)
EXTENDS RehearsalPlans, FiniteSets

CONSTANTS
  Plans,       \* the scripts, each as the sequence of its steps
  GasCaps(_),  \* values of GAS_CAP tried with a script, in transactions paid for
  MaxFaults(_) \* bound on the crashes, lost answers, reverts, ... of a script

ASSUME GasCapAssumption == \A script \in Plans : GasCaps(script) \subseteq Nat
ASSUME MaxFaultsAssumption == \A script \in Plans : MaxFaults(script) \in Nat

Foreign == <<"foreign">>

(* How the scripts are laid out.  A call has its place <<step, send, call>>; *)
(* step ids and, within a step, the names of calls are unique; what is in  *)
(* flight is recovered before anything is sent; calls sent back to back    *)
(* are no optional ones, and a noted call is all its step does.            *)
Sequence(x) == x \in Seq(ToSet(x))

Places(script) ==
  UNION {UNION {{<<n, m, a>> : a \in DOMAIN script[n].sends[m].calls}
                : m \in DOMAIN script[n].sends} : n \in DOMAIN script}
CallAt(script, at) == script[at[1]].sends[at[2]].calls[at[3]]
SendBefore(at, to) == at[1] < to[1] \/ (at[1] = to[1] /\ at[2] < to[2])
Before(at, to)     == SendBefore(at, to) \/ (at[1] = to[1] /\ at[2] = to[2] /\ at[3] < to[3])

SendShaped(send) ==
  /\ send.batch \in BOOLEAN /\ Sequence(send.calls) /\ send.calls # <<>>
  /\ ~send.batch \/ (\E a \in DOMAIN send.calls : send.calls[a].optional) => Len(send.calls) = 1

StepShaped(script, n) ==
  /\ script[n].id # Foreign
  /\ script[n].recovers => script[n].sends = <<>>
  /\ script[n].sends # <<>> => \E m \in DOMAIN script : m < n /\ script[m].recovers
  /\ Sequence(script[n].sends)
  /\ \A m \in DOMAIN script[n].sends : SendShaped(script[n].sends[m])

Shaped(script) ==
  /\ Sequence(script)
  /\ \A m, n \in DOMAIN script : script[m].id = script[n].id => m = n
  /\ \A n \in DOMAIN script : StepShaped(script, n)
  /\ \A at, to \in Places(script) :
       at[1] = to[1] /\ (CallAt(script, at).what = CallAt(script, to).what \/ CallAt(script, at).kept = "note")
         => at = to
  /\ \A at \in Places(script) : CallAt(script, at).kept \in {"journal", "note"}

(* What a call needs is sent before it, by a call that is made whatever is *)
(* read unless it is one of the allowances; what bars it is sent later, or *)
(* is itself.                                                              *)
DoneBy(c) == <<c.op, c.k>>

Ordered(script) ==
  \A at \in Places(script) :
    /\ \A need \in Needs(CallAt(script, at)) :
         \E to \in Places(script) :
           /\ Before(to, at) /\ DoneBy(CallAt(script, to)) = need
           /\ CallAt(script, to).optional => need \in {<<"approve", "launchpad">>, <<"approve", "router">>}
    /\ \A to \in Places(script) :
         DoneBy(CallAt(script, to)) \in Bars(CallAt(script, at)) =>
           /\ to = at \/ Before(at, to)
           /\ CallAt(script, to).kept = "journal" /\ ~CallAt(script, at).optional

ASSUME PlansAssumption == \A script \in Plans : Shaped(script) /\ Ordered(script)

VARIABLES
  plan,        \* the script being driven: its steps
  gasCap,      \* the GAS_CAP it is run with
  endowed,     \* whether balances, allowances and pots are what optional calls make them
  next,        \* the chain: the account's nonce
  pool,        \* the node: transactions waiting to be mined
  landed,      \* the chain: the account's mined transactions, with their status
  done,        \* journal: the steps whose checks passed
  txs,         \* journal: the transactions recorded, with their status
  pending,     \* journal: the transactions signed and not yet recorded
  notes,       \* journal: the steps that saved the address they deployed
  pc,          \* process: where it is; "off" and "finished" when not running
  p, s, i,     \* process: step, send of the step, call of the send
  nextNonce,   \* process: one past the last nonce it sent
  tries,       \* process: attempts at signing this call
  recovered,   \* process: receipts found by recoverPending, not yet saved
  why,         \* why the process last stopped by itself
  givenUp,     \* history: transactions recoverPending took for never mined
  faults       \* history: faults so far

world   == <<plan, gasCap, endowed>>
chain   == <<next, pool, landed>>
journal == <<done, txs, pending, notes>>
place   == <<p, s, i>>
memory  == <<place, nextNonce, tries, recovered>>
vars    == <<world, chain, journal, pc, memory, why, givenUp, faults>>

-----------------------------------------------------------------------------
(* The chain and the node *)

Signed(step, c, n) == [step |-> step, call |-> c, nonce |-> n]
Mined(h, ok)       == [tx |-> h, ok |-> ok]

IsOurs(h)    == h.step # Foreign
HasLanded(h) == \E t \in landed : t.tx = h
LandedCalls  == {<<t.tx.call.op, t.tx.call.k>> : t \in {u \in landed : u.ok}}
Allowances   == IF endowed THEN {<<"approve", "launchpad">>, <<"approve", "router">>} ELSE {}
Accepted(c)  == Needs(c) \subseteq LandedCalls \cup Allowances /\ Bars(c) \cap LandedCalls = {}

\* eth_getTransactionCount(account, "pending"): past every transaction in a row.
PendingNonce ==
  CHOOSE n \in next..(next + Cardinality(pool)) :
    /\ \A m \in next..(n - 1) : \E h \in pool : h.nonce = m
    /\ \A h \in pool : h.nonce # n

CannotLand(h) == ~HasLanded(h) /\ (h \notin pool \/ h.nonce >= PendingNonce)

FaultLeft == faults < MaxFaults(plan) /\ faults' = faults + 1

Land(h, ok) ==
  /\ h \in pool /\ h.nonce = next
  /\ next' = next + 1
  /\ pool' = {g \in pool : g.nonce > next}
  /\ landed' = landed \cup {Mined(h, ok)}
  /\ UNCHANGED <<world, journal, pc, memory, why, givenUp>>

Mine == \E h \in pool : Land(h, Accepted(h.call)) /\ UNCHANGED faults

\* A trade that moved too far since it was simulated, a limit set too low.
MineReverted == \E h \in pool : Land(h, FALSE) /\ IsOurs(h) /\ FaultLeft

\* Another process with the same key.
ForeignTransaction ==
  /\ FaultLeft
  /\ pool' = pool \cup {Signed(Foreign, Call("transfer", "elsewhere"), PendingNonce)}
  /\ UNCHANGED <<world, next, landed, journal, pc, memory, why, givenUp>>

\* The node restarts, or evicts what waits.
DropPool ==
  /\ pool # {} /\ FaultLeft
  /\ pool' = {}
  /\ UNCHANGED <<world, next, landed, journal, pc, memory, why, givenUp>>

-----------------------------------------------------------------------------
(* Running and stopping *)

St      == plan[p]
Send    == St.sends[s]
TheCall == Send.calls[i]

Stop(reason) == pc' = "off" /\ why' = reason

Start ==
  /\ pc = "off"
  /\ pc' = "step" /\ p' = 1 /\ s' = 1 /\ i' = 1
  /\ nextNonce' = 0 /\ tries' = 1 /\ recovered' = {}
  /\ UNCHANGED <<world, chain, journal, why, givenUp, faults>>

Crash ==
  /\ pc \notin {"off", "finished"} /\ FaultLeft
  /\ Stop("crash")
  /\ UNCHANGED <<world, chain, journal, memory, givenUp>>

-----------------------------------------------------------------------------
(* recoverPending: up to two minutes for each transaction left in flight;  *)
(* one save at the end.                                                    *)

BeginRecovery ==
  /\ pc = "step" /\ p <= Len(plan) /\ St.recovers
  /\ pc' = "recover" /\ i' = 1 /\ recovered' = {}
  /\ UNCHANGED <<world, chain, journal, p, s, nextNonce, tries, why, givenUp, faults>>

RecoverMined ==
  /\ pc = "recover" /\ i <= Len(pending)
  /\ \E t \in landed : t.tx = pending[i] /\ recovered' = recovered \cup {t}
  /\ i' = i + 1
  /\ UNCHANGED <<world, chain, journal, pc, p, s, nextNonce, tries, why, givenUp, faults>>

GiveUp ==
  /\ pc = "recover" /\ i <= Len(pending) /\ ~HasLanded(pending[i])
  /\ givenUp' = givenUp \cup {pending[i]}
  /\ i' = i + 1
  /\ UNCHANGED <<world, chain, journal, pc, p, s, nextNonce, tries, recovered, why>>

RecoverNeverMined  == GiveUp /\ CannotLand(pending[i]) /\ UNCHANGED faults
RecoverStillWaiting == GiveUp /\ ~CannotLand(pending[i]) /\ FaultLeft

EndRecovery ==
  /\ pc = "recover" /\ i > Len(pending)
  /\ txs' = txs \cup recovered
  /\ pending' = <<>>
  /\ pc' = "step" /\ p' = p + 1 /\ s' = 1 /\ i' = 1
  /\ UNCHANGED <<world, chain, done, notes, nextNonce, tries, recovered, why, givenUp, faults>>

-----------------------------------------------------------------------------
(* step(): skip it, run its sends, then its checks *)

InStep == pc = "step" /\ p <= Len(plan) /\ ~St.recovers
Skipped == St.id \in done /\ ~St.always
NextStep == p' = p + 1 /\ s' = 1 /\ i' = 1

SkipStep ==
  /\ InStep /\ Skipped
  /\ NextStep
  /\ UNCHANGED <<world, chain, journal, pc, nextNonce, tries, recovered, why, givenUp, faults>>

ChecksPass ==
  /\ InStep /\ ~Skipped /\ s > Len(St.sends)
  /\ done' = IF St.always THEN done ELSE done \cup {St.id}
  /\ NextStep
  /\ UNCHANGED <<world, chain, txs, pending, notes, pc, nextNonce, tries, recovered, why, givenUp, faults>>

ChecksFail ==
  /\ InStep /\ ~Skipped /\ s > Len(St.sends) /\ FaultLeft
  /\ Stop("check")
  /\ UNCHANGED <<world, chain, journal, memory, givenUp>>

Finish ==
  /\ pc = "step" /\ p > Len(plan)
  /\ pc' = "finished"
  /\ UNCHANGED <<world, chain, journal, memory, why, givenUp, faults>>

-----------------------------------------------------------------------------
(* tx(), sendRaw() and sendBatch(): what was mined is re-used, the rest is *)
(* simulated, signed, saved, broadcast, awaited and recorded.              *)

\* minedTx
Recorded(step, c) == \E t \in txs : t.ok /\ t.tx.step = step /\ t.tx.call.what = c.what
Kept(c)  == IF c.kept = "note" THEN St.id \in notes ELSE Recorded(St.id, c)
Sending  == InStep /\ ~Skipped /\ s <= Len(St.sends)
Missing  == {n \in DOMAIN Send.calls : ~Kept(Send.calls[n])}
FirstMissing == CHOOSE n \in Missing : \A m \in Missing : n <= m
OutOfOrder   == \E n \in Missing : \E m \in DOMAIN Send.calls \ Missing : n < m
NextSend == s' = s + 1 /\ i' = 1

Reuse ==
  /\ Sending /\ Missing = {}
  /\ NextSend
  /\ UNCHANGED <<world, chain, journal, pc, p, nextNonce, tries, recovered, why, givenUp, faults>>

\* An optional call is preceded by a read that says whether it is needed.
Covered(c) == c.optional /\ endowed

SkipOptional ==
  /\ Sending /\ Missing # {} /\ Covered(Send.calls[1])
  /\ NextSend
  /\ UNCHANGED <<world, chain, journal, pc, p, nextNonce, tries, recovered, why, givenUp, faults>>

BatchBroken ==
  /\ Sending /\ OutOfOrder
  /\ Stop("batch")
  /\ UNCHANGED <<world, chain, journal, memory, givenUp, faults>>

WouldRevert ==
  /\ Sending /\ Missing # {} /\ ~OutOfOrder
  /\ ~Accepted(Send.calls[FirstMissing])
  /\ Stop("refused")
  /\ UNCHANGED <<world, chain, journal, memory, givenUp, faults>>

Simulate ==
  /\ Sending /\ Missing # {} /\ ~OutOfOrder
  /\ Accepted(Send.calls[FirstMissing]) /\ ~Covered(Send.calls[FirstMissing])
  /\ pc' = "sign" /\ i' = FirstMissing /\ tries' = 1
  /\ UNCHANGED <<world, chain, journal, p, s, nextNonce, recovered, why, givenUp, faults>>

\* spentWei() plus the worst case of this transaction, and of its batch so far.
WorstSpent == Cardinality(txs) + (IF Send.batch THEN Len(pending) ELSE 0) + 1

GasCapReached ==
  /\ pc = "sign" /\ WorstSpent > gasCap
  /\ Stop("gas cap")
  /\ UNCHANGED <<world, chain, journal, memory, givenUp, faults>>

\* A batch reads the pending nonce once and counts on from it.
Nonce ==
  IF Send.batch /\ pending # <<>> THEN nextNonce
  ELSE IF nextNonce > PendingNonce THEN nextNonce ELSE PendingNonce

Sign ==
  /\ pc = "sign" /\ WorstSpent <= gasCap
  /\ LET h == Signed(St.id, TheCall, Nonce)
     IN pending' = IF Send.batch THEN Append(pending, h) ELSE <<h>>
  /\ pc' = "broadcast"
  /\ UNCHANGED <<world, chain, done, txs, notes, memory, why, givenUp, faults>>

InHand   == pending[Len(pending)]
NonceFree == InHand.nonce >= next /\ \A h \in pool : h.nonce # InHand.nonce

\* The node took it, or already has it ("already known", or found by its hash).
Sent ==
  /\ nextNonce' = InHand.nonce + 1
  /\ IF Send.batch /\ i < Len(Send.calls)
     THEN pc' = "sign" /\ i' = i + 1 /\ tries' = 1
     ELSE pc' = "await" /\ UNCHANGED <<i, tries>>

BroadcastAccepted ==
  /\ pc = "broadcast" /\ NonceFree
  /\ pool' = pool \cup {InHand}
  /\ Sent
  /\ UNCHANGED <<world, next, landed, journal, p, s, recovered, why, givenUp, faults>>

BroadcastKnown ==
  /\ pc = "broadcast" /\ (InHand \in pool \/ HasLanded(InHand))
  /\ Sent
  /\ UNCHANGED <<world, chain, journal, p, s, recovered, why, givenUp, faults>>

BroadcastAnswerLost ==
  /\ pc = "broadcast" /\ NonceFree /\ FaultLeft
  /\ pool' = pool \cup {InHand}
  /\ UNCHANGED <<world, next, landed, journal, pc, memory, why, givenUp>>

\* Fault: a nonce that is too low is not looked up by its hash.
TakenUnchecked == pc = "broadcast" /\ ~NonceFree

Taken == pc = "broadcast" /\ ~NonceFree /\ InHand \notin pool /\ ~HasLanded(InHand)

SignAgain ==
  /\ Taken /\ ~Send.batch /\ tries < 3
  /\ pc' = "sign" /\ tries' = tries + 1
  /\ UNCHANGED <<world, chain, journal, place, nextNonce, recovered, why, givenUp, faults>>

KeepsBeingTaken ==
  /\ Taken /\ (Send.batch \/ tries = 3)
  /\ Stop("taken")
  /\ UNCHANGED <<world, chain, journal, memory, givenUp, faults>>

\* recordTx, the entry leaves the journal's pending field, one save.
Receipt ==
  /\ pc = "await" /\ pending # <<>>
  /\ \E t \in landed : t.tx = pending[1] /\ txs' = txs \cup {t}
  /\ pending' = Tail(pending)
  /\ UNCHANGED <<world, chain, done, notes, pc, memory, why, givenUp, faults>>

NoReceipt ==
  /\ pc = "await" /\ pending # <<>> /\ ~HasLanded(pending[1])
  /\ Stop("timeout")
  /\ UNCHANGED <<world, chain, journal, memory, givenUp>>

\* Fault: no timeout.
WaitsForever == FALSE

ReceiptNeverComes == pc = "await" /\ pending # <<>> /\ CannotLand(pending[1])
                     /\ NoReceipt /\ UNCHANGED faults
ReceiptTooLate    == pc = "await" /\ pending # <<>> /\ ~CannotLand(pending[1])
                     /\ NoReceipt /\ FaultLeft

AllMined == \A n \in DOMAIN Send.calls : Recorded(St.id, Send.calls[n])

Settle ==
  /\ pc = "await" /\ pending = <<>> /\ AllMined
  /\ notes' = IF TheCall.kept = "note" THEN notes \cup {St.id} ELSE notes
  /\ pc' = "step" /\ NextSend
  /\ UNCHANGED <<world, chain, done, txs, pending, p, nextNonce, tries, recovered, why, givenUp, faults>>

Reverted ==
  /\ pc = "await" /\ pending = <<>> /\ ~AllMined
  /\ Stop("reverted")
  /\ UNCHANGED <<world, chain, journal, memory, givenUp, faults>>

-----------------------------------------------------------------------------
(* The specification *)

Init ==
  /\ plan \in Plans /\ gasCap \in GasCaps(plan) /\ endowed \in BOOLEAN
  /\ next = 0 /\ pool = {} /\ landed = {}
  /\ done = {} /\ txs = {} /\ pending = <<>> /\ notes = {}
  /\ pc = "off" /\ p = 1 /\ s = 1 /\ i = 1
  /\ nextNonce = 0 /\ tries = 1 /\ recovered = {}
  /\ why = "none" /\ givenUp = {} /\ faults = 0

\* What the process does by itself, and what a run waits for.
Drive ==
  \/ BeginRecovery \/ RecoverMined \/ RecoverNeverMined \/ EndRecovery
  \/ SkipStep \/ ChecksPass \/ Finish
  \/ Reuse \/ SkipOptional \/ BatchBroken \/ WouldRevert \/ Simulate
  \/ GasCapReached \/ Sign
  \/ BroadcastAccepted \/ BroadcastKnown \/ SignAgain \/ KeepsBeingTaken
  \/ Receipt \/ ReceiptNeverComes \/ Settle \/ Reverted

Fault ==
  \/ MineReverted \/ ForeignTransaction \/ DropPool \/ Crash
  \/ RecoverStillWaiting \/ ChecksFail \/ BroadcastAnswerLost \/ ReceiptTooLate

Next == Mine \/ Start \/ Drive \/ Fault

(* The node mines what it holds, the process takes its next step, and an   *)
(* interrupted rehearsal is run again.  No fault is forced.                *)
Fairness == WF_vars(Mine) /\ WF_vars(Drive) /\ WF_vars(Start)

Spec == Init /\ [][Next]_vars /\ Fairness

-----------------------------------------------------------------------------
(* Properties *)

Ours    == {t \in landed : IsOurs(t.tx)}
Key(t)  == <<t.tx.step, t.tx.call.what>>
Counted == {t \in Ours : t.ok /\ t.tx \notin givenUp}
AllDistinct(set) == Cardinality({Key(t) : t \in set}) = Cardinality(set)

\* The calls a step makes whatever it reads.
Promised(step) ==
  {<<step.id, c.what>> : c \in {d \in UNION {ToSet(step.sends[m].calls) : m \in DOMAIN step.sends} :
                                  ~d.optional}}

\* Whatever lands of ours is in the journal, waits in it to be recovered, or
\* was given up on: an interrupted run loses sight of no transaction.
NothingLost ==
  \A t \in Ours : \/ t \in txs \cup recovered
                  \/ \E n \in DOMAIN pending : pending[n] = t.tx
                  \/ t.tx \in givenUp

\* A call never succeeds twice through interruptions, lost answers and taken
\* nonces, unless recovery gave up on one copy while it could still land.
NothingSentTwice == AllDistinct({t \in Counted : t.tx.call.kept = "journal"})

\* A step counts as done only after each of its calls succeeded on chain.
DoneMeansLanded ==
  UNION {Promised(plan[n]) : n \in {m \in DOMAIN plan : plan[m].id \in done}}
    \subseteq {Key(t) : t \in {u \in Ours : u.ok}}

\* The order of the steps makes every call acceptable when it is simulated:
\* only a transaction recovery gave up on can make the driver refuse its plan.
OwnCallsReady == why = "refused" => givenUp # {}

\* What the account pays stays within GAS_CAP over all the runs of one journal;
\* only transactions recovery gave up on can exceed it.
GasCapped == Cardinality({t \in Ours : t.tx \notin givenUp}) <= gasCap

\* What a run finds in its journal is what the chain holds of it, at every moment it may be killed.
JournalIsTrue == NothingLost /\ NothingSentTwice /\ DoneMeansLanded /\ OwnCallsReady /\ GasCapped

\* Run again often enough, a rehearsal ends, unless it asks for a person: a
\* higher cap, a batch that landed out of order, a call the chain refuses.
Finishes == <>(pc = "finished" \/ why \in {"gas cap", "batch", "refused"})
=============================================================================
