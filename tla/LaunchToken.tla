----------------------------- MODULE LaunchToken -----------------------------
(***************************************************************************)
(* LaunchToken v2: the balances of one launch token and the USDC dividends *)
(* it streams to its holders.  Balances are moved by anyone who has some,  *)
(* by the launchpad and the pair in their trades, and by pull; every such  *)
(* move passes through _update, which accrues the stream first.            *)
(*                                                                         *)
(* A block has one timestamp and holds any number of steps: Tick is the    *)
(* time between blocks.  The model starts when createToken has deployed    *)
(* the token and registered its pair, before anything can move.  USDC sent *)
(* to the contract other than by distribute is not counted by anything and *)
(* is left out.                                                            *)
(***************************************************************************)
EXTENDS Integers, FiniteSets, Sums

CONSTANTS
  Users,                \* wallets and contracts that may hold the token
  launchpad, pair,
  Dead,                 \* 0x...dEaD
  Self,                 \* the token contract, which can be sent its own tokens
  NoOne,                \* the zero address: where burned tokens go
  TOTAL,                \* the supply minted to the launchpad
  MIN_ELIGIBLE_SUPPLY,
  DRIP_PERIOD,
  MAGNITUDE,            \* the scale of per-share values (2^128 in the code)
  Recipients,           \* where tokens are sent to
  Amounts,              \* token amounts moved
  Deposits,             \* USDC amounts distributed
  Steps,                \* seconds between blocks
  MaxTime,              \* bounds of the model: the last timestamp,
  MaxDistributed        \* and all the USDC anyone distributes

Excluded == {launchpad, pair, Dead}
Earning  == Users \cup {Self}
Accounts == Earning \cup Excluded

ASSUME TokenAssumption ==
  /\ IsFiniteSet(Users)
  /\ Excluded \cap Earning = {}
  /\ launchpad # pair /\ launchpad # Dead /\ pair # Dead
  /\ Self \notin Users
  /\ NoOne \notin Accounts
  /\ TOTAL \in Nat
  /\ MIN_ELIGIBLE_SUPPLY \in Nat /\ MIN_ELIGIBLE_SUPPLY > 0
  /\ DRIP_PERIOD \in Nat /\ DRIP_PERIOD > 0
  /\ MAGNITUDE \in Nat /\ MAGNITUDE > 0
  /\ Recipients \subseteq Accounts
  /\ Amounts \subseteq Nat /\ Deposits \subseteq Nat
  /\ Steps \subseteq Nat \ {0}
  /\ MaxTime \in Nat /\ MaxDistributed \in Nat

VARIABLES
  now,           \* block.timestamp
  bal,           \* balances; what is burned is nowhere
  graduated,
  eligible,      \* tracked supply outside the excluded accounts
  lastAccrual, end, rate,      \* the stream
  perShare,      \* magnified dividend per share
  corrections,
  claimed,
  totalDistributed,
  held           \* the token contract's USDC

ledger == <<bal, graduated, eligible, corrections>>
stream == <<lastAccrual, end, perShare>>
cash   == <<claimed, totalDistributed, held>>
vars   == <<now, ledger, stream, rate, cash>>

Init ==
  /\ now \in Steps
  /\ bal = [a \in Accounts |-> IF a = launchpad THEN TOTAL ELSE 0]
  /\ graduated = FALSE
  /\ eligible = 0
  /\ lastAccrual = 0 /\ end = 0 /\ rate = 0
  /\ perShare = 0
  /\ corrections = [a \in Accounts |-> 0]
  /\ claimed = [a \in Accounts |-> 0]
  /\ totalDistributed = 0
  /\ held = 0

-----------------------------------------------------------------------------
(* The stream. *)

Least(a, b) == IF a <= b THEN a ELSE b
Most(a, b)  == IF a >= b THEN a ELSE b

Paused == eligible < MIN_ELIGIBLE_SUPPLY

(* Fault: while paused the end stays put. *)
AccruedWithoutPause ==
  LET upTo == Least(now, end)
  IN  IF lastAccrual >= end
        THEN [last |-> lastAccrual, end |-> end, perShare |-> perShare]
      ELSE IF Paused
        THEN [last |-> upTo, end |-> end, perShare |-> perShare]
      ELSE [last |-> upTo, end |-> end,
            perShare |-> perShare + (rate * (upTo - lastAccrual)) \div eligible]
(* The stream brought up to now (_accrue, and _perShareNow for its view).  *)
Accrued ==
  LET upTo == Least(now, end)
  IN  IF lastAccrual >= end
        THEN [last |-> lastAccrual, end |-> end, perShare |-> perShare]
      ELSE IF Paused
        THEN [last |-> now, end |-> end + (now - lastAccrual), perShare |-> perShare]
      ELSE [last |-> upTo, end |-> end,
            perShare |-> perShare + (rate * (upTo - lastAccrual)) \div eligible]

Accrue ==
  /\ lastAccrual' = Accrued.last
  /\ end' = Accrued.end
  /\ perShare' = Accrued.perShare

(* Everything an account has earned at a per-share value, magnified, and   *)
(* in USDC (_accumulated).                                                 *)
Magnified(a, share) == IF a \in Earning THEN share * bal[a] + corrections[a] ELSE 0
Accumulated(a, share) == Magnified(a, share) \div MAGNITUDE

(* The amount-weighted average of the end and now + DRIP_PERIOD. *)
WeightedEnd(owed, ending, added) ==
  LET from == Most(ending, now)
      to   == now + DRIP_PERIOD
  IN  Most(from + (added * (to - from)) \div (owed + added), now + 1)

Distribute(amount) ==
  LET s      == Accrued
      owed   == IF s.end > now THEN rate * (s.end - now) ELSE 0
      added  == amount * MAGNITUDE
      newEnd == WeightedEnd(owed, s.end, added)
  IN  /\ amount > 0
      /\ totalDistributed + amount <= MaxDistributed
      /\ s.end <= now + DRIP_PERIOD
      /\ rate' = (owed + added) \div (newEnd - now)
      /\ lastAccrual' = now
      /\ end' = newEnd
      /\ perShare' = s.perShare
      /\ totalDistributed' = totalDistributed + amount
      /\ held' = held + amount
      /\ UNCHANGED <<now, ledger, claimed>>

(* claim and claimFor: anyone may call for anyone.  The conversion to an   *)
(* unsigned number and the subtraction are checked.                        *)
Claim(a) ==
  LET amount == Accumulated(a, Accrued.perShare) - claimed[a]
  IN  /\ Magnified(a, Accrued.perShare) >= 0
      /\ amount >= 0
      /\ held >= amount
      /\ Accrue
      /\ claimed' = [claimed EXCEPT ![a] = @ + amount]
      /\ held' = IF a = Self THEN held ELSE held - amount
      /\ UNCHANGED <<now, ledger, rate, totalDistributed>>

-----------------------------------------------------------------------------
(* Balances. *)

Gained(a, from, to, value) ==
  (IF a = to THEN value ELSE 0) - (IF a = from THEN value ELSE 0)

(* The eligible supply moves when tokens cross the excluded boundary. *)
EligibleAfter(from, to, value) ==
  eligible + (IF to \in Earning THEN value ELSE 0)
           - (IF from \in Earning THEN value ELSE 0)

(* Faults: the correction uses the per-share value of before the accrual,  *)
(* or corrects the receiver only.                                          *)
CorrectionStale(a, gained) == corrections[a] - perShare * gained
CorrectionOfReceiver(a, gained) ==
  IF gained > 0 THEN corrections[a] - perShare' * gained ELSE corrections[a]

(* A move changes what its two sides hold and leaves what they have earned *)
(* as it was.                                                              *)
Correction(a, gained) == corrections[a] - perShare' * gained

(* _update: accrue with the eligible supply of until now, move, track the  *)
(* eligible supply, and correct both sides so that the move earns nothing. *)
Update(from, to, value) ==
  /\ to = pair => graduated
  /\ bal[from] >= value
  /\ Accrue
  /\ bal' = [a \in Accounts |-> bal[a] + Gained(a, from, to, value)]
  /\ eligible' = EligibleAfter(from, to, value)
  /\ corrections' =
       [a \in Accounts |-> IF a \in Earning
                             THEN Correction(a, Gained(a, from, to, value))
                             ELSE corrections[a]]
  /\ UNCHANGED <<now, graduated, rate, cash>>

(* A holder, the launchpad (curve buys, graduation) or the pair (pool      *)
(* trades, skim, burn of LP) sends tokens it has.                          *)
Transfer(from, to, value) == Update(from, to, value)

Burn(from, value) == Update(from, NoOne, value)

(* The launchpad takes a seller's tokens for a curve sell, the router for  *)
(* a pool sell: each to one place only.                                    *)
Pull(from, to, value) ==
  /\ to \in {launchpad, pair}
  /\ Update(from, to, value)

MarkGraduated ==
  /\ ~graduated
  /\ graduated' = TRUE
  /\ UNCHANGED <<now, bal, eligible, corrections, stream, rate, cash>>

Tick(seconds) ==
  /\ now + seconds <= MaxTime
  /\ now' = now + seconds
  /\ UNCHANGED <<ledger, stream, rate, cash>>

Next ==
  \/ \E seconds \in Steps : Tick(seconds)
  \/ \E amount \in Deposits : Distribute(amount)
  \/ \E a \in Accounts : Claim(a)
  \/ \E from \in Users \cup {launchpad, pair}, to \in Recipients, value \in Amounts :
       Transfer(from, to, value)
  \/ \E from \in Users, value \in Amounts : Burn(from, value)
  \/ \E from \in Users, to \in {launchpad, pair}, value \in Amounts : Pull(from, to, value)
  \/ MarkGraduated

Spec == Init /\ [][Next]_vars

-----------------------------------------------------------------------------
(* Unsigned numbers of the code stay natural; corrections are signed. *)
TypeOK ==
  /\ now \in Nat
  /\ bal \in [Accounts -> Nat]
  /\ graduated \in BOOLEAN
  /\ eligible \in Nat
  /\ lastAccrual \in Nat /\ end \in Nat /\ rate \in Nat /\ perShare \in Nat
  /\ corrections \in [Accounts -> Int]
  /\ claimed \in [Accounts -> Nat]
  /\ totalDistributed \in Nat
  /\ held \in Nat

(* The tracked eligible supply is the balances that earn, after any        *)
(* transfers, pulls and burns across the exclusion boundary (V13-SPEC:     *)
(* "always equals the formula").                                           *)
EligibleTracked == eligible = SumOver(Earning, bal)

(* A running stream ends at most DRIP_PERIOD after its last accrual, and   *)
(* has accrued at no later time than now, through any pauses and deposits: *)
(* _weightedEnd's subtraction cannot underflow.                            *)
EndsWithinPeriod ==
  /\ lastAccrual <= now
  /\ lastAccrual < end => end - lastAccrual <= DRIP_PERIOD

(* What an account has earned never falls behind what it has claimed, and  *)
(* excluded accounts earn nothing, so _claim never reverts.                *)
ClaimsCovered ==
  \A a \in Accounts :
    /\ Magnified(a, perShare) >= MAGNITUDE * claimed[a]
    /\ a \in Excluded => claimed[a] = 0 /\ corrections[a] = 0

(* What every account has earned by now, claimed or not. *)
EarnedNow == [a \in Accounts |-> Accumulated(a, Accrued.perShare)]

(* What any account has earned and not claimed is there to be paid out.    *)
ClaimsPaid == \A a \in Accounts : EarnedNow[a] - claimed[a] \in 0..held

(* Nothing the token does on every move can fail: the subtractions of      *)
(* _update, _weightedEnd and _claim stay at or above zero, what the stream *)
(* divides by is what the earning accounts hold, and a claim finds the     *)
(* USDC it pays.                                                           *)
StreamNeverFails == EligibleTracked /\ EndsWithinPeriod /\ ClaimsCovered /\ ClaimsPaid

(* What the stream still pays, magnified. *)
StillToPay == IF lastAccrual < end THEN rate * (end - lastAccrual) ELSE 0

(* The magnified USDC that was distributed and is neither earned by        *)
(* someone nor still to be paid: rounding.                                 *)
Dust ==
  MAGNITUDE * totalDistributed - StillToPay
    - SumOver(Accounts, [a \in Accounts |-> Magnified(a, perShare)])

(* V13-SPEC 6.6, and what is still to come: all that was earned, claimed   *)
(* or not, and all the stream will pay never exceed what was distributed,  *)
(* and the contract holds the USDC for what is not claimed.                *)
NeverOverpaid ==
  /\ Dust >= 0
  /\ held >= totalDistributed - SumOver(Accounts, claimed)

(* No step loses more than rounding: less than one magnified unit for each *)
(* eligible unit it accrues to, and for each second of a new rate.  Time   *)
(* without eligible supply costs the holders nothing.                      *)
OnlyDustLost ==
  [][ Dust' - Dust <= (IF eligible = 0 THEN 0 ELSE eligible - 1) + (DRIP_PERIOD - 1) ]_vars

(* The USDC distributed is earned, still to come, or rounding: never more  *)
(* than was distributed, and no step, pauses included, drops any of it.    *)
NothingMadeOrLost == [](TypeOK /\ NeverOverpaid) /\ OnlyDustLost

(* V13-SPEC: "A holder earns only for the time it holds, so buying,        *)
(* claiming and selling in one transaction earns exactly 0": within a      *)
(* block, no move, burn, deposit, claim or accrual changes what anyone has *)
(* earned, to the unit.                                                    *)
EarnsByTimeOnly == [][now' = now => EarnedNow' = EarnedNow]_vars

(* The token implements HolderDividends: holders earn as time passes, by   *)
(* nothing else and never more than was distributed, and a claim pays out  *)
(* all of it.                                                              *)
Dividends == INSTANCE HolderDividends WITH
  time        <- now,
  distributed <- totalDistributed,
  earned      <- EarnedNow,
  paid        <- claimed

DividendsRefined == Dividends!Spec
=============================================================================
