------------------------------- MODULE FeePlans -------------------------------
(***************************************************************************)
(* Where a token's creator fees go: the token builder's check of a plan    *)
(* (src/lib/plugins/plan.ts), with what the page knows of the addresses    *)
(* typed into it, and the contracts' own check of what the plan becomes    *)
(* (createToken of the launchpad and onLaunch of the listed plugins).      *)
(*                                                                         *)
(* An address is a name.  A listed plugin's address is its kind; "pool"    *)
(* and "token" are a launch pool and a launch token already there;         *)
(* "ownPlugin" declares the plugin interface and is listed nowhere;        *)
(* "wrong" is text that is no address, "" an empty field.  A percentage is *)
(* a number of basis points, -1 for text that reads as none.               *)
(***************************************************************************)
EXTENDS Integers, Sequences, FiniteSetsExt, SequencesExt

CONSTANTS
  Suite,               \* the listed plugins deployed for the builder's launchpad
  Paused,              \* those closed to new launches
  MAX_PAYEES, MAX_COMBO_ENTRIES, TOTAL_BPS, MAX_SHARE

Listed == {"split", "buyback", "deepen", "holders", "combo"}
Unread == -1

ASSUME PlansAssumption ==
  /\ Suite \subseteq Listed /\ Paused \subseteq Listed
  /\ {MAX_PAYEES, MAX_COMBO_ENTRIES, TOTAL_BPS, MAX_SHARE} \subseteq Nat \ {0}

(***************************************************************************)
(* The plans the picker can hold, with the given texts in its fields.      *)
(***************************************************************************)
Targets(texts) ==
  [kind : {"wallet", "custom"}, address : texts]
  \cup [kind : {"split"}, payees : Seq([address : texts, share : Nat])]
  \cup [kind : {"deepen"}, burnShare : Nat \cup {Unread}]
  \cup [kind : {"buyback", "holders"}]
Plans(texts) ==
  Targets(texts)
  \cup [kind : {"combo"}, entries : Seq([target : Targets(texts), percent : Nat \cup {Unread}])]

Offered == Suite \ Paused
Blocked == [ok |-> FALSE]

-----------------------------------------------------------------------------
(***************************************************************************)
(* What a plan becomes on chain: an address and its onLaunch data.         *)
(***************************************************************************)
Empty == [is |-> "empty"]
SplitData(payees, shares) == [is |-> "split", payees |-> payees, shares |-> shares]
ComboData(targets, bps, datas) ==
  [is |-> "combo", targets |-> targets, bps |-> bps, datas |-> datas]
BurnShareData(burnBps) == [is |-> "deepen", burnBps |-> burnBps]
Goes(plugin, data) == [ok |-> TRUE, plugin |-> plugin, data |-> data]

ReadPercent(bps, most) == bps # Unread /\ bps <= most

\* Text as an address; an empty field stands for `fallback`, "" for none.
ReadAddress(text, fallback) == IF text = "" THEN fallback ELSE text
IsAddress(text) == text \notin {"", "wrong"}

(***************************************************************************)
(* Why an address cannot receive fees.  `facts` is what the page knows of  *)
(* the typed addresses: the sets plugins, pools, tokens and unchecked.     *)
(***************************************************************************)
Barred == {"zero", "launchpad", "usdc", "poolManager", "router", "pairFactory", "core"}

\* Fault: any plugin may be a payee.
RefusedAnyPlugin(a, role, facts) ==
  a \in Barred \cup Suite \cup facts.pools \cup facts.tokens \cup facts.unchecked
Unpayable(a, role, facts) ==
  \/ a \in Barred \cup Suite \cup facts.pools \cup facts.tokens \cup facts.unchecked
  \/ role = "payee" /\ a \in facts.plugins

PayableAt(text, fallback, role, facts) ==
  LET a == ReadAddress(text, fallback)
  IN  IsAddress(a) /\ ~Unpayable(a, role, facts)

ShareReads(share) == share \in 1..MAX_SHARE

SplitReads(payees, facts) ==
  /\ Len(payees) \in 1..MAX_PAYEES
  /\ \A i \in DOMAIN payees : PayableAt(payees[i].address, "", "payee", facts)
                              /\ ShareReads(payees[i].share)
  /\ \A i, j \in DOMAIN payees : payees[i].address = payees[j].address => i = j

(* One destination, for the connected wallet `creator`. *)
PlanTarget(target, role, creator, facts) ==
  LET kind == target.kind
      fallback == IF kind = "wallet" THEN creator ELSE ""
  IN  CASE kind \in {"wallet", "custom"} /\ PayableAt(target.address, fallback, role, facts) ->
             Goes(ReadAddress(target.address, fallback), Empty)
        [] kind = "split" /\ kind \in Offered /\ SplitReads(target.payees, facts) ->
             Goes(kind, SplitData([i \in DOMAIN target.payees |-> target.payees[i].address],
                                  [i \in DOMAIN target.payees |-> target.payees[i].share]))
        [] kind = "deepen" /\ kind \in Offered /\ ReadPercent(target.burnShare, TOTAL_BPS) ->
             Goes(kind, BurnShareData(target.burnShare))
        [] kind \in {"buyback", "holders"} /\ kind \in Offered -> Goes(kind, Empty)
        [] OTHER -> Blocked

ComboRival(kind) == CASE kind = "deepen" -> "buyback" [] kind = "buyback" -> "deepen" [] OTHER -> ""

SharesFill(entries) ==
  /\ \A i \in DOMAIN entries : ReadPercent(entries[i].percent, TOTAL_BPS) /\ entries[i].percent > 0
  /\ FoldSeq(LAMBDA e, sum : e.percent + sum, 0, entries) = TOTAL_BPS

PlanCombo(entries, creator, facts) ==
  LET targets == [i \in DOMAIN entries |->
                    PlanTarget(entries[i].target, "entry", creator, facts)]
      rivals == \E i, j \in DOMAIN entries :
                  entries[i].target.kind = ComboRival(entries[j].target.kind)
  IN  IF /\ "combo" \in Offered
         /\ Len(entries) \in 1..MAX_COMBO_ENTRIES
         /\ ~rivals
         /\ \A i \in DOMAIN targets : targets[i].ok
         /\ \A i, j \in DOMAIN targets : targets[i].plugin = targets[j].plugin => i = j
         /\ SharesFill(entries)
      THEN Goes("combo", ComboData([i \in DOMAIN targets |-> targets[i].plugin],
                                   [i \in DOMAIN entries |-> entries[i].percent],
                                   [i \in DOMAIN targets |-> targets[i].data]))
      ELSE Blocked

PlanFeePlugin(plan, creator, facts) ==
  IF plan.kind = "combo" THEN PlanCombo(plan.entries, creator, facts)
  ELSE PlanTarget(plan, "plugin", creator, facts)

(* Every address typed into a plan, in order. *)
TypedIn(target) ==
  CASE target.kind \in {"wallet", "custom"} -> <<target.address>>
    [] target.kind = "split" -> [i \in DOMAIN target.payees |-> target.payees[i].address]
    [] OTHER -> <<>>
PlanAddresses(plan) ==
  IF plan.kind = "combo" THEN FlattenSeq([i \in DOMAIN plan.entries |-> TypedIn(plan.entries[i].target)])
  ELSE TypedIn(plan)

-----------------------------------------------------------------------------
(***************************************************************************)
(* The picker                                                              *)
(***************************************************************************)
EntryKinds == <<"wallet", "split", "buyback", "deepen", "holders", "custom">>
Available(kind) == kind \in Listed => kind \in Offered

EmptyTarget(kind, creator) ==
  CASE kind \in {"wallet", "custom"} -> [kind |-> kind, address |-> ""]
    [] kind = "split" -> [kind |-> kind, payees |-> <<[address |-> creator, share |-> 1]>>]
    [] kind = "deepen" -> [kind |-> kind, burnShare |-> TOTAL_BPS \div 2]
    [] OTHER -> [kind |-> kind]

InitialPlan(kind, creator) ==
  LET second == CASE Available("buyback") -> "buyback"
                  [] ~Available("buyback") /\ Available("holders") -> "holders"
                  [] OTHER -> "custom"
      Half(k) == [target |-> EmptyTarget(k, creator), percent |-> TOTAL_BPS \div 2]
  IN  IF kind = "combo" THEN [kind |-> kind, entries |-> <<Half("wallet"), Half(second)>>]
      ELSE EmptyTarget(kind, creator)

Kinds(entries) == {entries[i].target.kind : i \in DOMAIN entries}
UsedListed(entries) == Kinds(entries) \cap Listed

\* What entry i may be turned into.
EntryChoices(entries, i) ==
  {k \in ToSet(EntryKinds) :
     /\ Available(k)
     /\ k \in UsedListed(entries) => k = entries[i].target.kind
     /\ \A j \in DOMAIN entries \ {i} : entries[j].target.kind # ComboRival(k)}

\* The kind of a destination added, and the percentage it starts with.
AddKind(entries) ==
  LET free == {i \in DOMAIN EntryKinds :
                 Available(EntryKinds[i]) /\ EntryKinds[i] \notin UsedListed(entries)}
  IN  IF free = {} THEN "custom" ELSE EntryKinds[Min(free)]
Remaining(entries) ==
  Max({0, TOTAL_BPS - FoldSeq(LAMBDA e, sum : Max({e.percent, 0}) + sum, 0, entries)})

-----------------------------------------------------------------------------
(***************************************************************************)
(* The contracts.  `chain` has the launch pools, the launch tokens and the *)
(* addresses that declare the plugin interface.                            *)
(***************************************************************************)
Recipient(a, self, chain) ==
  a \notin {"zero", self, "launchpad", "usdc", "router", "pairFactory"} \cup chain.pools \cup chain.tokens

SplitOnLaunch(data, chain) ==
  /\ data.is = "split"
  /\ Len(data.payees) \in 1..MAX_PAYEES /\ Len(data.shares) = Len(data.payees)
  /\ \A i \in DOMAIN data.payees : Recipient(data.payees[i], "split", chain) /\ data.shares[i] > 0
  /\ IsInjective(data.payees)

DeepenOnLaunch(data) ==
  data.is # "empty" => (data.is = "deepen" /\ data.burnBps \in 0..TOTAL_BPS)

\* onLaunch of anything but a Combo.  A plugin of someone's own takes no data here.
OnLaunch(plugin, data, chain) ==
  CASE plugin = "split" -> SplitOnLaunch(data, chain)
    [] plugin = "deepen" -> DeepenOnLaunch(data)
    [] OTHER -> data.is = "empty"

ComboOnLaunch(data, chain) ==
  /\ data.is = "combo"
  /\ Len(data.targets) \in 1..MAX_COMBO_ENTRIES
  /\ Len(data.bps) = Len(data.targets) /\ Len(data.datas) = Len(data.targets)
  /\ IsInjective(data.targets)
  /\ \A i \in DOMAIN data.targets :
       /\ Recipient(data.targets[i], "combo", chain)
       /\ data.bps[i] > 0
       /\ IF data.targets[i] \in chain.plugins
          THEN OnLaunch(data.targets[i], data.datas[i], chain)
          ELSE data.datas[i].is = "empty"
  /\ FoldSeq(+, 0, data.bps) = TOTAL_BPS

\* createToken's checks of a plugin and its data.
CreateTokenAccepts(plugin, data, chain) ==
  /\ plugin \notin {"zero", "launchpad", "usdc", "router", "pairFactory"} \cup chain.pools \cup chain.tokens
  /\ IF plugin \notin chain.plugins THEN data.is = "empty"
     ELSE IF plugin = "combo" THEN ComboOnLaunch(data, chain)
     ELSE OnLaunch(plugin, data, chain)

(***************************************************************************)
(* The addresses a launch pays by plain transfer.  One that is no wallet   *)
(* keeps what it is paid, or lets anyone take it.                          *)
(***************************************************************************)
PaidPlainly(plugin, data, chain) ==
  IF plugin \notin chain.plugins THEN {plugin}
  ELSE CASE data.is = "split" -> ToSet(data.payees)
         [] data.is = "combo" ->
              UNION {IF data.datas[i].is = "split" THEN ToSet(data.datas[i].payees)
                     ELSE {data.targets[i]} \ chain.plugins : i \in DOMAIN data.targets}
         [] OTHER -> {}
Strands(plugin, data, chain) ==
  PaidPlainly(plugin, data, chain)
    \cap (Barred \cup chain.pools \cup chain.tokens \cup chain.plugins) # {}
=============================================================================
