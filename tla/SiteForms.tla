------------------------------ MODULE SiteForms ------------------------------
(***************************************************************************)
(* The site's sheets that send transactions: Swap (useSwap), a launch's    *)
(* buy and sell (useLaunchTrade), Create token (useCreateToken), Add and   *)
(* Remove liquidity (useLiquidity), the creator-fee actions                *)
(* (useCreatorFees) and the Bridge (useBridge).  A behaviour is one page   *)
(* with one of these forms on it, its wallet (Signing) and the chain.      *)
(*                                                                         *)
(* Every press of a form's button starts a run: an async function that     *)
(* keeps the values it was rendered with and stops at each await, where    *)
(* other presses, edits, refetches, the wallet and the chain interleave.   *)
(*                                                                         *)
(* Amounts and prices are small numbers: a trade of `a` at price `p` gives *)
(* a * p, amount 1 is an ordinary trade, amount 2 needs the price-impact   *)
(* tick, amount 3 is refused.                                              *)
(***************************************************************************)
EXTENDS Signing

CONSTANTS
    Pages,      \* the pages checked: form, wallet, and bounds on the presses
                \* that start a run and on outside events
    Prices,     \* what the market may stand at
    Fees,       \* what the launch fee may be
    StartPrice, \* where the market stands when the page opens
    Slippage    \* how far a result may fall short of its quote

Plenty == 9     \* more than any trade here pays

FormNames == {"exactIn", "exactOut", "buy13", "sell13", "buy14", "sell14",
              "create", "add", "remove", "fees", "bridge"}

ASSUME FormsAssumption ==
    /\ Pages \subseteq [form : FormNames, wallet : {"extension", "browser"},
                       runs : Nat, events : Nat]
    /\ Prices \subseteq Nat \ {0} /\ StartPrice \in Prices /\ Fees \subseteq Nat
    /\ Slippage \in Nat

VARIABLES
    page,       \* the page: its form, its wallet, and the bounds of the run
    standing,   \* "out" (not connected), "elsewhere" (other chain), "good"
    amount,     \* the typed amount, 0 for none
    settled,    \* the typed amount once it has held still (pool quotes)
    quoted,     \* the pool's quote of `settled`: the price it was made at, 0 for none
    tick,       \* the key the impact acknowledgment was ticked for
    approval,   \* Create: a confirmed approval the allowance read may not show
    phase,      \* the hook's phase
    status,     \* the status line: what it says, and of which run
    runs,       \* the runs started, in order
    chain,      \* the chain: price, graduated, pool, fee, allowance per spender
    known,      \* the page's last reading of the chain
    read,       \* history: acknowledgments ticked, with what the sheet showed
    deals,      \* history: what each landed transaction of a run came to
    events      \* outside events so far

inputVars == <<page, standing, amount, settled, quoted, tick>>
pageVars == <<inputVars, approval, phase, status, runs, chain, known, read, deals, events>>
vars == <<pageVars, walletVars>>

form == page.form
SwapForms == {"exactIn", "exactOut"}
LaunchForms == {"buy13", "sell13", "buy14", "sell14"}
TradeForms == SwapForms \cup LaunchForms
V14 == form \in {"buy14", "sell14"}
Sells == form \in {"sell13", "sell14"}

NoStatus == [says |-> "nothing", of |-> 0]
NoTick == <<>>

-----------------------------------------------------------------------------
(***************************************************************************)
(* Quotes                                                                  *)
(***************************************************************************)
Top == 1 + CHOOSE p \in Prices : \A q \in Prices : q <= p

(* What a trade comes to at a price: what it receives, or, for an exact       *)
(* output, what it pays.                                                      *)
Result(f, a, p) == IF f = "exactOut" THEN a * (Top - p) ELSE a * p

(* minReceived and maxSent. *)
Bound(f, a, p) ==
    LET r == Result(f, a, p)
    IN  IF f = "exactOut" THEN r + Slippage
        ELSE IF r > Slippage THEN r - Slippage ELSE 0

Within(f, result, bound) ==
    IF f = "exactOut" THEN result <= bound ELSE result >= bound

Venue(graduated) ==
    IF form \in LaunchForms /\ ~graduated THEN "curve" ELSE "pool"

(* A v1.4 pool is quoted by the chain, for the amount that has held still. *)
InV4Pool == V14 /\ Venue(known.graduated) = "pool"
PoolQuoteFresh == settled = amount /\ quoted # 0
QuotePrice == IF InV4Pool THEN quoted ELSE known.price
HasQuote == amount > 0 /\ (InV4Pool => PoolQuoteFresh)

(* impactTier and impactAllows. *)
Tier(a) == CASE a >= 3 -> "refused" [] a = 2 -> "acknowledge" [] OTHER -> "normal"

(* The sentence names a rounded impact and loss: near prices read the same. *)
Sentence(a, p) == <<a, p \div 2>>

AcknowledgmentKey == <<form, amount, Venue(known.graduated), Sentence(amount, QuotePrice)>>

(* What the form must be able to pull: requiredApproval, required, totalUsdc. *)
Required ==
    CASE Sells -> 0
      [] form = "exactOut" -> Bound(form, amount, known.price)
      [] form = "create" -> known.fee + amount
      [] OTHER -> amount

ImpactRefused == HasQuote /\ Tier(amount) = "refused"
ImpactClear ==
    HasQuote => \/ Tier(amount) = "normal"
                \/ (Tier(amount) = "acknowledge" /\ tick = AcknowledgmentKey)

-----------------------------------------------------------------------------
(***************************************************************************)
(* Buttons                                                                 *)
(***************************************************************************)
Allowance == known.allowance[Venue(known.graduated)]

(* useSwap and useLaunchTrade. *)
TradeButton ==
    IF ImpactRefused /\ phase \notin {"approving", "pending"} THEN "impactTooHigh"
    ELSE IF standing # "good" THEN standing
    ELSE IF phase # "idle" THEN phase
    ELSE IF ~HasQuote THEN "enterAmount"
    ELSE IF Allowance < Required THEN "needsApproval" ELSE "ready"

(* createButtonState; a confirmed approval keeps the button waiting until the *)
(* allowance read has caught up.                                              *)
Lagging == Allowance < approval

CreateButton ==
    IF standing # "good" THEN standing
    ELSE IF phase = "approving" \/ Lagging THEN "approving"
    ELSE IF phase = "pending" THEN "pending"
    ELSE IF Allowance < Required THEN "needsApproval" ELSE "ready"

(* AddLiquidityForm and PositionRow: disabled while a status is pending; the  *)
(* fees panel: while an action is busy.                                       *)
LiquidityButton ==
    IF standing # "good" THEN standing
    ELSE IF status.says = "pending" THEN "pending"
    ELSE IF form = "add" /\ Allowance < Required THEN "needsApproval" ELSE "ready"

FeesButton ==
    IF standing # "good" THEN standing
    ELSE IF phase # "idle" THEN phase ELSE "ready"

BridgeButton ==
    IF standing # "good" THEN standing
    ELSE IF phase = "bridging" THEN "bridging"
    ELSE IF amount = 0 THEN "enterAmount"
    ELSE IF phase = "estimating" THEN "estimating" ELSE "ready"

-----------------------------------------------------------------------------
(***************************************************************************)
(* Runs                                                                    *)
(***************************************************************************)
(* The bound a transaction carries: from the quote on the sheet. *)
SentBound == Bound(form, amount, QuotePrice)

(* What a run keeps of the render it was started in; `p` is the price shown. *)
StartRun(does, pc) ==
    /\ Len(runs) < page.runs
    /\ runs' = Append(runs,
          [does |-> does, pc |-> pc, as |-> account, a |-> amount,
           ask |-> IF pc = "ask" THEN Len(asks) + 1 ELSE 0,
           p |-> QuotePrice, bound |-> SentBound, need |-> Required,
           v |-> Venue(known.graduated), fee |-> known.fee, pool |-> known.pool,
           allowed |-> Allowance])

Next1 == Len(runs) + 1
Says(says, r) == [says |-> says, of |-> r]

(* The run goes on to its next await; or asks the wallet for something first. *)
GoesTo(r, pc) == runs' = [runs EXCEPT ![r].pc = pc]
GoesToAsk(r, does) ==
    /\ AskWallet(r, does)
    /\ runs' = [runs EXCEPT ![r].pc = "ask", ![r].ask = Len(asks) + 1]

askVars == <<connector, account, keystore, sheet, unlocking, confirmed>>

(* onConfirmed refetches, and the node asked may be behind the one that mined. *)
Refetches == known' \in {known, chain}

(* A run ends with its status line.  A trade that is confirmed clears the form *)
(* and its tick; a deposit or a removal clears its amounts however it ended.   *)
EndsSaying(r, says) ==
    LET clears == \/ runs[r].does \in {"add", "remove"}
                  \/ (says = "confirmed" /\ form \in TradeForms \cup {"bridge"})
    IN  /\ GoesTo(r, "done") /\ phase' = "idle" /\ status' = Says(says, r)
        /\ amount' = IF clears THEN 0 ELSE amount
        /\ tick' = IF clears THEN NoTick ELSE tick
        /\ quoted' = IF clears /\ form = "bridge" THEN 0 ELSE quoted
        /\ IF says = "confirmed" THEN Refetches ELSE UNCHANGED known
        /\ UNCHANGED <<page, standing, settled, approval, chain, read, deals, walletVars>>

-----------------------------------------------------------------------------
(***************************************************************************)
(* Presses                                                                 *)
(***************************************************************************)
(* execute on a moved quote: back to the form, with the new amounts. *)
ReviewQuote ==
    /\ form \in TradeForms /\ HasQuote /\ TradeButton = "quoteMoved"
    /\ phase' = "idle" /\ status' = NoStatus
    /\ UNCHANGED <<inputVars, approval, runs, chain, known, read, deals, events, walletVars>>

(* The button stays enabled while an approval is under way: execute clears the *)
(* status line and stops.                                                     *)
PressIdly ==
    /\ form \in TradeForms /\ HasQuote /\ TradeButton = "approving"
    /\ status' = NoStatus
    /\ UNCHANGED <<inputVars, approval, phase, runs, chain, known, read, deals, events, walletVars>>

(* Approve: exactly what this trade needs, for the contract that will pull it. *)
PressApprove ==
    /\ \/ form \in TradeForms /\ TradeButton = "needsApproval" /\ ImpactClear
       \/ form = "create" /\ CreateButton = "needsApproval"
       \/ form = "add" /\ LiquidityButton = "needsApproval"
    /\ StartRun("approve", "ask") /\ AskWallet(Next1, "approve")
    /\ phase' = IF form = "add" THEN phase ELSE "approving"
    /\ status' = IF form = "add" THEN Says("pending", Next1) ELSE NoStatus
    /\ UNCHANGED <<inputVars, approval, chain, known, read, deals, events, askVars>>

(* Swap, Buy or Sell: the run first asks the chain for its own quote; until    *)
(* that answers, the button stays ready.                                      *)
PressTrade ==
    /\ form \in TradeForms /\ TradeButton = "ready" /\ ImpactClear
    /\ StartRun("trade", "check")
    /\ status' = NoStatus
    /\ UNCHANGED <<inputVars, approval, phase, chain, known, read, deals, events, walletVars>>

PressCreate ==
    /\ form = "create" /\ CreateButton = "ready"
    /\ StartRun("create", "ask") /\ AskWallet(Next1, "create")
    /\ approval' = 0
    /\ phase' = "pending" /\ status' = Says("pending", Next1)
    /\ UNCHANGED <<inputVars, chain, known, read, deals, events, askVars>>

PressAdd ==
    /\ form = "add" /\ amount > 0 /\ LiquidityButton = "ready"
    /\ StartRun("add", "ask") /\ AskWallet(Next1, "add")
    /\ status' = Says("pending", Next1)
    /\ UNCHANGED <<inputVars, approval, phase, chain, known, read, deals, events, askVars>>

(* Remove: the permit's nonce and domain are read first. *)
PressRemove ==
    /\ form = "remove" /\ amount \in 1 .. known.lp /\ LiquidityButton = "ready"
    /\ StartRun("remove", "reads")
    /\ status' = Says("pending", Next1)
    /\ UNCHANGED <<inputVars, approval, phase, chain, known, read, deals, events, walletVars>>

(* act: one creator-fee action at a time. *)
PressFees ==
    /\ form = "fees" /\ FeesButton = "ready"
    /\ StartRun("act", "ask") /\ AskWallet(Next1, "act")
    /\ phase' = "busy" /\ status' = Says("pending", Next1)
    /\ UNCHANGED <<inputVars, approval, chain, known, read, deals, events, askVars>>

(* Bridge: the kit burns on the source chain first. *)
PressBridge ==
    /\ form = "bridge" /\ BridgeButton = "ready"
    /\ StartRun("bridge", "ask") /\ AskWallet(Next1, "burn")
    /\ phase' = "bridging" /\ status' = Says("pending", Next1)
    /\ UNCHANGED <<inputVars, approval, chain, known, read, deals, events, askVars>>

-----------------------------------------------------------------------------
(***************************************************************************)
(* What a run does when an await answers                                   *)
(***************************************************************************)
formVars == <<inputVars, approval, chain, known, read, deals>>

At(r, pc) == r \in DOMAIN runs /\ runs[r].pc = pc
Current(r) == asks[runs[r].ask]
Told(r, reply) == At(r, "ask") /\ Current(r).reply = reply
Mined(r, stage) == At(r, "receipt") /\ Current(r).stage = stage

OnCurveStill(r) == runs[r].v = "curve" => ~chain.graduated

(* The chain has the last word: it quotes the trade again, now. *)
ChainQuoteHolds(r) == Within(form, Result(form, runs[r].a, chain.price), runs[r].bound)

CheckPasses(r) ==
    /\ At(r, "check") /\ OnCurveStill(r) /\ ChainQuoteHolds(r)
    /\ phase' = "pending" /\ status' = Says("pending", r)
    /\ IF form = "buy14"
       THEN GoesTo(r, "gas") /\ UNCHANGED asks
       ELSE GoesToAsk(r, "trade")
    /\ UNCHANGED <<formVars, events, askVars>>

CheckMoves(r) ==
    /\ At(r, "check") /\ OnCurveStill(r) /\ ~ChainQuoteHolds(r)
    /\ phase' = "quoteMoved"
    /\ GoesTo(r, "done")
    /\ UNCHANGED <<formVars, status, events, walletVars>>

(* A curve that has graduated refuses to quote. *)
CheckReverts(r) ==
    /\ At(r, "check") /\ ~OnCurveStill(r)
    /\ EndsSaying(r, "failed") /\ UNCHANGED events

(* launchTradeGas: a v1.4 buy reads the window and a fresh estimate first. *)
GasKnown(r) ==
    /\ At(r, "gas")
    /\ GoesToAsk(r, "trade")
    /\ UNCHANGED <<formVars, phase, status, events, askVars>>

(* Without a permit: an approval if the allowance seen at the press is short. *)
FallsBack(r) ==
    GoesToAsk(r, IF runs[r].allowed < runs[r].need THEN "approve" ELSE "removal")

PermitReads(r) ==
    /\ At(r, "reads")
    /\ GoesToAsk(r, "permit")
    /\ UNCHANGED <<formVars, phase, status, events, askVars>>

PermitSigned(r) ==
    /\ Told(r, "signature")
    /\ GoesToAsk(r, "removal")
    /\ UNCHANGED <<formVars, phase, status, events, askVars>>

(* Fault: any error falls back, a lost reply to the removal too. *)
MayFallBackAlways(r) == Told(r, "error") /\ form = "remove"

(* The permit could not be signed.  A removal already handed to the wallet is  *)
(* never tried again.                                                         *)
MayFallBack(r) == Told(r, "error") /\ Current(r).does = "permit"

PermitRefused(r) ==
    /\ MayFallBack(r)
    /\ FallsBack(r)
    /\ UNCHANGED <<formVars, phase, status, events, askVars>>

HashArrives(r) ==
    /\ Told(r, "hash")
    /\ GoesTo(r, "receipt")
    /\ status' = IF Current(r).does = "approve" /\ form # "add"
                 THEN status ELSE Says("pending", r)
    /\ UNCHANGED <<formVars, phase, events, walletVars>>

(* isUserRejection sorts a refusal by the user from every other error. *)
AskRejected(r) ==
    /\ Told(r, "rejected")
    /\ EndsSaying(r, "cancelled") /\ UNCHANGED events

(* Fault: a wallet error leaves the phase where it is. *)
AskErrsInPhase(r) ==
    /\ Told(r, "error") /\ ~MayFallBack(r)
    /\ GoesTo(r, "done") /\ status' = Says("failed", r)
    /\ UNCHANGED <<formVars, phase, events, walletVars>>

AskErrs(r) ==
    /\ Told(r, "error") /\ ~MayFallBack(r)
    /\ EndsSaying(r, "failed") /\ UNCHANGED events

(* Swap and Remove do not look at an approval's receipt status; the others do. *)
Unchecked(r) == Current(r).does = "approve" /\ form \in SwapForms \cup {"remove"}

ApprovalMined(r) ==
    /\ Mined(r, "landed") \/ (Mined(r, "reverted") /\ Unchecked(r))
    /\ Current(r).does = "approve" /\ form # "remove"
    /\ GoesTo(r, "done")
    /\ phase' = "idle"
    /\ approval' = IF form = "create" THEN runs[r].need ELSE approval
    /\ status' = IF form = "add" THEN Says("confirmed", r) ELSE status
    /\ Refetches
    /\ UNCHANGED <<inputVars, chain, read, deals, events, walletVars>>

(* The next transaction of the same run: a removal after its approval, the     *)
(* mint after the burn is attested.                                           *)
NextTransaction(r) ==
    /\ \/ /\ Mined(r, "landed") \/ Mined(r, "reverted")
          /\ Current(r).does = "approve" /\ form = "remove"
          /\ GoesToAsk(r, "removal")
       \/ /\ Mined(r, "landed") /\ Current(r).does = "burn"
          /\ GoesToAsk(r, "mint")
    /\ UNCHANGED <<formVars, phase, status, events, askVars>>

Confirmed(r) ==
    /\ Mined(r, "landed") /\ Current(r).does \notin {"approve", "burn"}
    /\ EndsSaying(r, "confirmed") /\ UNCHANGED events

Reverted(r) ==
    /\ Mined(r, "reverted") /\ ~Unchecked(r)
    /\ EndsSaying(r, "failed") /\ UNCHANGED events

Step(r) ==
    \/ CheckPasses(r) \/ CheckMoves(r) \/ CheckReverts(r) \/ GasKnown(r)
    \/ PermitReads(r) \/ PermitSigned(r) \/ PermitRefused(r)
    \/ HashArrives(r) \/ AskRejected(r) \/ AskErrs(r)
    \/ ApprovalMined(r) \/ NextTransaction(r) \/ Confirmed(r) \/ Reverted(r)

-----------------------------------------------------------------------------
(***************************************************************************)
(* The form, besides its button                                            *)
(***************************************************************************)
afterInput == <<approval, phase, status, runs, chain, known, read, deals, walletVars>>

Event == events < page.events /\ events' = events + 1

(* Any edit clears the tick; on the bridge it also asks for a new estimate.    *)
Edit(a) ==
    /\ Event /\ a # amount
    /\ amount' = a /\ tick' = NoTick
    /\ quoted' = IF form = "bridge" THEN (IF a > 0 THEN 1 ELSE 0) ELSE quoted
    /\ UNCHANGED <<page, standing, settled, afterInput>>

(* The checkbox: ticked, the key of the trade and of the sentence beside it is *)
(* kept; unticked, nothing is.                                                *)
Tick ==
    /\ form \in TradeForms /\ HasQuote /\ Tier(amount) = "acknowledge"
    /\ IF tick = AcknowledgmentKey
       THEN tick' = NoTick /\ UNCHANGED read
       ELSE /\ tick' = AcknowledgmentKey
            /\ read' = read \cup {<<amount, Venue(known.graduated), Sentence(amount, QuotePrice)>>}
    /\ UNCHANGED <<page, standing, amount, settled, quoted, approval, phase, status,
                   runs, chain, known, deals, events, walletVars>>

(* useSettled, and the pool's quote of the settled amount at the pinned block. *)
Settles ==
    /\ V14 /\ settled # amount
    /\ settled' = amount /\ quoted' = 0
    /\ UNCHANGED <<page, standing, amount, tick, events, afterInput>>

PoolQuoted ==
    /\ InV4Pool /\ settled > 0 /\ quoted # chain.price
    /\ quoted' = chain.price
    /\ UNCHANGED <<page, standing, amount, settled, tick, events, afterInput>>

(* The bridge's estimate: a timer after every edit, then a call.  Neither asks *)
(* whether a bridge is under way, and both set the phase.                      *)
EstimateStarts ==
    /\ form = "bridge" /\ quoted = 1
    /\ phase' = "estimating" /\ quoted' = 2
    /\ UNCHANGED <<page, standing, amount, settled, tick, approval, status, runs,
                   chain, known, read, deals, events, walletVars>>

EstimateEnds ==
    /\ form = "bridge" /\ quoted = 2
    /\ phase' = "idle" /\ quoted' = 0
    /\ UNCHANGED <<page, standing, amount, settled, tick, approval, status, runs,
                   chain, known, read, deals, events, walletVars>>

(* Thirty seconds after an approval Create stops waiting for the allowance. *)
StopsWaiting ==
    /\ form = "create" /\ Lagging
    /\ approval' = 0
    /\ UNCHANGED <<inputVars, phase, status, runs, chain, known, read, deals,
                   events, walletVars>>

Connects(s) ==
    /\ Event /\ standing # "good" /\ s # standing
    /\ standing' = s
    /\ UNCHANGED <<page, amount, settled, quoted, tick, afterInput>>

(* The page's polls. *)
Polls ==
    /\ known' = chain /\ known # chain
    /\ UNCHANGED <<inputVars, approval, phase, status, runs, chain, read, deals,
                   events, walletVars>>

-----------------------------------------------------------------------------
(***************************************************************************)
(* The chain, and whoever else uses it                                     *)
(***************************************************************************)
beforeChain == <<inputVars, approval, phase, status, runs, known, read>>

(* What a transaction pays out of its allowance. *)
Pays(r) ==
    CASE runs[r].does = "create" -> chain.fee + runs[r].a
      [] form = "exactOut" -> Result(form, runs[r].a, chain.price)
      [] Sells -> 0
      [] OTHER -> runs[r].a

Covered(r) == chain.allowance[runs[r].v] >= Pays(r)

HasPermit(r) ==
    \E i \in DOMAIN asks : asks[i].by = r /\ asks[i].reply = "signature"

(* Whether the contracts let a run's transaction through. *)
Fits(r, does) ==
    CASE does = "trade" -> OnCurveStill(r) /\ ChainQuoteHolds(r) /\ Covered(r)
      [] does = "create" -> chain.fee <= runs[r].fee /\ Covered(r)
      [] does = "add" ->
            /\ Covered(r)
            /\ IF runs[r].pool
               THEN /\ runs[r].a * chain.price <= Result(form, runs[r].a, runs[r].p) + Slippage
                    /\ runs[r].a * chain.price >= runs[r].bound
               ELSE chain.pool => chain.price = runs[r].p
      [] does = "removal" -> chain.lp >= runs[r].a /\ (HasPermit(r) \/ Covered(r))
      [] OTHER -> TRUE

(* What it changes. *)
After(r, does) ==
    CASE does = "approve" -> [chain EXCEPT !.allowance[runs[r].v] = runs[r].need]
      [] does \in {"trade", "create"} -> [chain EXCEPT !.allowance[runs[r].v] = @ - Pays(r)]
      [] does = "add" -> [chain EXCEPT !.allowance[runs[r].v] = @ - Pays(r), !.pool = TRUE,
                                       !.price = IF chain.pool THEN @ ELSE runs[r].p]
      [] does = "removal" -> [chain EXCEPT !.lp = @ - runs[r].a]
      [] OTHER -> chain

Deal(r, does) ==
    [run |-> r, does |-> does, at |-> After(r, does).price, result |-> Result(form, runs[r].a, chain.price),
     paid |-> Pays(r)]

Lands(i) ==
    /\ asks[i].stage = "sent" /\ Fits(asks[i].by, asks[i].does)
    /\ asks' = [asks EXCEPT ![i].stage = "landed"]
    /\ chain' = After(asks[i].by, asks[i].does)
    /\ deals' = deals \cup {Deal(asks[i].by, asks[i].does)}
    /\ UNCHANGED <<beforeChain, events, askVars>>

(* A transaction the contracts refuse, or one that runs out of something else. *)
Fails(i) ==
    /\ asks[i].stage = "sent"
    /\ Fits(asks[i].by, asks[i].does) => Event
    /\ ~Fits(asks[i].by, asks[i].does) => UNCHANGED events
    /\ asks' = [asks EXCEPT ![i].stage = "reverted"]
    /\ UNCHANGED <<beforeChain, chain, deals, askVars>>

(* Other people's trades, deposits and settings. *)
Others ==
    /\ Event
    /\ \/ chain.pool /\ \E p \in Prices \ {chain.price} : chain' = [chain EXCEPT !.price = p]
       \/ form \in LaunchForms /\ ~chain.graduated /\ chain' = [chain EXCEPT !.graduated = TRUE]
       \/ form = "add" /\ ~chain.pool
             /\ \E p \in Prices : chain' = [chain EXCEPT !.pool = TRUE, !.price = p]
       \/ form = "create"
             /\ \E f \in Fees \ {chain.fee} : chain' = [chain EXCEPT !.fee = f]
    /\ UNCHANGED <<beforeChain, deals, walletVars>>

(* A node that does not answer: the quote, the gas or the permit's reads throw. *)
ReadFails(r) ==
    /\ Event
    /\ \/ (At(r, "check") \/ At(r, "gas")) /\ EndsSaying(r, "failed")
       \/ /\ At(r, "reads") /\ FallsBack(r)
          /\ UNCHANGED <<formVars, phase, status, askVars>>

(* The receipt did not come in time; the transaction may still land. *)
ReceiptTimesOut(r) ==
    /\ Event /\ Mined(r, "sent")
    /\ EndsSaying(r, "failed")

-----------------------------------------------------------------------------
(***************************************************************************)
(* The user at the wallet                                                  *)
(***************************************************************************)
Signs(i) == Sign(i, "hash") /\ UNCHANGED pageVars
Rejects(i) == Turndown(i, "rejected") /\ UNCHANGED pageVars

(* The transaction went out and its reply was lost; or the wallet cannot do it. *)
LosesReply(i) ==
    /\ Event /\ (Sign(i, "error") \/ Turndown(i, "error"))
    /\ UNCHANGED <<beforeChain, chain, deals>>

Sheet ==
    /\ ShowNext \/ PressConfirm \/ CancelSheet \/ \E u \in unlocking : Unlocked(u)
    /\ UNCHANGED pageVars

SheetTrouble ==
    /\ Event
    /\ \/ \E u \in unlocking : UnlockRefused(u)
       \/ \E o \in Owners : SaveElsewhere(o)
       \/ ForgetElsewhere
    /\ UNCHANGED <<beforeChain, chain, deals>>

-----------------------------------------------------------------------------
Init ==
    /\ page \in Pages /\ standing \in {"out", "elsewhere", "good"}
    /\ amount \in 0 .. 3 /\ settled = amount
    /\ quoted = IF form = "bridge" /\ amount > 0 THEN 1 ELSE 0
    /\ tick = NoTick /\ approval = 0 /\ phase = "idle" /\ status = NoStatus
    /\ runs = <<>> /\ read = {} /\ deals = {} /\ events = 0
    /\ chain \in [price : {StartPrice}, fee : IF form = "create" THEN Fees ELSE {1}, lp : {3},
                  graduated : IF form \in LaunchForms THEN BOOLEAN ELSE {FALSE},
                  pool : IF form = "add" THEN BOOLEAN ELSE {TRUE},
                  allowance : {[v \in {"curve", "pool"} |-> n] : n \in {0, Plenty}}]
    /\ known = chain
    /\ connector = page.wallet
    /\ account = CHOOSE o \in Owners : TRUE
    /\ keystore = IF connector = "browser" THEN account ELSE Nobody
    /\ asks = <<>> /\ sheet = 0 /\ unlocking = {} /\ confirmed = {}

Next ==
    \/ ReviewQuote \/ PressIdly \/ PressApprove \/ PressTrade \/ PressCreate
    \/ PressAdd \/ PressRemove \/ PressFees \/ PressBridge
    \/ \E a \in 0 .. 3 : Edit(a)
    \/ Tick \/ Settles \/ PoolQuoted \/ EstimateStarts \/ EstimateEnds
    \/ StopsWaiting \/ Polls
    \/ \E s \in {"elsewhere", "good"} : Connects(s)
    \/ \E r \in DOMAIN runs : Step(r) \/ ReadFails(r) \/ ReceiptTimesOut(r)
    \/ \E i \in DOMAIN asks :
          Signs(i) \/ Rejects(i) \/ LosesReply(i) \/ Lands(i) \/ Fails(i)
    \/ Others \/ Sheet \/ SheetTrouble

Spec == Init /\ [][Next]_vars

(* The user, the wallet and the chain get round to what is asked of them, and  *)
(* every promise of a run that is settled is resumed.                         *)
Fairness ==
    /\ WF_vars(\E r \in DOMAIN runs : Step(r))
    /\ WF_vars(\E i \in DOMAIN asks : Signs(i) \/ Rejects(i))
    /\ WF_vars(\E i \in DOMAIN asks : Lands(i) \/ Fails(i))
    /\ WF_vars(Sheet)

FairSpec == Spec /\ Fairness

-----------------------------------------------------------------------------
(* A landed trade gave at least, or cost at most, what its sheet bounded it to *)
(* when the button was pressed; a launch was charged no more than the fee the  *)
(* form showed, and a pool opened at the deposit's own price, whatever moved,  *)
(* refetched or was edited in between (useSwap: quoteMoved; useCreateToken:    *)
(* "never overpays"; useLiquidity: creatingPool).                              *)
KeepsWhatWasShown ==
    \A d \in deals :
        LET r == runs[d.run]
        IN  /\ d.does = "trade" => Within(form, d.result, Bound(form, r.a, r.p))
            /\ d.does = "create" => d.paid <= r.fee + r.a
            /\ (d.does = "add" /\ ~r.pool) => d.at = r.p

(* Nothing is approved or sent for a trade past the refusal line; and past the *)
(* acknowledgment line only after the box was ticked beside the very sentence  *)
(* and for the very amount and venue of the trade (lib/impactGuard.ts).        *)
NoBlindTrade ==
    form \in TradeForms =>
        \A i \in DOMAIN asks :
            LET r == runs[asks[i].by]
            IN  /\ Tier(r.a) # "refused"
                /\ Tier(r.a) = "acknowledge" => <<r.a, r.v, Sentence(r.a, r.p)>> \in read

(* A transaction of a run has gone out. *)
Went(r, does) ==
    \E i \in DOMAIN asks :
        asks[i].by = r /\ asks[i].does \in does /\ asks[i].stage \in {"sent", "landed", "reverted"}

(* The status line never claims what is not so: "confirmed" only when the      *)
(* run's last transaction landed, "cancelled" only when nothing of the trade   *)
(* itself went out (useSwap, useLaunchTrade, useCreateToken, useLiquidity and  *)
(* useCreatorFees sort their errors the same way).                             *)
StatusIsTrue ==
    /\ status.says = "confirmed" => \E d \in deals : d.run = status.of
    /\ status.says = "cancelled" /\ form # "bridge" =>
            ~Went(status.of, {"trade", "create", "add", "removal", "act"})

(* One press of Remove never removes twice, though the permit route falls back *)
(* to approve-and-remove and a reply of the wallet may be lost (useLiquidity:  *)
(* "a retry would remove the same liquidity twice").                           *)
RemovedOnce ==
    \A r \in DOMAIN runs :
        Cardinality({i \in DOMAIN asks :
            asks[i].by = r /\ asks[i].does = "removal"
            /\ asks[i].stage \in {"sent", "landed"}}) <= 1

(* Create, Add, Remove and the creator-fee actions never have two runs under   *)
(* way: a press is taken only when the last one has ended.                     *)
OneAtATime ==
    form \in {"create", "add", "remove", "fees"} =>
        Cardinality({r \in DOMAIN runs : runs[r].pc # "done"}) <= 1

(* With an extension every run ends, and the form is usable again: no phase    *)
(* is left behind whatever throws, is rejected, reverts or times out.          *)
RunsEnd ==
    []<>(connector = "extension" =>
            /\ \A r \in DOMAIN runs : runs[r].pc = "done"
            /\ phase \in {"idle", "quoteMoved", "estimating"})

(* A form trades what it showed and says what it did, once for each press.     *)
FormsAreHonest ==
    KeepsWhatWasShown /\ NoBlindTrade /\ StatusIsTrue /\ RemovedOnce /\ OneAtATime
=============================================================================
