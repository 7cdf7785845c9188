# Architex in TLA+

A verification project for Architex: a decentralised exchange and token launchpad
for the Arc chain (Solidity), the services behind its site, the site's own logic and
the scripts that deploy and rehearse it (TypeScript). The modules here are translated
from the source; TLC checks them on small instances, and TLAPS proves the theorems of
section 4 for every value of the constants.

Paths below are relative to the repository root. To check one run and one proof:

    tlc -workers 2 -config Launchpad_calls.cfg MC_Launchpad
    tlapm LaunchpadProofs.tla

## 1. The system

### Contracts

**Launchpad v1.3** (`contracts/launchpad/ArchitexLaunchpad.sol`).
State: one bonding curve per token (virtual reserves, tokens sold, graduation
flag, creator fee, fee plugin), the platform fees and each token's creator fees
accrued and not collected, `feeTo`, `feeToSetter`, `launchFee`, the wiring.
Operations: `initialize`, three setters, `createToken`, `buy`, `sell` (and the
graduation inside the buy that sells out), `collectFees`, `collectCreatorFees`,
`accrueTradeFees` (from the launch router).
Hard: `createToken` and `collectCreatorFees` call an arbitrary plugin half way
through; quotes round, and rounding adds up over any sequence of trades; the pair
of a live token can be donated to and synced by anyone before graduation needs it.
Correct when: it holds what its books say; a curve can always buy back what it
has sold; nothing can block or repeat a graduation; a plugin reaches nothing but
its own fees; the creator's first buy meets an untouched curve.

**Launch pair and factory** (`LaunchPair.sol`, `LaunchPairFactory.sol`).
State: recorded reserves, the LP token. Operations: `mint`, `burn`, `skim`, `sync`
(anyone), `swap` (router only, fee-free). Hard: all of them interleave with
donations and with each other; they divide by reserves and subtract reserves
from balances. Correct when: reserves stay backed, the pool never empties and no
LP share loses value.

**Launch router** (`LaunchRouter.sol`). Stateless: quotes a pool trade, takes the
fees in USDC, books them with the launchpad, trades in the pair.

**Launch token** (`LaunchToken.sol`). State: balances, the pair lock
(`graduated`), and a dividend stream (rate, end, per-share accumulator,
corrections, claims, eligible supply). Operations: transfers, `pull`, `burn`,
`initPair`, `markGraduated`, `distribute`, `claim`. Hard: the stream is accrued
lazily by whoever touches the token, pauses while too little supply is eligible,
and re-weights its end on every deposit. Correct when: the stream never promises
more than was distributed, and eligible supply follows every transfer.

**Core AMM** (`ArchitexPair`, `ArchitexFactory`, `ArchitexRouter`). A
constant-product pair with flash swaps (the callback runs before the product
check), protocol fee mint and price accumulators; a factory; a router over paths
of pairs. Correct when: the fee-adjusted product and the value of an LP share
never fall, the protocol's share of growth is charged once, and a path pays what
it quoted.

**Fee plugins** (`contracts/plugins/launch`): Split, Holder distribution, Combo,
Buyback & burn, Deepen pool. They receive creator fees through `onFees` and spend
them at once or in paced runs. Correct when: no payee gets more than its part, a
Combo passes on all or nothing, pacing bounds what a run spends.

**Fee distributors** (`contracts/plugins/fee-distribution`): split a balance among
a fixed list.

**Launchpad v1.4** (`contracts-v14/src`): the launchpad over Uniswap v4: a hook
with a launch-window surcharge and bid positions, pool fees that wait as claims, a
router. Correct when: every fee is in exactly one of claims, books, paid out; a bid
starts low enough never to pay the next buyer a profit.

**Read-only helpers** (`ArchitexLens`, `SeedPools`, `TestToken`): no state of their
own that others depend on.

### Scripts

**Rehearsals** (`scripts/v13-rehearsal.ts`, `deepen-rehearsal.ts`,
`v14-rehearsal.ts`): long plans of transactions sent with one key and compared with a
model to the unit. State: a journal in a file. Hard: the process may be killed between
any two steps and run again, answers of the node get lost, the key is used by others,
gas caps stop a run midway. Correct when: the journal says only what happened, nothing
is sent twice or lost, and a patient operator reaches the end.

**Deployments** (`scripts/compass-deploy.ts`, `self-deploy.ts`): predict, verify on a
fork, keep a receipt, broadcast with a custody wallet or a key, record the address.
Hard: two terminals share the artifact, the receipt and the metadata file; the custody
service answers late. Correct when: a live deployment is the one the receipt verified,
and the metadata file names contracts that exist.

### Services and site

**Listing API** (`server/listing`): one shared snapshot and one shared trades tape
for all requests, filled by a parallel log scan whose windows are halved and
requeued when an endpoint refuses them, over rotating RPC endpoints. Hard: state
shared across awaits, partial scans, retries. Correct when: every block is read
once or reported missing, and the tape has no unread hole.

**Metadata and IPFS services** (`server`, `api`, `scripts/metadata-cleanup.ts`): pin a
launch's picture and details before the launch, serve files with their hashes checked,
unpin what no token names. Correct when: a launched token's details are what was typed
and stay there, and what a page shows is what the address names.

**Site**: creating a launch (fee plan, address probes, save and launch), history reads
with a kept RPC tail behind the explorer's index, the browser wallet (record,
passkeys, confirm queue), the trading forms, quotes, and a fixture market that runs
the whole launch in memory. Hard: every `await` of a form can find prices, allowances,
other presses or another tab's wallet changed. Correct when: only what was confirmed is
signed, a form never sends worse than it showed, the only copy of a key is never
dropped.

**Verification helpers, vendored and generated files**: test support, `forge-std`,
broadcast logs, one-off scripts.

### How they interact

    creator/trader --> ArchitexLaunchpad --transfer, markGraduated--> LaunchToken
                         |    ^   |--seed, mint--> LaunchPair <--mint/burn/skim/sync-- anyone
                         |    |                        ^
                   onLaunch,  accrueTradeFees          | swap
                   onFees     |                        |
                         v    LaunchRouter ------------+
                      plugin --(anything, while the call is open)

    site forms --> wallet queue --> chain <-- rehearsals, deployments
       | quotes        ^              |
       v               | keystore     | logs
    metadata service   tabs           +--> explorer, RPC --> site history, listing API

A transaction is atomic, so contracts interleave in two ways only: transactions of
different users in any order, and whatever a plugin (or a flash borrower) does before a
call to it returns. The services and the site interleave at every `await`; the scripts
wherever a process may be killed or an answer be lost.

The hazards of each part, at the line where they bite, are in `PROJECT.json`.

## 2. The modules

Contracts:

| Module | Models | State and actions |
|---|---|---|
| `CurveMath` | `_calcBuy`, `_calcSell`, `_divCeil` of the launchpad; `quoteBuy`, `quoteSell` of the launch router | none: operators that return the quote as a record, `ok` FALSE where the code reverts |
| `CurveTrades` | one curve's numbers under any sequence of trades | the `Curve` fields a trade touches; `Buy`, `Sell` |
| `LaunchPool` | USDC, launch token balances with the pair lock, `LaunchPair` | ledgers, `graduated`, `reserves`, `lp`, `lpSupply`; transfers, `BurnToken`, `PairMint`, `PairBurn`, `PairSkim`, `PairSync` |
| `Launchpad` | `ArchitexLaunchpad` and `LaunchRouter`, on top of `LaunchPool` | `curves`, `pendingFees`, `pendingCreatorFees`, `feeTo`, `feeToSetter`, `launchFee`, `wired`, `call`, `saved`; one action per external function, split where it calls a plugin |
| `LaunchSale` | the abstract sale of a token | phase, sold, raised; `OpenSale`, `Trade` |
| `LaunchToken` | `LaunchToken`: balances and the dividend stream, with block time | `bal`, `eligible`, `lastAccrual`, `end`, `rate`, `perShare`, `corrections`, `claimed`, `held`; `Tick`, `Distribute`, `Claim`, `Transfer`, `Burn`, `Pull`, `MarkGraduated` |
| `HolderDividends` | the abstract promise about dividends | time, distributed, earned, paid; `Give`, `TimePasses`, `PayOut` |
| `PairMath` | the functions of `ArchitexPair` on a pool, and the quotes of `ArchitexRouter` | none: operators over the record of balances, reserves, `kLast` and LP supply |
| `ArchitexPair` | one `ArchitexPair` and `ArchitexFactory`'s fee switches, with block time | `pool`, `sums`, wallets, `lp`, `feeTo`, `feeToSetter`, `flash`, `saved`; `Mint`, `Burn`, `Swap`, `BeginFlash`, `EndFlash`, `RevertFlash`, `Skim`, `Sync`, transfers, `SetFeeTo`, `SetFeeToSetter`, `Tick` |
| `ArchitexRouter` | `ArchitexRouter` and `createPair` over every pair of some tokens | `created`, `pools`, `wallet`, `lp`, `allowance`, `permit`, `feeTo`; one action per router function, permits that anyone submits, outsiders at the pairs, the factory's `setFeeTo` |
| `Sums` | sums over finite sets | none |

Scripts:

| Module | Models | State and actions |
|---|---|---|
| `RehearsalPlans` | what the three rehearsals send, step by step | none: a plan is a sequence of steps with their calls |
| `Rehearsal` | the driver that sends a plan: journal, nonce, retries, recovery, gas caps, give-ups, restarts; the chain and a forgetful node around it | journal, process memory, pool, chain |
| `V4Math` | `scripts/v14-v4-math.ts`: Uniswap v4 arithmetic on a tick grid | none |
| `V14Launch` | the model of a v1.4 launch in `scripts/v14-rehearsal.ts`: curve, window, bids, batches, v4 pool | `st`, `batch` and history; curve and pool trades, batches sent back to back, outside liquidity, fee syncs |
| `Deployments` | `compass-deploy.ts`, `compass-deploy-helpers.ts`, `self-deploy.ts` in two terminals | artifact, receipt, metadata file, requests at the custody service, code on the chain |
| `RehearsalModels` | what the v1.3 and the Deepen pool rehearsal expect of a trade, a run, a stream | none of its own: operators over `LaunchFixtures` |

Services and site:

| Module | Models | State and actions |
|---|---|---|
| `LogScan` | one scan of `server/listing/logs.ts` over the client of `rpc.ts` | `queue`, `size`, `at` (each worker's place), `got`, `missing`, `preferred`; one action per stretch of code between awaits |
| `ListingService` | snapshot and tape of `server/listing/service.ts` | `snapshot`, `tape`, `load`; `StartLoad`, `Scan`, `NextScan`, `FinishLoad` |
| `SiteHistory` | `logTail.ts`, `explorerLogs.ts`, `rpcLogs.ts`, `useLaunchTrades.ts`, `usePriceHistory.ts` | what the explorer has indexed, the reader's place, what the page keeps |
| `FeePlans` | `plan.ts`'s check of a fee plan and the contracts' check of what it becomes | none |
| `CreateLaunch` | `LaunchCreate.tsx`, `FeeDestinationPicker.tsx`, `useDestinationProbe.ts`, `metadataService.ts`, `metadata-cleanup.ts` | form, probe, saves, pins, launches |
| `VerifiedFiles` | `ipfs.ts`, `useTokenMetadata.ts`, `ipfsProxy.ts` | attempts, visits, what gateways hold |
| `Signing` | the wallet behind `writeContractAsync`: connectors, the unlock queue, the confirm sheet | `asks`, `unlocking`, `confirmed`, the record's key |
| `SiteForms` | the forms of the site as runs of async functions over `Signing` | `runs`, `phase`, prices, allowances; one action per stretch between awaits |
| `WalletVault` | `localWallet.ts`, `keystore.ts`, `ConnectSheet.tsx` in two tabs | record, passkeys, sheets |
| `LaunchQuotes` | `curve.ts`, `launchV14.ts`, `launchQuote.ts`, `impactGuard.ts` | none |
| `AmmQuotes` | `amm.ts`, held against `ArchitexRouter` | none of its own |
| `LaunchFixtures` | `launchFixtures.ts`, the market in memory, with splits, streams, runs, v1.4 windows and bids | `store`; one action per call, which may throw and keep what it wrote |

`MC_*` give TLC its constants; several put two or three independent components into one run, as a
behaviour that is about one of them while the others stand still. The proof modules are
those of section 4.

**Transactions.** A function is one action. Two functions call out to a plugin and
are split there: `createToken` into `CreateToken` (up to `onLaunch`) and
`FinishLaunch` (the creator's first buy and the end), `collectCreatorFees` into
`CollectToPlugin` (zero the accrual, approve, call `onFees`) and `FinishFees` (check
that exactly the amount left). While such a call is open (`call.kind # "none"`)
every action that the reentrancy guard does not refuse may run, as a plugin could
make it run: transfers, pair functions, the setters, and `PluginPull` from the
allowance. The functions behind the guard are refused (`Entered`), so is a router
trade, whose `accrueTradeFees` is behind it. `RevertCall` ends the transaction by
restoring `saved`, the state it began in; it is always possible because a plugin may
revert and gas may run out. A plugin is therefore *any* contract: what the runs
show of the launchpad holds for every plugin. The guard also refuses a second plugin
call of this launchpad inside the first, so one open call is all there can be.

A flash swap of an `ArchitexPair` is split the same way: `BeginFlash` pays out and calls the
borrower, `EndFlash` is what follows the callback, `RevertFlash` restores `saved`. While it is
open the pair's `lock` refuses every function of it (`Unlocked`) and everything else runs:
transfers to the pair, LP transfers, the factory's switches. A swap without data has no
callback and is one action. In `ArchitexRouter` the pairs are those of `PairMath`, and a swap
along a path is one action whose hops are computed one after the other, each checked by its
pair, as `_swap` makes them; every hop is quoted before the first one runs.
A mint or burn first gives whoever `feeTo` is the protocol's shares (`WithFee`), as `_mintFee`
does, so they count in the supply the caller's part is taken of.

**Reverts.** A revert leaves no trace, so a call that would revert is a disabled
action. Checked arithmetic is modelled by guards: a subtraction the compiler checks
is a conjunct, and the type invariants say that no other subtraction goes below zero.

**Awaits.** JavaScript runs one stretch from an `await` to the next without interruption:
that stretch is one action. Values a closure captured (the props of a render, a head
read before a scan) stay what they were; shared variables are read when the code reads
them. In `LogScan`, a worker that is in its loop moves before any answer is handled.

**Processes.** A script may be killed between any two steps that touch a file, the
chain or the network; what it held in memory is gone and its file stays.

**Time.** The dividend stream and a pair's price sums read the clock. `LaunchToken` and
`ArchitexPair` have it as `now`: `Tick` moves it between blocks, and any number of steps
happen at one timestamp. A pair records the time in 32 bits and lets its sums wrap in 256
(`TIME_WRAP`, `SUM_WRAP`); the model wraps both and assumes of time only that no pair is left
alone for a whole wrap, 136 years. In `LaunchToken`, every move of tokens is an `Update`, which
accrues the stream first, as `_update` does; `Accrued` is the stream brought up to now.

**Faults.** Some definitions come with a variant commented "Fault:". It is the same
operation with a plausible mistake in it and is used by nothing: each property is
known to fail when the named definition is replaced by its fault
(`mutants` in `PROJECT.json`).

**Simplifications**, by module:

* Contracts: `minTokensOut`, `minUsdcOut`, `deadline` only make a call revert, and some
  value of each allows it; names, metadata, events and views are left out. `maxLaunchFee`
  is kept because the fee can move between quote and call. The `uint112` limit of a pair is
  `MaxReserve`; products of reserves stay far below 2^256 and are not bounded.
* `SiteForms`: the account does not change; replaced transactions, balances and claims are
  left out; the bridge kit is external, a burn and then a mint; Add has one allowance
  for both tokens.
* `SiteHistory`: one log per block and one feed per behaviour; a read of several pages is one
  step where only its first page or its end can tell; at most one read is left behind;
  `thin()` is left out.
* `CreateLaunch`: a pin's id is fresh each time; the clean-up's list limit is not reached; a
  tick is longer than a save and than the clean-up's reads; plugins other than the listed
  ones take no settings.
* `WalletVault`: WalletConnect, the development seed, passkey labels and clearing site data
  are left out; one origin; a passkey wraps one key.
* `ListingService`: a trade is a market and a block; block time is the block number.
* `LaunchFixtures` against `RehearsalModels`: a run's LP is left out, since the fixture
  market has no LP supply of its own.

## 3. The runs

Every run checks each property of its row; a property that is a conjunction names its parts
in its module. State counts are of distinct states.

| Run | Instance | Properties | States |
|---|---|---|---|
| `curves_and_tokens` | one curve of 48 of 64 tokens, fees of 5 % and 0 or 15 %; a token with two holders, its own address, the launchpad and the pair, with deposits, pauses, expiry | `CurveKeepsItsWord`, `StreamNeverFails`, `NothingMadeOrLost`, `EarnsByTimeOnly`, `DividendsRefined` | 273 779 |
| `launchpad_pool` | one token launched, sold out and traded in its pool, everyone at the pair | `BooksSound`, `GraduationIsSafe`, `PoolSharesNotDiluted` | 1 311 256 |
| `launchpad_calls` | two tokens, a user, a plugin, gifts to the launchpad | `CallsKeepTheBooks`, `SaleRefined`, `SurplusNeverPaidOut` | 546 902 |
| `pair_shares` | a pair, protocol fee switched on and off, amounts that make it mint | `PairSound`, `LiquidityLasts`, `SharesKeepTheirGrowth` | 1 086 732 |
| `pair_time` | flash swaps open, a maximum reserve of 5; a clock that wraps every 3 seconds, sums that wrap at 7 | `ReadsAreSafe`, `SharesKeepTheirGrowth` | 3 372 476 |
| `router` | three tokens, paths of one to four hops, two that visit a pair twice; permits and allowances; one pair that doubles while the protocol fee is switched on and off | `TradesAreFair`, `EveryPairGains`, `LiquidityIsSafe` | 125 120 |
| `scripts` | seven rehearsal plans, five sessions of commands in two terminals, one v1.4 launch through six blocks | `JournalIsTrue`, `RecordedHasCode`, `LaunchHolds`, `RehearsalsFinish`, `DeploysKept`, `LiftReaches` | 113 757 |
| `readers` | two workers over five blocks, two core pairs and a launch pool, two faults; three feeds of five blocks | `EveryBlockOnce`, `TapeIsComplete`, `HistoryIsWhole`, `ReadersFinish` | 1 117 285 |
| `site_forms` | fourteen pages: every form with an extension, three with the browser wallet, up to two presses and two outside events | `OnlyConfirmedSigned`, `FormsAreHonest`, `RunsEnd` | 1 008 502 |
| `site_launch` | four plans being edited, two saves of details; one file with two gateways; two tabs with one wallet record | `AllowedIsSafe`, `DetailsKept`, `ReadsEndWell`, `WalletKept` | 2 915 217 |
| `launch_fixtures` | five launches on v1.3 and v1.4 with every kind of destination, two trades each and their runs | `MarketIsSound`, `SheetsAreTrue`, `ModelsAgree`, `RunsArePaced` | 107 259 |
| `site_launch_probe` | a plan being edited while its addresses are probed | `NoneIsPaidUnchecked` (violated) | |

What they show:

* **The curve** (`CurveKeepsItsWord`). In every state a sequence of trades can leave it in,
  one sell of everything is covered by what was raised; a quote is the exact rounding
  of the product rule; the cap in the sell-out branch never binds; a round trip
  loses; cutting a trade up gains a unit at most (section 5).
* **Dividends** (`StreamNeverFails`, `NothingMadeOrLost`, `EarnsByTimeOnly`). The tracked
  eligible supply is the sum it stands for; all that was earned and all that is still to be
  paid never exceed what was distributed (V13-SPEC 6.6), and no step loses more than rounding:
  pauses, expiries and re-weighted ends included. Within a block nobody earns anything. The token
  implements `HolderDividends`: what a holder has earned it keeps and can claim.
* **Solvency** (`GraduationIsSafe`, V13-SPEC 6.1). The launchpad's USDC equals pending
  platform fees, pending creator fees and the floats of live curves, plus the
  allowance a plugin has not yet used, in every state a plugin can look at.
  `SurplusNeverPaidOut` is its counterpart when USDC arrives unasked.
* **Graduation** (`GraduationIsSafe`). Curve and token agree, the launchpad holds what it
  still has to hand over, the mint of the sell-out buy would succeed whatever outsiders did to
  the pair first, and the pool never runs dry.
* **Plugins** (`CallsKeepTheBooks`). The first buy meets an untouched curve, the books stand
  still while a plugin is paid.
* **The promise** (`SaleRefined`). Under a refinement mapping the launchpad implements
  `LaunchSale`: a token's sale opens once, trades never lower the product, the
  last token closes it, and nothing else touches it. A token whose `createToken` has
  not finished maps to an unopened sale, so a launch that is reverted never was.
* **The pair** (`PairSound`, `LiquidityLasts`, `SharesKeepTheirGrowth`, `ReadsAreSafe`). No step,
  in any order with donations, syncs, skims, fee switches and open flash swaps, makes a share
  worth less, but for the protocol's shares, which cost at most a sixth of the growth since
  `kLast`; `kLast` never runs ahead of the product, so turning the fee off and on forgets
  nothing; records stand still in a callback; what a reader extrapolates the price sums to moves
  by the price that held, for as long as it held, and by nothing within a block.
* **Paths and liquidity** (`TradesAreFair`, `EveryPairGains`, `LiquidityIsSafe`). If every hop of a
  path without a repeated pair has a quote, the swap settles; a path that visits a pair twice
  may fail, since its second visit was quoted before the first, but never takes product from
  a pair (only a removal does); an exact-output price is enough and two units less are not; what
  the site's sheets show is what the router does. There is one exception, which the property
  states: no sheet counts the shares `_mintFee` gives the protocol before a removal, so with
  `feeTo` set a position pays less than shown, by at most a sixth of the pair's growth since
  liquidity last moved and one unit, and its minimums hold while that is within the slippage.
  Whoever submits a permit first, its owner can
  remove what it was signed for.
* **Scripts**. Wherever a rehearsal is killed, what its journal says is what the chain holds;
  no step is sent twice; with a patient node it ends. A custody deployment broadcasts only
  what its fork run verified. The v1.4 launch's pool is backed, its books balance, its
  bids start under half the price a window buy started from, and batches land as planned.
* **Readers**. Every block is read once or reported missing; the tape has every trade of its
  blocks or says where it has not; a page's history has no silent hole; every load ends and a
  page catches up.
* **Forms and wallet**. Only what was confirmed is signed; a form trades what it showed and
  says what it did; with an extension wallet every run of a form ends. Nothing unsafe is allowed by the builder; a launched
  token's details stay; readers get the named bytes or an error; the only copy of a key is kept.
* **The fixture market** (`launch_fixtures`). Money and tokens are conserved; a sheet's quote, its
  refusals included, is the contract's, and the size its impact hint offers stays under the level
  it names; runs are paced, and the three writings of the same formulas (the site's, the rehearsals', the
  fixtures') agree to the unit.

**Bounds.** Supplies keep the code's proportions, `VIRTUAL_TOKENS_0 : CURVE_SUPPLY :
POOL_SUPPLY` = 16 : 12 : 3, so that a pool opens at its curve's last price. They are
small, so every rounding matters: a fee unit is a tenth of the amount instead of a
ten-thousandth, which makes dust, zero fees, and fees that eat the whole amount
ordinary cases. All USDC there is (`InitialUsdc`) and one or two trade sizes on each
side bound the state; they are chosen so that the run's user can sell the curve
out, including with an offer larger than needed, sell part or all back, graduate and go
on in the pool. One user plays every role: no action of the code depends on two users being
different, other than through their balances. `MaxVirtualUsdc` bounds the USDC reserve in
`CurveTrades`, which has no balances; `MaxReserve` is met in `pair_time` only. `Recipients`
are the addresses a trade or transfer may pay besides its caller: each run names
those that matter to its question (the pair, or the launchpad itself).

For the stream, the period is 3 seconds, the magnitude 5 and the supply 4, so every
division in it rounds in ordinary cases; blocks are 2 seconds apart, so a stream expires
between blocks and on none; a holding of one token is under `MIN_ELIGIBLE_SUPPLY` and
pauses it. `MaxTime` and `MaxDistributed` bound the clock and the USDC distributed. The two
holders are interchangeable, which the run uses as a symmetry, as `site_launch` does with its tabs.

For the pair, the tokens in existence (36 and 6 of each) bound the state. `pair_shares` pays in
lumps of 12 and withdraws 5, so that the product's root grows enough for the protocol to be given
whole shares, on mints and on burns; `pair_time` has small amounts and `MaxReserve` 5, so that
recording refuses what does not fit, the resolution 2 and small wraps, so that the clock and both
sums wrap. The swap fee is a tenth, where the code has three thousandths, so that it is felt at
these amounts. In `router`, `Holding` less what the user keeps back bounds the state: the parts that
trade along paths and that handle permits spend up to four tokens at once, the part with the
protocol fee adds four or gives eleven, so that a pair of twelve may nearly double and the protocol's
shares are more than none, and a removal pays less than its sheet showed.

For the fixture market, pool sells of 60 and 600 units are one whose fees eat a positive gross, which
every writing of the sell must refuse, and one that goes through; `PRICE_SCALE` is fine enough for
the hint to be strictly under its target.

For the scripts, plans have every step function of the three rehearsals with one destination of
each kind; the longest run without a fault, the others with one or two (`MaxFaults`), and the gas
caps are chosen to fall inside and outside batches. Two faults (`MaxTroubles`) and two bytecodes
are what the deployments need for a receipt to be stale, mismatched or lost. `MaxBlock`,
`MaxCurveTrades`, `MaxAfter`, `MaxSyncs` bound the v1.4 launch; the tick grid of 25 ticks is
wide enough for every price its amounts reach.

For the readers, two faults (`MaxFaults`, `Mishaps`) let a window be split and then refused, or a
worker retry while another moves the preferred endpoint; `MaxHead` and `DayBlocks` let the
tape's window move by a block while a market is born. For forms, `MaxAsks` is never met; the
number of presses and events per page (`runs`, `events`) is what lets two runs overlap with one
price move or a reload. For the site's launch, three edits reach every plan of two payees or
two Combo entries from the scenes it starts in.

**Deadlock** is not checked: a curve that graduated, a script that ended and a form that was
closed may all rest.

**Fairness.** The contracts have none: every step is a user's transaction, which nobody has to
send, and a revert is always possible, so what could have been liveness ("graduation can
happen") is stated as a safety property of the state (`GraduationOpen`). Elsewhere it is the
environment the code waits for and the code's own continuation:

* `ListingService`: WF on a scan's steps (each call answers or times out, each delay ends, the event
  loop runs what is ready) and on what follows a scan.
* `SiteHistory`: WF on asking again (the page's polling interval), on the explorer's answers and
  on its indexing, SF on the ten-second expiry of the kept head, which may be refreshed in
  between; and no request waits for ever (`[]<>`), as each has a timeout.
* `Rehearsal`: WF on mining, on the process's next step, and on somebody starting it again.
* `Deployments`: WF on a process's next step, on the custody service landing what it accepted and
  on the node seeing it; SF on running a failed command again.
* `SiteForms`: WF on the steps of a run, on the wallet's answer, on landing, and on the sheet that
  is open.

## 4. The proofs

`ArithmeticProofs` has what the others share: sums over finite sets (`SumChange`, by induction
over subsets as a set, since the library's induction theorems cannot be instantiated), integer
roots (`RootExists`, `RootOnce`, with the naturals as the least inductive set), products
(`ShareBought`, `ShareSold`, `ScaledProduct`), and what any accepted quote of the curve and of the
launch pool satisfies (`CalcBuyFacts`, `CalcSellFacts`, `RouterBuyFacts`, `RouterSellFacts`).

**The curve** (`TokenAndCurveProofs`), for every supply, virtual reserve, fee and amount:
`CurvesKeepTheirWord`. Its parts are lemmas about numbers: a rounded-up fee on a sum
(`FeeOnSum`), what a buy leaves (`NormalBuyLeaves`), a round trip (`RoundTrip`), two
buys and two sells against one (`TwoBuys`, `TwoSells`), the sell-out buy (`FillCoversItsFees`). The
invariant `TradesInv` is what they need of a state: tokens sold and left add up, the product has
not fallen under its start, the fees together stay under the whole.

**The launchpad** (`LaunchpadProofs`), for all tokens, holders,
plugins, supplies, fees and amounts. `Invariance` is `Spec => []IInv`, with
`IInv == BooksOK /\ AdminOK /\ CallOK`. None of its parts is inductive alone: that a sell leaves
the USDC reserve a natural number needs the curve's shape; that the shape survives needs the
type of the numbers and that the creator fee is within its cap; that a pair's balance
covers its reserves needs the ledgers' types; and because `RevertCall` restores
`saved`, the same must be known of the state an open call would return to (`SavedOK`).
From it `TypeCorrect`, `CurvesKeepShape`, `PairsBacked` and their conjunction `BooksAreSound`.
On top of it, each with the part of the saved state that `RevertCall` needs:

* `SolventInv` (no allowance outside a call, a surplus that is never negative): `Solvent`,
  `SurplusStays`, and `ExactBooks` where nobody sends the launchpad USDC unasked;
* `OrderInv` (which tokens are where before, in and after graduation; an open launch leaves its
  curve untouched): `CallsSafe`, `Inventory`, `PoolsOpenLast`;
* `LiquidInv`: `PoolsLast`, `SharesKeepWorth`, `NeverBlocked`; with the others, `GraduationSafe`;
* `Implementation`: the refinement of `LaunchSale`, initial states to initial states and each
  step to a step or a stutter.

`GraduationSafe` and `ExactBooks` have the hypothesis `Pad \notin Recipients`, that no
transfer of the model is addressed to the launchpad itself: with such gifts the books
are not exact, and `SurplusStays` says what holds instead.

**The launch token** (`TokenAndCurveProofs`), for all holders, amounts, periods and magnitudes:
`TokenInvariance` with `IInv` (types, `EndsWithinPeriod`, `ClaimsCovered`) and `TotalsInv` (the
eligible supply is the sum of the eligible balances; what is not claimed is held), hence
`StreamSafe`, `StreamBounded`, `ClaimsNeverRevert`, `NothingEarnedInABlock`, `BooksKept` and
`Refinement`. Claims stay covered because an accrual only raises the per-share value
(`AccruedOK`) and a move keeps `perShare * bal + corrections` of both sides (`UpdateLedger`).

**The pair** (`ArchitexPairProofs`), for all accounts, amounts, fees, wraps and resolutions:
`PairSolvent`, `KLastNeverAhead`, `PairIsSound`, `LockHolds`, `PricesFollowTime`, `SafeToRead`,
`QuotedSwapsSettle`, `SqrtExact`, `LiquidityStays`, `GrowthStays`. `IInv` says that the pool is
`Sound` but for what is lent, that what is lent was within its reserves, and that the state a flash
swap would return to is sound and has the same reserves; `ShareInv` adds whose the supply is. The
heart is `SettledProduct`: the fee-adjusted check implies that the balances' product is at least
the reserves', whatever came in and on whichever side.

**The router** (`ArchitexRouterProofs`), for all tokens, users, amounts and paths of any length:
`RouterInvariance`, `LiquidityStaysSafe`, `PairsGain`, `QuotesAlwaysHold`, `TradesStayFair`. `IInv` has a part for
each account the router touches: a pair holds at least the reserves it has recorded
(`PoolsSound`), all of a token is in wallets and pairs, so that the router keeps none
(`TokensSound`), the shares add up to the supply and the dead address has its minimum
(`SharesSound`), a used permit's signature is the allowance until something draws on it
(`PermitsSound`). Each needs the others: a removal is paid from the balances because the shares
burned are part of the supply, and the balances cover the reserves because what a transfer takes
from one account it adds to another. TLC checked it on the run. Quotes are proved from one notion, a
`Fair` trade, for which the pair's fee-adjusted check leaves room: `getAmountOut` gives the most that is fair
(`FairOut`), `getAmountIn` asks enough and not two units too much (`FairIn`, `PricesTight`), and a
fair trade passes the check whatever was given to the pool before (`FairSettles`). A path is an
induction over its hops, in which the pairs still waiting are as they were quoted.

The protocol's shares are part of it: `feeTo` is nobody or one who can hold shares (`FeeToKnown`),
so what a mint or burn gives it is in both the supply and the books (`FeeMoves`), and it is at
most a sixth of the growth (`FeeSharesAre`), which bounds what a removal's payment can be short of
(`PaidPart`, `PaidMin`).

`TradesStayFair` adds the site's sheets (`AmmQuotes`) to the router. Its invariant `OnlyMadeTraded`
says that a pair with a price was made, so that a route the sheet prices is one the router finds.
The sheet's arithmetic is the router's wherever both reserves are positive (`SheetOutsAgree`,
`SheetInsAgree`), bounds with slippage leave room for the quote itself (`SlippageBounds`), of the at
most two candidate paths the chosen one is at least as good as the other, and more deposited never
mints fewer shares, because the sheet's Newton iteration is the integer root (`NewtonRoot` of
`ArithmeticProofs`, shared with the pair's `SqrtExact`).

**The listing service** (`ServiceAndScriptProofs`), for any number of workers, endpoints and
attempts, any window and range, and whatever is answered when: `BlocksReadOnce`. The property
speaks of tagged pieces; `Once` says the same of four sets of blocks (read, queued, asked
for, given up) and is inductive with the types, the fact that a scan that is over has an empty
queue, and what a load and a tape hold (`ServiceInv`: a new scan starts over ranges of integers
that an earlier one reported missing). It rests on what `Windows` and `MergeRanges` return
(`WindowsCut`, `Merged`) and on a set of numbers having an i-th member (`Ranks`).

**The forms, the wallet, the files and the launch** (`SiteProofs`), for every form and wallet, any number of presses,
requests and outside events, all prices, fees and tolerances: `ConfirmedOnly` and `HonestForms`.
The properties speak of a deal or a status at the end of a chain of awaits, so the invariant has to
say what each link still knows. `WalletInv`: what a stage says of a request (a shown
request has no signer; a signer in the browser wallet means that this request's own sheet was
confirmed; an unlock under way belongs to a confirmed request), which survives the late unlock that
closes another request's sheet. `RunsInv`: what a run keeps of the render it was started in (its
bound is the quote's, its impact tier was acknowledged), and that what carries out the form's
purpose is the last thing a run asks for, so that it is asked for once. `PageInv`: a tick was read
beside its sentence, what landed is a deal, a status speaks of its own run, and a form that takes one
press at a time shows its run until it has ended. TLC checked the invariant on the run's
pages before it was proved.

The stored wallet, for any tabs, prompts and passwords: `WalletStays`. `RecordOpens` speaks of what
is stored; `OpensInv` says it already of what a job is about to store (a seal from a password or a
passkey that exists with the tag of its kind), because passkeys are only ever added. That no sole
copy is written over rests on `HeardInv`: a tab that heard of every store sees the record there is, so a
wallet begun in it finds none, and one begun before the last store is not among "had heard of it".

The verified reads, for any gateways and retries: `ReadsEnd`. `AttemptInv` says what the shared
attempt is reading and whose visit it belongs to, `PassedInv` that the gateways it has passed did
not have the file unless a request was lost; so an attempt that ends with neither the file nor its visit having left has
asked them all, and a visit that tries again asks them in an attempt of its own. It needs at least one retry (`FilesAssumption`): with none, a visit left with another's aborted
attempt would give up.

A launch's details, for any texts, limits on uploads and length of the day, and any number of saves,
losses and clean-ups: `DetailsStayKept`. `DetailsInv` follows a pin by the number of the save that made it.
Nothing is pinned or listed for removal under a number still to be used (`NumbersOwn`), so a
roll-back removes pins of its own save only, though another save may have the same picture. An answered save is
`Secure` while a day from it has not passed, because the clean-up lists what is older; and for good once a token
names it, because between the clean-up's two reads no time passes (`SweepOK`): a token it missed landed
just now, so its pins are less than a day old or its details were saved more than a day before. TLC found
`DetailsInv` to hold on the run's 2 005 716 states of the launch form before it was proved.

What the launch form lets through, for any texts, plugins, limits and shares: `AllowedStaySafe`.
`AllowedInv` says that the picker holds a plan of the shape `Plans`, whatever was chosen, edited and left as a
draft, and that a press holds one that launches safely. The step that matters is the press: the addresses the page
asks about are all the plan's (`AskedAll` with `FlattenedAll`, an induction over the rows), what is known of each
is then what the chain has there (`FactsTell`), so each destination the check let through is paid as it
should be (`TargetIsSafe`) and a Combo is accepted with all its entries (`ComboIsSafe`). The theorem
speaks of answers for the list itself; that the page may show another list's is the finding of section 5.
TLC found `AllowedInv` to hold on the same states before it was proved.

**The deployment scripts** (`ServiceAndScriptProofs`), for any terminals, commands, bytecodes and
lives of a receipt: `RecordedExists`, `CustodyVerified`. `DeployInv` says of each process
which request of its own it waits for (`Awaits`; a request stays until its process has the answer), that what
it is about to record exists (`ToRecord`), that what it read back of the file exists though another terminal writes
the file meanwhile, and that behind the gate it carries what the receipt vouched for
(`Vouched`); of a receipt, that it is no younger than the run on a fork it describes (`ReceiptInv`).
TLC found it to hold on the run before it was proved.

**The histories** (`ServiceAndScriptProofs`), for any chain, page size, window, number of pages and windows, failures and
logs shown: `HistoriesAreWhole`. `HistoryInv` says of what a poll carries what `HistoryIsWhole` says of what is kept and
shown: the history it starts from is one the explorer could have given by now (`HistoryOf`), the tail it took up
ends where the head it asked for does or before (`TailingOf`), and the page it was answered has every log up to the
block the explorer had then indexed if it calls itself complete (`CoversUpTo`); the same holds of the read left
behind, so that whichever writes last writes something whole. The lemmas under it say what a read returns: `HistoryReads` that pages read down to the history kept
join it without a hole, `RangeReads` what the windows of the RPC cover, `TailReads` that the newer and the older
blocks join the tail, `LineBetween` that an interpolated time, rounded to the second, stays between its neighbours'
and in order. TLC found `HistoryInv` to hold on the run's 1 117 285 states before it was proved.

**The rehearsals' journal** (`RehearsalProofs`), for any script, gas cap and number of
interruptions and faults: `JournalHolds`. `JournalIsTrue` speaks of what landed; its invariant `RInv`
follows a transaction from before it was signed. What lies behind the process in the script is *settled*
(`ProgressInv`): a run that comes back to it sends nothing. What the driver signed stays *in sight* (`SightInv`): recorded,
pending in the journal, or given up on; a nonce lands once (`LandedInv`), so a recorded transaction leaves the pending
ones without losing another. It was signed *in its turn* (`TurnInv`), with all that its script has before it
settled, which is why a call that landed cannot bar the next one (`Ready`); and when it was signed no copy of it was
recorded or waiting (`HandInv`, `OnceInv`) and all that is paid or may have to be was counted (`CapInv`). That
recovery empties the journal before anything is sent makes the worst case of `spentWei` complete. TLC
found `RInv` to hold on every script of the run before it was proved.

**Assumptions.** `FeeAssumption`: `0 < FEE_BPS < BPS`. `CurveAssumption`: the curve sells
less than its virtual reserve, creator and platform fees together are under 100 %. `PoolAssumption`:
finite sets of tokens, users and plugins, distinct addresses, distinct pairs.
`LaunchpadAssumption`: positive starting reserves, platform fee plus the highest creator fee under
100 %. `OpeningAssumption`: the pool supply times the USDC a sold-out curve has raised is at least
`(MINIMUM_LIQUIDITY + 1)^2`, so that the opening mint gives somebody something. `TokenAssumption`: distinct addresses, positive period, minimum and magnitude.
`RouterAssumption`: finitely many tokens, users and treasuries, distinct addresses, no removal above an
unlimited allowance, no hop of a token with itself. `QuotesAssumption`: USDC is a token, a slippage is part of a positive
denominator. `PairMathAssumption`: the swap fee is under 100 %. `PairAssumption`: the pair and the dead address
hold LP under names of their own, clock and sums have a positive range. `ScanAssumption`: at least
one worker, endpoint and attempt, windows of at least a block. `ListingAssumption`: markets
and the router are different addresses. `OwnersAssumption`: no record is not an address.
`FormsAssumption`: pages are of the forms there are, prices positive, fees and tolerance natural.
`CreateAssumption`: a day and a number of uploads are positive, a form starts from a plan the picker can hold, the connected
wallet is an account and none of the contracts around it. `FeePlans`' assumption: its plugins are listed ones, its limits positive. `VaultAssumption`: the bounds and the passwords are numbers. `FilesAssumption`: a sequence of gateways, at least one
retry. `HistoryAssumption`: page sizes and numbers of pages, windows and logs shown are positive, the launch was created on the
chain and its launchpad logged no trade of it before. `AgesAreNumbers`: a receipt's life is a natural number.
`PlansAssumption`: steps have ids and their calls names of their own, recovery comes before the first transaction, what
is sent back to back is not optional, a noted call is alone in its step, and a call comes after what it needs and before what
bars it; TLC evaluates it for the scripts that are driven and for the scripts with all their tokens (`FullPlansAssumption`).
All hold of the code's constants, and TLC evaluates
each with the run's.

**Model-checked only.** Liveness under fairness (`ReadersFinish`, `RehearsalsFinish`, `RunsEnd`, the
second half of `DeploysKept`) and the recursive computations (`LaunchFixtures`' roots, `V4Math`'s
swaps) are out of the prover's reach. `TapeIsComplete` would need an assumption the code does not
justify: a day with more than `MAX_TRADES_KEPT` trades does lose the oldest. Of the site, the quotes, the forms, the browser
wallet, the verified reads, the histories, a launch's details and what the launch form allows are
proved; the fixture market (`MarketIsSound`, `SheetsAreTrue`) and v1.4's launches (`LaunchHolds`) are model-checked. Of the
scripts, the rehearsals' journal and the deployments are proved, the models of a launch (`ModelsAgree`) are model-checked.

## 5. Findings

**With a run.** `site_launch_probe`: while a new list of addresses is probed,
`useDestinationProbe.ts:62` keeps the previous list's answers by row, so a row that
moved counts as checked; the comment at :32-33 says an address stays unchecked until its
answers are in.

**Met while proving.** `CurveKeepsItsWord` used to say that splitting a sell never
pays. The proof failed for a good reason: with fees of 1 % and 3 % on ten-thousandths, selling
488 and then 498 of a curve with 1 941 : 1 403 pays 480 + 288 where one sell of 986 pays 767,
because one more unit of gross raises both rounded-up fees. TLC's small curve has no such
case. The property now allows that one unit, and `TwoSells` proves it is never more; nothing in
the documentation claims otherwise (V13-SPEC 6.4 speaks of round trips).

`QuotedPathsSettle` and `SwapsAsQuoted` did not say that what a pair is left with must fit its uint112 reserves, without
which `_update` reverts a quoted swap (`ArchitexPair.sol`). TLC's amounts never come near; the proof
asked for it, and both have it as `Recordable`.

The labels of the five buttons of `SiteForms` were CASE expressions whose arms overlapped. TLC
takes the first arm, but TLA+ leaves the choice open, and nothing can be proved of it: they
are IF chains now, in the order of the code's early returns. So are `CreateTokenAccepts` and
`PaidPlainly` of `FeePlans`, where the same was found.

**Met while modelling, without a run of their own.**

* `deepen-rehearsal.ts:792` (settler at 1188) sends again what an earlier run mined, while :25-26
  says that a re-run never re-sends a mined transaction.
* `v14-rehearsal.ts:1067` says of a batch that "none is lost or repeated"; recovery gives up
  after forty polls.
* `compass-deploy.ts:1168` compares the artifact's path (`buildDeploymentConfig`, 635-649) where
  :172-173 promise a comparison of bytecode and constructor arguments.
* `service.ts:222`: a failed range is retried for the sources of today's snapshot, while :233
  keeps earlier sources as covered; :72 and :77 promise completeness for them. `unlisted` in
  `ListingService` is the history of the markets this concerns.
* `rpc.ts:100` counts attempts from an index other requests move, so a retry may ask the
  endpoint that just failed; :15 says that a retry moves to the next one.
* `UnlockSheet.tsx:135-136` calls `onDone` after its await, which closes the sheet whichever request
  it shows by now: the late unlock of a cancelled request closes the next one's sheet, where
  `unlock.ts:7-8` says one at a time, in order of arrival.
* `useLaunchTrades.ts:72-86` reads two sources at once and may join two different heads; see :190.
* `metadata-cleanup.ts:62-65` never reads v1.4's launchpad; :11-13 says a pin goes only when no token on any
  deployed launchpad names it.
* `ConnectSheet.tsx:214-219` guards one sheet, not the wallet; see `DESIGN.md:426`.
* `ArchitexLaunchpad.sol:298`: a token may name the pair of a later launch as its destination, its
  address being predictable; `IArchitexLaunchpadLite.sol:14` says fees never go to a launch pair
  (accepted in V13-SPEC section 9).
* `PositionRow.tsx:39` and the minimums of `useLiquidity.ts` count the recorded supply, without the
  shares `ArchitexPair.sol:227` mints the protocol first when `feeTo` is set; `PRODUCT.md:40` keeps
  it off. `PositionsPayWhatTheyShow` says by how much a payment may then fall short.

## 6. The plan

Done: every module of section 2, the runs of section 3, the theorems of section 4. Left, in
the order of what they say about the system:

1. The v1.3 plugins from their Solidity on a small interface of `Launchpad`, in place of the
   TypeScript writings of their arithmetic; the registry and setters of v1.4.

## 7. Not modelled, and why

Slippage bounds, deadlines, names, events and views (section 2). Read-only helpers,
deployment and test contracts: no state of the system's own. The Solidity of the fee plugins and of
v1.4, whose arithmetic is modelled from the TypeScript that restates it to the unit; the
fee distributors, whose arithmetic is a Split's. Formatting, rendering and preferences of the
site. Key cryptography (a key is what opens it). Vendored and generated files. USDC, the chain,
Circle's services, the explorer and RPC nodes are external and modelled by how the code uses them.

A hazard without a property has its reason in `PROJECT.json`. Others that were seen and are not
listed there: an artifact changed between its check and its use, a polling timeout followed by a
second deployment (`compass-deploy.ts:1143`), two terminals rewriting one metadata file
(464-503), a private-key deployment retried after a transient error (1005); a page left open for
more than a day while the clean-up runs (`metadata-cleanup.ts:11`), a rollback that unpins a shared
file (`metadataService.ts:133`); a double click that sends two trades (`useSwap.ts:198`,
`useLaunchTrade.ts:310`); a receipt wait that times out while the transaction lands
(`useSwap.ts:164`); a stale tab that forgets or reveals (`ConnectSheet.tsx:335`, 355-357).
