--------------------------- MODULE ListingService ---------------------------
(* The listing API's memory (server/listing/service.ts): the markets it read   *)
(* last, and the tape, the last day of trades, extended block by block by one  *)
(* load at a time for however many requests wait for it.  The logs a load      *)
(* needs are read by the scans of LogScan.                                     *)
(* A block's time is its number and one day is DayBlocks blocks.  A trade is a *)
(* market and a block: each market trades once in every block since it         *)
(* exists.  A market is a core pair, whose own logs hold its trades, or a      *)
(* launch pool, whose trades are in the launch router's logs.                  *)
EXTENDS LogScan

CONSTANTS
  Cores, Pools,   \* core pairs; graduated launches
  Router,         \* the launchpad and the launch router, whose logs are read together
  Born,           \* the block each market is created in
  MayFail,        \* markets whose page of the lens may fail to answer
  DayBlocks,      \* the window tickers cover
  MAX_TRADES_KEPT,
  MaxHead         \* bound: blocks

ASSUME ListingAssumption ==
  /\ Cores \intersect Pools = {} /\ Router \notin Cores \union Pools
  /\ Born \in [Cores \union Pools -> Nat]
  /\ DayBlocks \in Nat \ {0} /\ MaxHead \in Nat

VARIABLES
  head,       \* the newest block an endpoint has served
  snapshot,   \* the last markets read, or None
  tape,       \* the kept trades, or None
  load,       \* the load under way, or None
  unlisted    \* history: markets a load did without although the tape covers them

vars == <<scanVars, head, snapshot, tape, load, unlisted>>

None == [none |-> TRUE]
Markets == Cores \union Pools
Max2(a, b) == IF a > b THEN a ELSE b

-----------------------------------------------------------------------------
(* readSnapshot: the markets that exist at the block and whose page answered. *)
SnapshotAt(block, failed) ==
  LET seen == {m \in Markets \ failed : Born[m] <= block}
  IN  [block |-> block,
       cores |-> seen \intersect Cores,
       launches |-> seen \intersect Pools,
       problems |-> failed # {}]

TradeSources(snap) == snap.cores \union (IF snap.launches = {} THEN {} ELSE {Router})

(* A launch router's trade is kept only for a launch the snapshot lists. *)
ReadTrades(blocks, addresses, snap) ==
  LET readable == (addresses \intersect snap.cores)
                    \union (IF Router \in addresses THEN snap.launches ELSE {})
  IN  {t \in readable \X blocks : Born[t[1]] <= t[2]}

\* The last n trades in the order of the chain.
Newest(trades, n) ==
  {t \in trades : Cardinality({s \in trades : s[2] > t[2]}) < n}

-----------------------------------------------------------------------------
(* currentSnapshot: read at a block no older endpoint has served, or, from an *)
(* endpoint that is behind, at an older one.  A read that throws leaves the    *)
(* last good one in use.                                                       *)
CurrentSnapshot(block, failed) ==
  /\ head' = Max2(head, block)
  /\ snapshot' = SnapshotAt(block, failed)
  /\ faults' = IF block < head \/ failed # {} THEN faults + 1 ELSE faults
  /\ faults' <= MaxFaults
  /\ UNCHANGED <<span, queue, size, at, got, missing, overdue, preferred>>
  /\ UNCHANGED <<tape, load, unlisted>>

Covered(snap) == TradeSources(snap) \subseteq tape.sources

\* A scan over no addresses answers at once with nothing.
Job(addresses, from, to) == [addresses |-> addresses, from |-> from, to |-> to]

\* Fault: a new pool is read from the next block on only.
JobsWithoutOlder(snap) ==
  LET sources == TradeSources(snap)
      again == [i \in DOMAIN tape.missing |->
                  Job(sources, tape.missing[i].from, tape.missing[i].to)]
      newer == IF snap.block > tape.to
               THEN <<Job(sources, tape.to + 1, snap.block)>> ELSE <<>>
  IN  IF sources = {} THEN <<>> ELSE again \o newer

(* The scans one load makes, in order: a pool that appeared since the tape     *)
(* began over the whole tape, what an earlier load could not read, the new     *)
(* blocks.                                                                     *)
JobsFor(snap) ==
  LET sources == TradeSources(snap)
      added == sources \ tape.sources
      older == IF added = {} THEN <<>> ELSE <<Job(added, tape.from, tape.to)>>
      again == [i \in DOMAIN tape.missing |->
                  Job(sources, tape.missing[i].from, tape.missing[i].to)]
      newer == IF snap.block > tape.to
               THEN <<Job(sources, tape.to + 1, snap.block)>> ELSE <<>>
      jobs == older \o again \o newer
  IN  IF sources = {} THEN <<>> ELSE jobs

FirstJobs(snap) ==
  IF TradeSources(snap) = {} THEN <<>>
  ELSE <<Job(TradeSources(snap), Max2(0, snap.block - DayBlocks), snap.block)>>

Loading(snap, jobs) ==
  [snap |-> snap, jobs |-> jobs, trades |-> {}, missing |-> <<>>]

(* Markets a load from this snapshot reads nothing for, although the tape      *)
(* covers, or is about to cover, the logs their trades are in.                 *)
Unlisted(snap) ==
  LET covered == TradeSources(snap) \union (IF tape = None THEN {} ELSE tape.sources)
  IN  {m \in Markets \ (snap.cores \union snap.launches) :
         m \in covered \/ (m \in Pools /\ Router \in covered)}

(* The ranges that reach a block, in their order. *)
Reaching(ranges, block) ==
  LET kept == {i \in DOMAIN ranges : ranges[i].to >= block}
  IN  [j \in 1 .. Cardinality(kept) |-> ranges[Nth(kept, j)]]

(* What a load leaves: the first one makes the tape, a later one extends it. *)
TapeAfter(snap, trades, missed) ==
  LET windowStart == snap.block - DayBlocks
      firstKept == snap.block - DayBlocks
      made == IF tape = None
              THEN [from |-> Max2(0, windowStart), to |-> snap.block,
                    trades |-> trades, missing |-> missed,
                    sources |-> TradeSources(snap)]
              ELSE [from |-> Max2(firstKept, tape.from),
                    to |-> Max2(snap.block, tape.to),
                    trades |-> {t \in tape.trades \union trades : t[2] >= windowStart},
                    missing |-> Reaching(missed, firstKept),
                    sources |-> tape.sources \union TradeSources(snap)]
  IN  [made EXCEPT !.trades = Newest(@, MAX_TRADES_KEPT)]

(* recentTape: the tape answers alone when it is complete, covers every source *)
(* and is fresh or not behind; otherwise one load starts, and everyone who     *)
(* asks meanwhile waits for it.                                                *)
StartLoad ==
  /\ snapshot # None /\ load = None
  /\ tape # None => \/ tape.to < snapshot.block
                    \/ tape.missing # <<>>
                    \/ ~Covered(snapshot)
  /\ LET jobs == IF tape = None THEN FirstJobs(snapshot) ELSE JobsFor(snapshot)
     IN  IF jobs = <<>>
         THEN /\ tape' = TapeAfter(snapshot, {}, <<>>)
              /\ UNCHANGED <<scanVars, load>>
         ELSE /\ load' = Loading(snapshot, jobs)
              /\ ScanOf(jobs[1].from, jobs[1].to)
              /\ overdue' = FALSE
              /\ UNCHANGED <<tape, preferred, faults>>
  /\ unlisted' = unlisted \union Unlisted(snapshot)
  /\ UNCHANGED <<head, snapshot>>

Late ==
  /\ load # None /\ ~overdue
  /\ overdue' = TRUE
  /\ UNCHANGED <<span, queue, size, at, got, missing, preferred, faults>>
  /\ UNCHANGED <<head, snapshot, tape, load, unlisted>>

Scan ==
  /\ load # None
  /\ \E w \in Workers : ScanStep(w)
  /\ UNCHANGED <<head, snapshot, tape, load, unlisted>>

LoadedTrades ==
  load.trades \union ReadTrades(got, Head(load.jobs).addresses, load.snap)
LoadedMissing == load.missing \o MergeRanges(missing)

NextScan ==
  /\ load # None /\ ScanOver /\ Len(load.jobs) > 1
  /\ load' = [load EXCEPT !.jobs = Tail(@), !.trades = LoadedTrades,
                          !.missing = LoadedMissing]
  /\ ScanOf(load.jobs[2].from, load.jobs[2].to)
  /\ UNCHANGED <<overdue, preferred, faults>>
  /\ UNCHANGED <<head, snapshot, tape, unlisted>>

FinishLoad ==
  /\ load # None /\ ScanOver /\ Len(load.jobs) = 1
  /\ tape' = TapeAfter(load.snap, LoadedTrades, LoadedMissing)
  /\ load' = None
  /\ span' = Stretch(0, -1) /\ got' = {} /\ missing' = <<>>
  /\ size' = WindowBlocks /\ overdue' = FALSE
  /\ UNCHANGED <<queue, at, preferred, faults>>
  /\ UNCHANGED <<head, snapshot, unlisted>>

-----------------------------------------------------------------------------
Init ==
  /\ span = Stretch(0, -1) /\ queue = <<>> /\ size = WindowBlocks
  /\ at = [w \in Workers |-> Done]
  /\ got = {} /\ missing = <<>> /\ overdue = FALSE /\ preferred = 0 /\ faults = 0
  /\ head = DayBlocks
  /\ snapshot = None /\ tape = None /\ load = None /\ unlisted = {}

Next ==
  \/ \E block \in head - 1 .. MaxHead, failed \in SUBSET MayFail :
       CurrentSnapshot(block, failed)
  \/ StartLoad \/ Late \/ Scan \/ NextScan \/ FinishLoad

(* A load goes on once it has started: each call answers or times out, each   *)
(* delay ends, and the event loop runs what is ready.                         *)
Spec == Init /\ [][Next]_vars /\ WF_vars(Scan) /\ WF_vars(NextScan \/ FinishLoad)

-----------------------------------------------------------------------------
TapeMissing == UNION {Blocks(tape.missing[i]) : i \in DOMAIN tape.missing}

Sourced(m) == m \in tape.sources \/ (m \in Pools /\ Router \in tape.sources)

AllThere(m) ==
  \A b \in tape.from .. tape.to :
    b >= Born[m] => <<m, b>> \in tape.trades \/ b \in TapeMissing

(* The tape has every trade of its blocks or says which blocks it could not    *)
(* read, for every market that no load did without once the tape covered it    *)
(* (service.ts:182-245): also one that was created, or whose page answered,    *)
(* only after the tape began, whose earlier blocks the next load reads; and    *)
(* whichever loads failed, came late or were retried in between.               *)
TapeIsComplete ==
  tape # None => \A m \in Markets \ unlisted : Sourced(m) => AllThere(m)

(* Every load ends, complete or partial, so the requests that wait for it are  *)
(* answered and the next load can start (service.ts:240-242).                  *)
LoadsEnd == load # None ~> load = None
==============================================================================
