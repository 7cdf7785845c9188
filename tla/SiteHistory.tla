----------------------------- MODULE SiteHistory -----------------------------
(***************************************************************************)
(* How the site reads what happened on the chain: a launch's trades        *)
(* (hooks/useLaunchTrades.ts) and a pair's prices (usePriceHistory.ts),    *)
(* from the explorer while it is current (lib/explorerLogs.ts), with the   *)
(* blocks it has not indexed yet from the RPC (lib/logTail.ts), or from    *)
(* the RPC alone when the explorer does not answer (lib/rpcLogs.ts).       *)
(*                                                                         *)
(* A block has at most one log of the feed's address and topic, so a log   *)
(* is its block and a list of logs, newest first, a set of blocks.  A      *)
(* block never changes once it is there, so a read of several pages or     *)
(* windows is one step where only its first page, or its end, can tell.    *)
(***************************************************************************)
EXTENDS Integers, FiniteSets, FiniteSetsExt

CONSTANTS
  Feeds,                   \* "trades" and "prices", each over a chain: what its
                           \* blocks hold, "none", "other" or "ours"
  Created,                 \* the block the launch was created in
  PageRows,                \* rows of an explorer page (50 in the code)
  MaxPages, MaxShown,      \* EXPLORER_PAGES; MAX_TRADES or MAX_POINTS
  WINDOW, MaxTailWindows, RpcWindows, MaxTailLogs, HEAD_TOLERANCE,
  LastBlock, Mishaps       \* bounds of the model: blocks, failed requests

ASSUME HistoryAssumption ==
  /\ {PageRows, MaxPages, MaxShown, MaxTailWindows, RpcWindows, Created} \subseteq Nat \ {0}
  /\ {WINDOW, MaxTailLogs, HEAD_TOLERANCE, LastBlock, Mishaps} \subseteq Nat /\ Created <= LastBlock
  /\ \A f \in Feeds : /\ f.of \in {"trades", "prices"} /\ DOMAIN f.chain = 1..LastBlock
                      /\ f.of = "trades" => \A b \in 1..(Created - 1) : f.chain[b] # "ours"

VARIABLES
  feed, chain,   \* what is read; what the blocks hold
  top,           \* the chain's newest block
  indexed,       \* the explorer's
  cache,         \* the explorer history kept, or NoHistory
  tail,          \* the RPC's blocks kept, or NoTail
  heads,         \* the indexed head kept ten seconds, Asked, or Unknown
  reader,        \* the poll under way
  late,          \* a read left behind by an earlier one
  shown,         \* what the page shows: the last answer
  mishaps

hVars == <<feed, chain, top, indexed, cache, tail, heads, reader, late, shown, mishaps>>

NoHistory == [logs |-> {}, complete |-> FALSE, newest |-> 0]
NoTail == [from |-> 1, to |-> 0, logs |-> {}, reachedStart |-> FALSE]
Unknown == -1
Asked == -2

TimeOf(block) == block \div 2

\* Every row the explorer lists for the address and topic, and those of the feed.
Rows(from, to) == {b \in (from..to) \cap DOMAIN chain : chain[b] # "none"}
Wanted(from, to) == {b \in Rows(from, to) : feed = "prices" \/ chain[b] = "ours"}

Least(S, n) == {b \in S : Cardinality({c \in S : c < b}) < n}
Latest(S, n) == {b \in S : Cardinality({c \in S : c > b}) < n}

\* Only the trades of a launch stop at so many, or at its creation.
Full(logs) == feed = "trades" /\ Cardinality(logs) >= MaxShown
\* Strictly older: the creation block shares its second with the next ones.
BeforeCreation(block) == feed = "trades" /\ TimeOf(block) < TimeOf(Created)

-----------------------------------------------------------------------------
(* The explorer's history. *)

\* The rows of the first pages, when the explorer has indexed up to a block.
FirstPages(upTo, pages) == Latest(Rows(1, upTo), pages * PageRows)

\* Fault: a history that is complete is not read again.
HistoryForGood(known, upTo) ==
  LET scanned == FirstPages(upTo, MaxPages)
  IN  IF known.complete \/ scanned = {} THEN known
      ELSE [logs |-> scanned \cap Wanted(1, upTo), complete |-> scanned = Rows(1, upTo),
            newest |-> Max(scanned)]

(* fetchLogHistory: page after page until a row of the history kept, one   *)
(* from before the contract, the last page, enough logs, or no more pages. *)
(* Only a read that got down to the history kept is joined to it.          *)
HistoryAfter(known, upTo) ==
  LET all == Rows(1, upTo)
      stops == {b \in all : b <= known.newest \/ BeforeCreation(b)}
      Kept(rows) == rows \cap Wanted(1, upTo)
      Above(rows) == IF rows \cap stops = {} THEN rows ELSE {b \in rows : b > Max(rows \cap stops)}
      ends == {p \in 1..MaxPages :
                 \/ p = MaxPages \/ FirstPages(upTo, p) = all
                 \/ FirstPages(upTo, p) \cap stops # {}
                 \/ Full(Kept(FirstPages(upTo, p)))}
      scanned == FirstPages(upTo, Min(ends))
      stop == IF scanned \cap stops = {} THEN 0 ELSE Max(scanned \cap stops)
      fresh == Above(scanned)
      reachedKnown == stop # 0 /\ stop <= known.newest
      logs == Kept(fresh) \cup (IF reachedKnown THEN known.logs ELSE {})
  IN  [logs |-> IF Full(logs) THEN Latest(logs, MaxShown) ELSE logs,
       complete |-> \/ Full(logs)
                    \/ IF reachedKnown THEN known.complete ELSE stop # 0 \/ scanned = all,
       newest |-> IF fresh = {} THEN known.newest ELSE Max(fresh \cup {known.newest})]

-----------------------------------------------------------------------------
(* Blocks from the RPC. *)

(* readRange: windows from the newest block down, until the range is       *)
(* covered, the launch is younger, the logs with those held are enough, or *)
(* the windows are spent.                                                  *)
ReadRange(from, to, windows, held, mayStop) ==
  LET Low(n) == Max({from, to - n * (WINDOW + 1) + 1})
      Young(n) == mayStop /\ BeforeCreation(Low(n))
      last == Min({n \in 1..windows :
                     \/ Low(n) = from \/ Young(n) \/ n = windows
                     \/ mayStop /\ Full(held \cup Wanted(Low(n), to))})
  IN  IF to < from \/ windows = 0
      THEN [lowest |-> to + 1, covered |-> to < from, reachedStart |-> FALSE, used |-> 0]
      ELSE [lowest |-> Low(last), covered |-> Low(last) = from, reachedStart |-> Young(last), used |-> last]

TailOf(range, to) ==
  [from |-> range.lowest, to |-> to, logs |-> Wanted(range.lowest, to),
   reachedStart |-> range.reachedStart]

\* Fault: the new blocks are put on the kept tail whether all were read or not.
NewerOnTop(kept, newer, hd) ==
  [kept EXCEPT !.to = hd, !.logs = @ \cup Wanted(newer.lowest, hd)]

(* The blocks since the last read go on top of the kept tail; if they could    *)
(* not all be read they start a new one, and the kept one, which would     *)
(* have a hole above it, is dropped.                                       *)
WithNewer(kept, newer, hd) ==
  IF newer.covered THEN [kept EXCEPT !.to = hd, !.logs = @ \cup Wanted(kept.to + 1, hd)]
  ELSE [TailOf(newer, hd) EXCEPT !.reachedStart = FALSE]

(* withRpcTail, the explorer being behind: the kept tail, unless the       *)
(* explorer has caught up past it, with the new blocks on top; then, or if *)
(* there is none, down towards what the explorer has indexed.              *)
TailAfter(kept, hi, hd) ==
  LET gapStart == hi + 1
      usable == kept # NoTail /\ kept.to + 1 >= gapStart
      newer == ReadRange(kept.to + 1, hd, MaxTailWindows, {}, FALSE)
      grown == IF kept.to < hd THEN WithNewer(kept, newer, hd) ELSE kept
      budget == MaxTailWindows - (IF kept.to < hd THEN newer.used ELSE 0)
      older == ReadRange(gapStart, grown.from - 1, budget, grown.logs, TRUE)
  IN  IF ~usable THEN TailOf(ReadRange(gapStart, hd, MaxTailWindows, {}, TRUE), hd)
      ELSE IF grown.reachedStart \/ grown.from <= gapStart \/ Full(grown.logs) \/ budget = 0
        THEN grown
      ELSE [grown EXCEPT !.from = older.lowest, !.reachedStart = older.reachedStart,
                         !.logs = @ \cup Wanted(older.lowest, grown.from - 1)]

-----------------------------------------------------------------------------
(* Times. *)

(* fillTimes: the newest untimed blocks but one, and the oldest, are read; *)
(* a block between two known times is placed on the line between them, to  *)
(* the nearest second.                                                     *)
FillTimes(logs, known, max) ==
  LET untimed == logs \ known
      read == Latest(untimed, Max({1, max - 1})) \cup Least(untimed, 1)
      anchors == known \cup read
      Between(b) ==
        LET low == {a \in anchors : a < b}
            high == {a \in anchors : a > b}
            below == Max(low)
            above == Min(high)
            rise == (b - below) * (TimeOf(above) - TimeOf(below))
        IN  IF low = {} \/ high = {} THEN 0
            ELSE TimeOf(below) + (2 * rise + above - below) \div (2 * (above - below))
  IN  [b \in logs |-> IF b \in anchors THEN TimeOf(b) ELSE Between(b)]

-----------------------------------------------------------------------------
(* One poll: the history, the indexed head and the chain's head are asked  *)
(* for together and answered in any order.                                 *)

Idle == [at |-> "idle", paging |-> FALSE, known |-> NoHistory, page |-> Unknown,
         got |-> NoHistory, hi |-> Unknown, hd |-> Unknown, kept |-> NoTail]
NothingShown == [logs |-> {}, complete |-> FALSE, upTo |-> 0, gap |-> {}]

Ask ==
  /\ reader.at = "idle"
  /\ reader' = [Idle EXCEPT !.at = "reading", !.paging = TRUE, !.known = cache,
                            !.hi = IF heads >= 0 THEN heads ELSE Unknown]
  /\ heads' = IF heads = Unknown THEN Asked ELSE heads
  /\ UNCHANGED <<feed, chain, top, indexed, cache, tail, late, shown, mishaps>>

PagesRead ==
  /\ reader.paging
  /\ LET history == HistoryAfter(reader.known, indexed)
     IN  /\ cache' = history
         /\ reader' = [reader EXCEPT !.paging = FALSE, !.known = NoHistory,
                                     !.got = history, !.page = indexed]
  /\ UNCHANGED <<feed, chain, top, indexed, tail, heads, late, shown, mishaps>>

\* The one answer of ten seconds.
IndexedHeadAnswered ==
  /\ heads = Asked
  /\ heads' = indexed
  /\ reader' = IF reader.at = "reading" /\ reader.hi = Unknown THEN [reader EXCEPT !.hi = indexed] ELSE reader
  /\ UNCHANGED <<feed, chain, top, indexed, cache, tail, late, shown, mishaps>>

IndexedHeadExpires ==
  /\ heads >= 0
  /\ heads' = Unknown
  /\ UNCHANGED <<feed, chain, top, indexed, cache, tail, reader, late, shown, mishaps>>

Answered == reader.at = "reading" /\ ~reader.paging /\ reader.hi # Unknown

\* What the poll shows: complete up to a block, but for those of the gap.
Shows(logs, complete, upTo, gap) ==
  /\ shown' = [logs |-> Latest(logs, IF feed = "trades" THEN MaxShown ELSE LastBlock),
               complete |-> complete, upTo |-> upTo, gap |-> gap]
  /\ reader' = Idle

\* The explorer is current, give or take a few blocks: its history is all.
ExplorerCurrent ==
  /\ Answered /\ top <= reader.hi + HEAD_TOLERANCE
  /\ tail' = NoTail
  /\ Shows(reader.got.logs, reader.got.complete, reader.page, {})
  /\ UNCHANGED <<feed, chain, top, indexed, cache, heads, late, mishaps>>

\* It is behind: the tail kept is taken up, and read on from there.
ExplorerBehind ==
  /\ Answered /\ top > reader.hi + HEAD_TOLERANCE
  /\ reader' = [reader EXCEPT !.at = "tailing", !.hd = top, !.kept = tail]
  /\ UNCHANGED <<feed, chain, top, indexed, cache, tail, heads, late, shown, mishaps>>

KeepsTail(t) == tail' = IF Cardinality(t.logs) > MaxTailLogs THEN NoTail ELSE t

TailRead ==
  LET t == TailAfter(reader.kept, reader.hi, reader.hd)
      whole == t.reachedStart \/ Full(t.logs) \/ (t.from <= reader.hi + 1 /\ reader.got.complete)
  IN  /\ reader.at = "tailing"
      /\ KeepsTail(t)
      /\ Shows(reader.got.logs \cup t.logs, whole, reader.hd, (reader.page + 1)..reader.hi)
      /\ UNCHANGED <<feed, chain, top, indexed, cache, heads, late, mishaps>>

-----------------------------------------------------------------------------
(* What goes wrong.  A read that a poll has left behind still writes what  *)
(* it read to the history or the tail kept.                                *)

Mishap == mishaps < Mishaps /\ mishaps' = mishaps + 1

\* The poll goes on without the explorer; its pages may still be on their way.
WithoutExplorer ==
  /\ reader' = [Idle EXCEPT !.at = "fallback"]
  /\ late' = IF reader.paging THEN [Idle EXCEPT !.paging = TRUE, !.known = reader.known] ELSE late
  /\ reader.paging => late = Idle

PageFails ==
  /\ reader.paging
  /\ reader' = [Idle EXCEPT !.at = "fallback"]
  /\ Mishap
  /\ UNCHANGED <<feed, chain, top, indexed, cache, tail, heads, late, shown>>

IndexedHeadFails ==
  /\ heads = Asked
  /\ heads' = Unknown
  /\ IF reader.at = "reading" /\ reader.hi = Unknown THEN WithoutExplorer ELSE UNCHANGED <<reader, late>>
  /\ Mishap
  /\ UNCHANGED <<feed, chain, top, indexed, cache, tail, shown>>

\* The chain's head, or a window of the tail.
RpcFails ==
  /\ reader.at \in {"reading", "tailing"}
  /\ WithoutExplorer
  /\ Mishap
  /\ UNCHANGED <<feed, chain, top, indexed, cache, tail, heads, shown>>

\* readLogWindows: a few windows from the head.
Fallback ==
  LET range == ReadRange(0, top, RpcWindows, {}, TRUE)
  IN  /\ reader.at = "fallback"
      /\ Shows(Wanted(range.lowest, top), range.covered \/ range.reachedStart, top, {})
      /\ UNCHANGED <<feed, chain, top, indexed, cache, tail, heads, late, mishaps>>

\* The poll failed: what was shown stays.
FallbackFails ==
  /\ reader.at = "fallback"
  /\ reader' = Idle
  /\ UNCHANGED <<feed, chain, top, indexed, cache, tail, heads, late, shown, mishaps>>

(* The page goes away, or the launch graduates, and comes back with a new  *)
(* poll: its pages are cancelled, its tail is not.                         *)
Leave ==
  /\ reader.at # "idle"
  /\ reader.at = "tailing" => late = Idle
  /\ late' = IF reader.at = "tailing"
               THEN [Idle EXCEPT !.at = "tailing", !.hi = reader.hi, !.hd = reader.hd, !.kept = reader.kept]
               ELSE late
  /\ reader' = Idle
  /\ Mishap
  /\ UNCHANGED <<feed, chain, top, indexed, cache, tail, heads, shown>>

LateRead ==
  /\ late # Idle
  /\ IF late.paging THEN cache' = HistoryAfter(late.known, indexed) /\ UNCHANGED tail
     ELSE KeepsTail(TailAfter(late.kept, late.hi, late.hd)) /\ UNCHANGED cache
  /\ late' = Idle
  /\ UNCHANGED <<feed, chain, top, indexed, heads, reader, shown, mishaps>>

-----------------------------------------------------------------------------
NewBlock ==
  /\ top < LastBlock
  /\ top' = top + 1
  /\ UNCHANGED <<feed, chain, indexed, cache, tail, heads, reader, late, shown, mishaps>>

Indexes ==
  /\ indexed < top
  /\ indexed' = indexed + 1
  /\ UNCHANGED <<feed, chain, top, cache, tail, heads, reader, late, shown, mishaps>>

HInit ==
  /\ \E f \in Feeds : feed = f.of /\ chain = f.chain
  /\ top = Created /\ indexed = Created - 1
  /\ cache = NoHistory /\ tail = NoTail /\ heads = Unknown
  /\ reader = Idle /\ late = Idle
  /\ shown = NothingShown
  /\ mishaps = 0

Reads ==
  \/ Ask \/ PagesRead
  \/ ExplorerCurrent \/ ExplorerBehind \/ TailRead \/ Fallback

HNext ==
  \/ Reads \/ LateRead
  \/ IndexedHeadAnswered \/ IndexedHeadExpires
  \/ PageFails \/ IndexedHeadFails \/ RpcFails \/ FallbackFails \/ Leave
  \/ NewBlock \/ Indexes

(* A page polls for as long as it is open, and goes on with what it has     *)
(* been answered; no request waits for ever (it is answered or fails), ten *)
(* seconds pass, and the explorer indexes what there is.                   *)
HFairness ==
  /\ WF_hVars(Ask) /\ WF_hVars(ExplorerCurrent \/ ExplorerBehind)
  /\ []<>(~reader.paging) /\ []<>(reader.at \notin {"tailing", "fallback"}) /\ []<>(late = Idle)
  /\ WF_hVars(IndexedHeadAnswered) /\ SF_hVars(IndexedHeadExpires)
  /\ WF_hVars(Indexes)

HSpec == HInit /\ [][HNext]_hVars /\ HFairness

-----------------------------------------------------------------------------
\* Where the feed begins.
Start == IF feed = "trades" THEN Created ELSE 1

(* What is kept between polls has no hole, whichever polls overlapped,     *)
(* failed halfway or ran out of pages or windows: the explorer's history   *)
(* has every log from its oldest to the newest row it scanned, and every   *)
(* log there was if it calls itself complete; the tail has every log of    *)
(* its blocks ("Every block from `from` to `to` was read", logTail.ts:94)   *)
(* and none is older if it reached the start.                              *)
KeptHasNoHole ==
  LET oldest == IF cache.logs = {} THEN cache.newest ELSE Min(cache.logs)
  IN  /\ cache.logs = Wanted(oldest, cache.newest)
      /\ cache.complete /\ ~Full(cache.logs) => Wanted(Start, cache.newest) \subseteq cache.logs
      /\ tail.logs = Wanted(tail.from, tail.to)
      /\ tail.reachedStart => Wanted(Created, tail.from - 1) = {}

(* What is shown as complete misses nothing up to the chain's head when it *)
(* was asked, or to what the explorer had indexed where it was current,    *)
(* save the blocks it indexed after its page was answered and before it    *)
(* said how far it was, which are then read from neither.                  *)
CompleteMissesNothing ==
  shown.complete /\ ~Full(shown.logs) =>
    Wanted(Start, shown.upTo) \subseteq shown.logs \cup shown.gap

(* Once the chain is quiet, a page that stays open ends up showing the     *)
(* newest of what the explorer's pages reach, and goes on showing it.      *)
CatchesUp ==
  <>[](Latest(FirstPages(top, MaxPages) \cap Wanted(Start, top),
              IF feed = "trades" THEN MaxShown ELSE LastBlock) \subseteq shown.logs)

(* A block placed between two others is given a time between theirs, to    *)
(* the second, and every log gets one.                                     *)
TimesInOrder ==
  feed = "trades" /\ top = Created /\ indexed = Created - 1 =>
    \A logs \in SUBSET (1..LastBlock) : \A known \in SUBSET logs :
      LET time == FillTimes(logs, known, 3)
      IN  \A b, c \in logs : b < c => TimeOf(Min(logs)) <= time[b] /\ time[b] <= time[c]

(* What a page keeps, calls complete and puts in order is so.              *)
HistoryIsWhole == KeptHasNoHole /\ CompleteMissesNothing /\ TimesInOrder
=============================================================================
