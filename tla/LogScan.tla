------------------------------- MODULE LogScan -------------------------------
(* One scan of eth_getLogs over a range of blocks (server/listing/logs.ts,     *)
(* scanLogs), with the JSON-RPC client every call goes through                 *)
(* (server/listing/rpc.ts, request).  Some workers share a queue of windows, a *)
(* window size and the client's preferred endpoint; JavaScript runs each of    *)
(* them from one await to the next without interruption, so a worker that is   *)
(* in its loop moves before any answer is handled.                             *)
(* A log is abstracted to the block it is in: got is the set of blocks whose   *)
(* logs have been read.                                                        *)
EXTENDS Integers, Sequences, FiniteSets

CONSTANTS
  Workers,        \* 1..n: the scan's concurrency (3 in the code)
  WindowBlocks,   \* blocks per call to start with (10 000)
  Endpoints,      \* how many RPC URLs the client has
  Attempts,       \* tries per call (6)
  MaxFaults       \* bound: refusals and errors of all calls

ASSUME ScanAssumption ==
  /\ Workers # {}
  /\ WindowBlocks \in Nat \ {0}
  /\ Endpoints \in Nat \ {0}
  /\ Attempts \in Nat \ {0}

VARIABLES
  span,       \* the range being scanned
  queue,      \* windows nobody has taken
  size,       \* the widest window a worker starts
  at,         \* what each worker is doing
  got,        \* blocks read
  missing,    \* windows given up, in the order they were
  overdue,    \* the deadline has passed
  preferred,  \* the endpoint that answered last
  faults      \* what has gone wrong so far (bounded by MaxFaults)

scanVars == <<span, queue, size, at, got, missing, overdue, preferred, faults>>

Stretch(from, to) == [from |-> from, to |-> to]
Blocks(range) == range.from .. range.to
Width(range) == range.to - range.from + 1

Loop == [does |-> "loop"]
Done == [does |-> "done"]
Sleeping == -1

Call(range, attempt, url) ==
  [does |-> "call", range |-> range, attempt |-> attempt, url |-> url]
Busy(w) == at[w].does = "call"
Endpoint(attempt) == (preferred + attempt) % Endpoints

(* from..to cut into windows of at most n blocks, oldest first. *)
Windows(from, to, n) ==
  [i \in 1 .. (to - from + n) \div n |->
     Stretch(from + (i - 1) * n, IF from + i * n - 1 < to THEN from + i * n - 1 ELSE to)]

(* The i-th of a set of numbers. *)
Nth(S, i) == CHOOSE b \in S : Cardinality({c \in S : c <= b}) = i

(* Sorted and merged: the maximal runs of blocks the given ranges make up. *)
MergeRanges(ranges) ==
  LET blocks == UNION {Blocks(ranges[i]) : i \in DOMAIN ranges}
      starts == {b \in blocks : b - 1 \notin blocks}
      End(b) == CHOOSE e \in blocks : /\ e >= b /\ e + 1 \notin blocks
                                      /\ b .. e \subseteq blocks
  IN  [i \in 1 .. Cardinality(starts) |-> Stretch(Nth(starts, i), End(Nth(starts, i)))]

\* State of a scan that is about to start over from..to.
ScanOf(from, to) ==
  /\ span' = Stretch(from, to)
  /\ queue' = Windows(from, to, WindowBlocks)
  /\ size' = WindowBlocks
  /\ at' = [w \in Workers |-> Loop]
  /\ got' = {}
  /\ missing' = <<>>

-----------------------------------------------------------------------------
(* The worker's loop: it runs up to its next await before anyone else does, *)
(* and the workers are started one after another.                           *)
Turn(w) == at[w] = Loop /\ \A v \in Workers : at[v] = Loop => w <= v

Settled == \A w \in Workers : at[w] # Loop

Finish(w) ==
  /\ Turn(w) /\ queue = <<>>
  /\ at' = [at EXCEPT ![w] = Done]
  /\ UNCHANGED <<span, queue, size, got, missing, overdue, preferred, faults>>

GiveUpLate(w) ==
  /\ Turn(w) /\ queue # <<>> /\ overdue
  /\ missing' = Append(missing, Head(queue))
  /\ queue' = Tail(queue)
  /\ UNCHANGED <<span, size, at, got, overdue, preferred, faults>>

Narrow(w) ==
  /\ Turn(w) /\ queue # <<>> /\ ~overdue
  /\ Width(Head(queue)) > size
  /\ queue' = Windows(Head(queue).from, Head(queue).to, size) \o Tail(queue)
  /\ UNCHANGED <<span, size, at, got, missing, overdue, preferred, faults>>

Take(w) ==
  /\ Turn(w) /\ queue # <<>> /\ ~overdue
  /\ Width(Head(queue)) <= size
  /\ at' = [at EXCEPT ![w] = Call(Head(queue), 0, Endpoint(0))]
  /\ queue' = Tail(queue)
  /\ UNCHANGED <<span, size, got, missing, overdue, preferred, faults>>

-----------------------------------------------------------------------------
(* What an endpoint says. *)
InFlight(w) == Settled /\ Busy(w) /\ at[w].url # Sleeping

LogsCome(w) ==
  /\ InFlight(w)
  /\ got' = got \union Blocks(at[w].range)
  /\ preferred' = at[w].url
  /\ at' = [at EXCEPT ![w] = Loop]
  /\ UNCHANGED <<span, queue, size, missing, overdue, faults>>

Erring(w) == InFlight(w) /\ faults < MaxFaults /\ faults' = faults + 1

\* Fault: both halves hold the block in the middle.
SplitOverlapping(w) ==
  LET range == at[w].range
      half == Width(range) \div 2
  IN  /\ Erring(w) /\ Width(range) > 1
      /\ size' = IF half < size THEN half ELSE size
      /\ queue' = <<Stretch(range.from, range.from + half),
                    Stretch(range.from + half, range.to)>> \o queue
      /\ at' = [at EXCEPT ![w] = Loop]
      /\ UNCHANGED <<span, got, missing, overdue, preferred>>

(* The window is too much data: it is halved, and so are the later ones. *)
Split(w) ==
  LET range == at[w].range
      half == Width(range) \div 2
  IN  /\ Erring(w) /\ Width(range) > 1
      /\ size' = IF half < size THEN half ELSE size
      /\ queue' = <<Stretch(range.from, range.from + half - 1),
                    Stretch(range.from + half, range.to)>> \o queue
      /\ at' = [at EXCEPT ![w] = Loop]
      /\ UNCHANGED <<span, got, missing, overdue, preferred>>

GiveUp(w) ==
  /\ missing' = Append(missing, at[w].range)
  /\ at' = [at EXCEPT ![w] = Loop]

\* An answer that asking again cannot change.
Refused(w) ==
  /\ Erring(w) /\ GiveUp(w)
  /\ UNCHANGED <<span, queue, size, got, overdue, preferred>>

\* Load, a timeout, an endpoint that is behind: worth another try, if any is left.
Retryable(w) ==
  /\ Erring(w)
  /\ IF at[w].attempt + 1 < Attempts
     THEN /\ at' = [at EXCEPT ![w] = Call(@.range, @.attempt + 1, Sleeping)]
          /\ missing' = missing
     ELSE GiveUp(w)
  /\ UNCHANGED <<span, queue, size, got, overdue, preferred>>

\* After the delay, the next endpoint counted from the one that answered last.
Wake(w) ==
  /\ Settled /\ Busy(w) /\ at[w].url = Sleeping
  /\ at' = [at EXCEPT ![w] = Call(@.range, @.attempt, Endpoint(@.attempt))]
  /\ UNCHANGED <<span, queue, size, got, missing, overdue, preferred, faults>>

-----------------------------------------------------------------------------
ScanStep(w) ==
  \/ Finish(w) \/ GiveUpLate(w) \/ Narrow(w) \/ Take(w)
  \/ LogsCome(w) \/ Split(w) \/ Refused(w) \/ Retryable(w) \/ Wake(w)

ScanOver == \A w \in Workers : at[w] = Done

(* Every window that exists, tagged with where it is kept. *)
Pieces ==
  {<<"queue", i, queue[i]>> : i \in DOMAIN queue}
    \union {<<"call", w, at[w].range>> : w \in {v \in Workers : Busy(v)}}
    \union {<<"missing", i, missing[i]>> : i \in DOMAIN missing}

(* Each block of the range is in exactly one place at any moment: read, in a  *)
(* window still queued, in a call under way, or reported missing.  No split,  *)
(* retry, deadline or order of answers loses a block or reads it twice        *)
(* (logs.ts:98-127: two halves put back, the size lowered under other         *)
(* workers' feet, a late window dropped into missing).                           *)
EveryBlockOnce ==
  /\ Blocks(span) = got \union UNION {Blocks(p[3]) : p \in Pieces}
  /\ \A p \in Pieces :
       /\ Blocks(p[3]) \intersect got = {}
       /\ \A q \in Pieces \ {p} : Blocks(p[3]) \intersect Blocks(q[3]) = {}
==============================================================================
