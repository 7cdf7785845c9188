----------------------------- MODULE MC_Readers -----------------------------
(***************************************************************************)
(* A behaviour is one of the listing service or one of a page that polls.  *)
(* The service reads two core pairs, one of them younger than the tape,    *)
(* and one launch pool.                                                    *)
(***************************************************************************)
EXTENDS ListingService, SiteHistory, TLC

CONSTANTS c1, c2, p1, LateBlock

MCBorn == (c1 :> 0) @@ (c2 :> LateBlock) @@ (p1 :> 0)

n == "none"
x == "other"
o == "ours"
Quiet == [of |-> "prices", chain |-> <<n, n, n, n, n>>]
MCFeeds == {Quiet, [of |-> "trades", chain |-> <<n, o, x, o, o>>],
                   [of |-> "prices", chain |-> <<x, n, o, o, x>>]}

VARIABLE part

mcVars == <<part, vars, hVars>>

Serves == part = "service" /\ UNCHANGED <<part, hVars>>
Polls  == part = "page" /\ UNCHANGED <<part, vars>>

MCInit ==
  /\ Init /\ HInit
  /\ \/ part = "service" /\ feed = Quiet.of /\ chain = Quiet.chain
     \/ part = "page"

MCNext ==
  \/ Serves /\ Next
  \/ Polls /\ HNext

(* The fairness of ListingService and of SiteHistory, each in its part; no *)
(* request of a page waits for ever.                                       *)
MCFairness ==
  /\ WF_mcVars((Serves /\ Scan) \/ (Polls /\ Ask))
  /\ WF_mcVars((Serves /\ (NextScan \/ FinishLoad)) \/ (Polls /\ (ExplorerCurrent \/ ExplorerBehind)))
  /\ []<>(~reader.paging) /\ []<>(reader.at \notin {"tailing", "fallback"}) /\ []<>(late = Idle)
  /\ WF_mcVars(Polls /\ IndexedHeadAnswered) /\ SF_mcVars(Polls /\ IndexedHeadExpires)
  /\ WF_mcVars(Polls /\ Indexes)

MCSpec == MCInit /\ [][MCNext]_mcVars /\ MCFairness

(* Every load of the service ends, and a page that stays open catches up.  *)
ReadersFinish == LoadsEnd /\ CatchesUp
=============================================================================
