---------------------------- MODULE VerifiedFiles ----------------------------
(***************************************************************************)
(* How a page reads one file a token names (src/lib/ipfs.ts through        *)
(* hooks/useTokenMetadata.ts): from its own domain (server/ipfsProxy.ts    *)
(* behind a CDN), then from gateways it does not trust.  A file is "named" *)
(* when its bytes are what the address names, anything else is "other".    *)
(*                                                                         *)
(* The page keeps one attempt per address, and whoever asks for the file   *)
(* while it runs waits for that one; it is ended when the visit that began *)
(* it ends.                                                                *)
(***************************************************************************)
EXTENDS Integers, Sequences

CONSTANTS
  Gateways,               \* the gateways asked after the page's own domain, in order
  Retries,                \* how often a failed read is tried again
  MaxVisits, MaxTroubles  \* bounds of the model

ASSUME FilesAssumption == Gateways \in Seq(STRING) /\ Retries \in Nat \ {0}

Serves == {"named", "other", "nothing"}
Sources == <<"own">> \o Gateways

VARIABLES
  hosts,     \* what each gateway answers with
  ours,      \* the file was pinned by our uploader, and is not hidden
  cdn,       \* what the page's own domain keeps
  verified,  \* the attempt kept for the address: "none", "pending" or its bytes
  attempt,   \* the attempt under way: the visit that began it, the source it is at
  visit,     \* the visit: whether it reads, waits to retry, shows, failed
  troubles

fVars == <<hosts, ours, cdn, verified, attempt, visit, troubles>>

Away == "away"
NoAttempt == [by |-> 0, source |-> 0]
ToSeeHosts == {hosts[g] : g \in DOMAIN hosts}

\* The bytes are compared with the address before they are used.
BytesMatch(bytes) == bytes = "named"

\* What the proxy answers with, and whether the CDN may keep it.
Served ==
  IF ~ours THEN "nothing"
  ELSE IF cdn # "nothing" THEN cdn
  ELSE IF \E g \in DOMAIN hosts : BytesMatch(hosts[g])
       THEN hosts[CHOOSE g \in DOMAIN hosts : BytesMatch(hosts[g])]
       ELSE "nothing"

-----------------------------------------------------------------------------
(* Visit n asks for the file: the kept bytes, the attempt under way, or a new one. *)
Reads(n, tries) ==
  IF verified \notin {"none", "pending"} THEN
    /\ visit' = [n |-> n, at |-> "shows", tries |-> tries, bytes |-> verified]
    /\ UNCHANGED <<verified, attempt>>
  ELSE
    /\ visit' = [n |-> n, at |-> "reads", tries |-> tries, bytes |-> "nothing"]
    /\ IF verified = "pending" THEN UNCHANGED <<verified, attempt>>
       ELSE verified' = "pending" /\ attempt' = [by |-> n, source |-> 1]

Arrives ==
  /\ visit.at = Away /\ visit.n < MaxVisits
  /\ Reads(visit.n + 1, 0)
  /\ UNCHANGED <<hosts, ours, cdn, troubles>>

Leaves ==
  /\ visit.at # Away
  /\ visit' = [visit EXCEPT !.at = Away]
  /\ UNCHANGED <<hosts, ours, cdn, verified, attempt, troubles>>

Retried ==
  /\ visit.at = "again"
  /\ Reads(visit.n, visit.tries + 1)
  /\ UNCHANGED <<hosts, ours, cdn, troubles>>

\* Fault: a read that failed is not tried again.
AfterFailureNever(v) == [v EXCEPT !.at = "failed"]
AfterFailure(v) == [v EXCEPT !.at = IF v.tries < Retries THEN "again" ELSE "failed"]

Aborted == visit.at = Away \/ visit.n # attempt.by

AttemptFails ==
  /\ verified' = "none" /\ attempt' = NoAttempt
  /\ visit' = IF visit.at = "reads" THEN AfterFailure(visit) ELSE visit

(* The attempt hears from the source it is at, or its signal ends it. *)
Hears ==
  /\ attempt.by # 0 /\ ~Aborted
  /\ \E lost \in BOOLEAN :
       /\ lost => troubles < MaxTroubles
       /\ troubles' = troubles + (IF lost THEN 1 ELSE 0)
       /\ LET own == attempt.source = 1
              bytes == IF lost THEN "nothing" ELSE IF own THEN Served ELSE hosts[attempt.source - 1]
          IN  /\ cdn' = IF own /\ bytes # "nothing" THEN bytes ELSE cdn
              /\ IF BytesMatch(bytes)
                 THEN /\ verified' = bytes /\ attempt' = NoAttempt
                      /\ visit' = IF visit.at = "reads" THEN [visit EXCEPT !.at = "shows", !.bytes = bytes] ELSE visit
                 ELSE IF attempt.source < Len(Sources)
                 THEN attempt' = [attempt EXCEPT !.source = @ + 1] /\ UNCHANGED <<verified, visit>>
                 ELSE AttemptFails
  /\ UNCHANGED <<hosts, ours>>

AttemptEnds ==
  /\ attempt.by # 0 /\ Aborted
  /\ AttemptFails
  /\ UNCHANGED <<hosts, ours, cdn, troubles>>

\* The creator's own upload shows at once; its bytes are checked too.
Remembers ==
  /\ \E bytes \in Serves : verified = "none" /\ BytesMatch(bytes) /\ verified' = bytes
  /\ UNCHANGED <<hosts, ours, cdn, attempt, visit, troubles>>

HostChanges ==
  /\ troubles < MaxTroubles /\ troubles' = troubles + 1
  /\ \E g \in DOMAIN hosts, s \in Serves : hosts' = [hosts EXCEPT ![g] = s]
  /\ UNCHANGED <<ours, cdn, verified, attempt, visit>>

-----------------------------------------------------------------------------
FInit ==
  /\ hosts \in [DOMAIN Gateways -> Serves] /\ ours \in BOOLEAN
  /\ cdn = "nothing" /\ verified = "none" /\ attempt = NoAttempt
  /\ visit = [n |-> 0, at |-> Away, tries |-> 0, bytes |-> "nothing"] /\ troubles = 0

FNext == Arrives \/ Leaves \/ Retried \/ Hears \/ AttemptEnds \/ Remembers \/ HostChanges

FSpec == FInit /\ [][FNext]_fVars

-----------------------------------------------------------------------------
(* What a page shows, keeps for the visit, or lets the CDN keep for a year, *)
(* is what the address names, whoever served it.                            *)
ShownIsNamed ==
  /\ visit.at = "shows" => visit.bytes = "named"
  /\ verified \notin {"none", "pending"} => verified = "named"
  /\ cdn \in {"named", "nothing"}

(* A visit that waits on an attempt another visit began, and that ended     *)
(* with that visit, still gets the file: a read fails for good only when no *)
(* gateway has the file, or some request for it was lost.                   *)
LeavingHarmsNoOther ==
  visit.at = "failed" => troubles > 0 \/ "named" \notin ToSeeHosts

(* Readers that share an attempt get the named bytes or a real failure.     *)
ReadsEndWell == ShownIsNamed /\ LeavingHarmsNoOther
=============================================================================
