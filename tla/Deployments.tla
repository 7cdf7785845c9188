---------------------------- MODULE Deployments ----------------------------
(***************************************************************************)
(* The deployment scripts: scripts/compass-deploy.ts with its helpers and  *)
(* scripts/self-deploy.ts, as one operator runs them, one or two at a time *)
(* and again after a failure, for one contract.  Shared by the processes:  *)
(* the compiled artifact, the fork-verify receipt and the metadata file.   *)
(*                                                                         *)
(* External: Circle, which queues and broadcasts transactions and may      *)
(* answer late, the node, which may lag behind the chain, and Compass.     *)
(***************************************************************************)
EXTENDS Naturals, FiniteSets

CONSTANTS
  Terminals,         \* where scripts run, one at a time in each
  Codes,             \* the bytecodes forge build can leave in the artifact
  Sessions,          \* the command lines an operator keeps to, for each terminal
  Encodes(_, _),     \* bytecode, args: do the args fit the constructor's ABI
  Constructs(_, _),  \* bytecode, args: does the constructor accept them
  OldFactory,        \* a Create2Factory deployed earlier
  MaxAge,            \* the life of a receipt
  MaxFresh,          \* bound on the contracts created at a fresh address
  MaxTroubles(_)       \* bound on late answers, crashes, rebuilds, ... of a session

ASSUME AgesAreNumbers == MaxAge \in Nat

VARIABLES
  session,   \* the session this is
  artifact,  \* file: the compiled bytecode
  receipt,   \* file: .compass-verify/<name>.json, a set of at most one record
  meta,      \* file: contract-metadata/<name>.json, its deployments
  torn,      \* is the metadata file cut short
  code,      \* chain: the contracts that exist
  visible,   \* node: those eth_getCode answers for
  requests,  \* Circle: transactions created, with their state
  fresh,     \* how many contracts got a fresh address
  proc,      \* the process of each terminal
  verified,  \* history: what was deployed on a fork, and how long ago
  troubles

files   == <<receipt, meta, torn>>
outside == <<session, artifact, code, visible, requests, fresh>>
dVars   == <<session, artifact, receipt, meta, torn, code, visible, requests, fresh, proc, verified, troubles>>

-----------------------------------------------------------------------------
(* Contracts, transactions, receipts *)

NoContract == [kind |-> "none"]

\* A contract: how its address comes about, on which network, and what it runs.
Contract(kind, net, by, runs) == [kind |-> kind, net |-> net, by |-> by, runs |-> runs]
On(c, net) == [c EXCEPT !.net = net]

\* deriveSalt: one salt for each deployer (and contract name).
Salt(wallet) == wallet

\* buildInitcode: the bytecode with its constructor args.
Initcode(bytes, args) == <<bytes, args>>

PredictCreate2Address(factory, salt, initcode, net) ==
  Contract("create2", net, <<factory.by, salt>>, initcode)

\* The fingerprint covers the bytecode and the declared args, "$DEPLOYER" as written.
Fingerprint(bytes, args) == <<bytes, args>>

ReceiptOf(cmd, bytes) ==
  [chain |-> cmd.chain, blockchain |-> cmd.blockchain,
   fingerprint |-> Fingerprint(bytes, cmd.args), age |-> 0]

Covers(r, cmd, bytes) ==
  /\ r.chain = cmd.chain
  /\ r.blockchain = cmd.blockchain
  /\ r.fingerprint = Fingerprint(bytes, cmd.args)
  /\ r.age <= MaxAge

-----------------------------------------------------------------------------
(* Processes *)

Off == [pc |-> "off", cmd |-> [tool |-> "none"], code |-> 0, factory |-> NoContract, wallet |-> 0,
        tx |-> NoContract, rehearsed |-> NoContract, passed |-> {}, tries |-> 0, old |-> {}]

P(x)       == proc[x]
At(x, pc)  == proc[x].pc = pc
Become(x, record) == proc' = [proc EXCEPT ![x] = record]
Go(x, pc)  == Become(x, [P(x) EXCEPT !.pc = pc])
Throw(x)   == Become(x, Off)
TroubleLeft  == troubles < MaxTroubles(session) /\ troubles' = troubles + 1

\* What parseArgs accepts: a factory or a kept wallet come complete, and a raw
\* key needs an RPC that broadcasts.
WellFormed(cmd) ==
  /\ cmd.tool \in {"compass", "self"}
  /\ cmd.tool = "compass" =>
       /\ cmd.mode \in {"fork", "live", "fork-then-live", "verify"}
       /\ cmd.signer \in {"dcw", "private-key"}
       /\ cmd.signer = "private-key" /\ cmd.mode \in {"live", "fork-then-live"} => cmd.rpc
  /\ cmd.tool = "self" => cmd.mode = "live" /\ cmd.signer = "dcw"

PlaceholderResolvable(cmd) ==
  cmd.args = "deployer" => cmd.signer = "dcw" /\ cmd.mode \in {"verify", "live"}

\* main, up to its first await: options, artifact, preflight.
FirstStep(cmd) ==
  CASE cmd.tool = "self"                          -> "wallet"
    [] cmd.mode = "verify"                        -> "on fork"
    [] cmd.mode \in {"fork", "fork-then-live"}    -> "rehearse"
    [] OTHER                                      -> "gate"

Run(x, cmd) ==
  /\ At(x, "off") /\ WellFormed(cmd)
  /\ cmd.tool = "compass" => PlaceholderResolvable(cmd) /\ Encodes(artifact, cmd.args)
  /\ Become(x, [Off EXCEPT !.pc = FirstStep(cmd), !.cmd = cmd, !.code = artifact])
  /\ UNCHANGED <<outside, files, verified, troubles>>

ScriptKilled(x) ==
  /\ ~At(x, "off") /\ TroubleLeft
  /\ Throw(x)
  /\ UNCHANGED <<outside, receipt, meta, verified>>
  \* writeFileSync is not atomic: a crash in it leaves half a file.
  /\ torn' \in IF At(x, "write") THEN {torn, TRUE} ELSE {torn}

\* An outage, a refused request or a balance too low, wherever a call awaits.
RequestFails(x) ==
  /\ P(x).pc \in {"on fork", "rehearse", "wallet", "factory", "look", "deploy"} /\ TroubleLeft
  /\ Throw(x)
  /\ UNCHANGED <<outside, files, verified>>

-----------------------------------------------------------------------------
(* The fork: --mode verify, and the rehearsal of fork-then-live *)

NowVerified(x) ==
  LET runs == Initcode(P(x).code, P(x).cmd.args)
  IN verified' = {v \in verified : v.runs # runs \/ v.chain # P(x).cmd.chain}
                 \cup {[runs |-> runs, chain |-> P(x).cmd.chain, age |-> 0]}

\* Fault: the receipt describes the artifact as it is on disk by now.
VerifyReceiptOfDisk(x) ==
  /\ At(x, "on fork") /\ Constructs(P(x).code, P(x).cmd.args)
  /\ NowVerified(x)
  /\ receipt' = {ReceiptOf(P(x).cmd, artifact)}
  /\ Go(x, "alive")
  /\ UNCHANGED <<outside, meta, torn, troubles>>

\* verifyOnFork: factory and contract deployed, code seen, receipt written.
VerifyOnFork(x) ==
  /\ At(x, "on fork") /\ Constructs(P(x).code, P(x).cmd.args)
  /\ NowVerified(x)
  /\ receipt' = {ReceiptOf(P(x).cmd, P(x).code)}
  /\ Go(x, "alive")
  /\ UNCHANGED <<outside, meta, torn, troubles>>

ForkReverts(x) ==
  /\ At(x, "on fork") /\ ~Constructs(P(x).code, P(x).cmd.args)
  /\ Throw(x)
  /\ UNCHANGED <<outside, files, verified, troubles>>

\* Killed by the operator, or after twenty minutes.
ForkEnds(x) ==
  /\ At(x, "alive")
  /\ Throw(x)
  /\ UNCHANGED <<outside, files, verified, troubles>>

\* External: Compass deploys the artifact it finds on disk, from a default
\* factory, and cannot encode constructor args.
CompassAddress(net, args) == Contract("compass", net, 0, Initcode(artifact, args))
CompassCan(cmd) == cmd.args = "none" /\ Constructs(artifact, cmd.args)

AfterFork(cmd) == IF cmd.mode = "fork" THEN "off"
                  ELSE IF cmd.signer = "private-key" THEN "key" ELSE "wallet"

\* runForkRehearsal swallows its error when there are constructor args.
Rehearse(x) ==
  LET cmd == P(x).cmd
      end == AfterFork(cmd)
  IN /\ At(x, "rehearse")
     /\ Become(x,
          IF end = "off" \/ (cmd.args = "none" /\ ~CompassCan(cmd)) THEN Off
          ELSE [P(x) EXCEPT !.pc = end,
                  !.rehearsed = IF CompassCan(cmd) THEN CompassAddress(cmd.chain, cmd.args) ELSE NoContract])
     /\ UNCHANGED <<outside, files, verified, troubles>>

RecentlyVerified(chain) == {v.runs : v \in {u \in verified : u.chain = chain /\ u.age <= MaxAge}}

\* assertLiveDeployIsVerified
Gate(x) ==
  /\ At(x, "gate")
  /\ IF P(x).cmd.skip \/ \E r \in receipt : Covers(r, P(x).cmd, P(x).code)
     THEN Become(x, [P(x) EXCEPT !.pc = AfterFork(P(x).cmd), !.passed = RecentlyVerified(P(x).cmd.chain)])
     ELSE Throw(x)
  /\ UNCHANGED <<outside, files, verified, troubles>>

-----------------------------------------------------------------------------
(* Circle: transactions created by a process, carried out later *)

\* A request for the same contract without a fault in between follows a decided one.
TxId(x, c)   == [to |-> c, by |-> x, n |-> troubles]
Tx(x)        == CHOOSE u \in requests : u.id = P(x).tx
Create(x, c) == requests' = {u \in requests : u.id # TxId(x, c)} \cup {[id |-> TxId(x, c), state |-> "pending"]}

\* What nobody waits for is forgotten once decided.
AwaitedBy(u) == {x \in Terminals : P(x).tx = u.id}

\* A CREATE2 at an address in use reverts; a call to a factory that is not on
\* that network succeeds and creates nothing.
CircleLands(u) ==
  LET c == u.id.to
      made == CASE c.kind = "create2" -> Contract("factory", c.net, c.by[1], <<0, "none">>) \in code
                [] OTHER -> TRUE
      ok == c \notin code /\ (c.kind = "factory" \/ Constructs(c.runs[1], c.runs[2]))
  IN /\ u.state = "pending"
     /\ code' = IF made /\ ok THEN code \cup {c} ELSE code
     /\ requests' = (requests \ {u}) \cup
               (IF AwaitedBy(u) = {} THEN {}
                ELSE {[u EXCEPT !.state = IF made /\ ~ok THEN "failed" ELSE "done"]})
     /\ UNCHANGED <<session, artifact, visible, fresh, files, proc, verified, troubles>>

NodeSees ==
  /\ visible # code
  /\ visible' = code
  /\ UNCHANGED <<session, artifact, code, requests, fresh, files, proc, verified, troubles>>

AfterPoll(pc) ==
  CASE pc = "factory poll" -> "look" [] pc = "poll" -> "confirm" [] pc = "scp poll" -> "record"

\* pollForContract, pollTransaction, pollForCompletion
Poll(x) ==
  /\ P(x).pc \in {"factory poll", "poll", "scp poll"} /\ Tx(x).state # "pending"
  /\ requests' = requests \ {Tx(x)}
  /\ IF Tx(x).state = "done" THEN Go(x, AfterPoll(P(x).pc)) ELSE Throw(x)
  /\ UNCHANGED <<session, artifact, code, visible, fresh, files, verified, troubles>>

PollTimesOut(x) ==
  /\ P(x).pc \in {"factory poll", "poll", "scp poll"} /\ Tx(x).state = "pending" /\ TroubleLeft
  /\ Throw(x)
  /\ UNCHANGED <<outside, files, verified>>

-----------------------------------------------------------------------------
(* The custody path of compass-deploy, and self-deploy *)

\* resolveDcwWallet: the wallet named on the command line, or a new one.
Wallet(x) ==
  /\ At(x, "wallet")
  /\ Become(x, [P(x) EXCEPT !.wallet = IF P(x).cmd.wallet = "kept" THEN 0 ELSE fresh + 1,
                            !.pc = IF P(x).cmd.tool = "self" THEN "deploy" ELSE "factory"])
  /\ fresh' = IF P(x).cmd.wallet = "kept" THEN fresh ELSE fresh + 1
  /\ UNCHANGED <<session, artifact, code, visible, requests, files, verified, troubles>>

\* ensureCreate2Factory, with --factory
ReuseFactory(x) ==
  LET factory == On(OldFactory, P(x).cmd.chain)
  IN /\ At(x, "factory") /\ P(x).cmd.factory
     /\ IF factory \in visible
        THEN Become(x, [P(x) EXCEPT !.factory = factory, !.pc = "look"])
        ELSE Throw(x)
     /\ UNCHANGED <<outside, files, verified, troubles>>

\* ensureCreate2Factory, without: a new one each time.
DeployFactory(x) ==
  LET factory == Contract("factory", P(x).cmd.blockchain, fresh + 1, <<0, "none">>)
  IN /\ At(x, "factory") /\ ~P(x).cmd.factory
     /\ fresh' = fresh + 1
     /\ Create(x, factory)
     /\ Become(x, [P(x) EXCEPT !.factory = factory, !.tx = TxId(x, factory), !.pc = "factory poll"])
     /\ UNCHANGED <<session, artifact, code, visible, files, verified, troubles>>

Predicted(x, net) ==
  PredictCreate2Address(P(x).factory, Salt(P(x).wallet), Initcode(P(x).code, P(x).cmd.args), net)

\* "idempotent CREATE2 re-run": nothing is sent when the node has the code.
Look(x) ==
  /\ At(x, "look")
  /\ Go(x, IF Predicted(x, P(x).cmd.chain) \in visible THEN "record" ELSE "broadcast")
  /\ UNCHANGED <<outside, files, verified, troubles>>

Broadcast(x) ==
  LET c == Predicted(x, P(x).cmd.blockchain)
  IN /\ At(x, "broadcast")
     /\ Create(x, c)
     /\ Become(x, [P(x) EXCEPT !.tx = TxId(x, c), !.pc = "poll"])
     /\ UNCHANGED <<session, artifact, code, visible, fresh, files, verified, troubles>>

\* Fault: Circle's word is enough.
ConfirmUnseen(x) ==
  /\ At(x, "confirm")
  /\ Go(x, "record")
  /\ UNCHANGED <<outside, files, verified, troubles>>

\* waitForCodeAt
Confirm(x) ==
  /\ At(x, "confirm") /\ Predicted(x, P(x).cmd.chain) \in visible
  /\ Go(x, "record")
  /\ UNCHANGED <<outside, files, verified, troubles>>

NoCode(x) ==
  /\ At(x, "confirm") /\ Predicted(x, P(x).cmd.chain) \notin visible
  /\ IF Predicted(x, P(x).cmd.chain) \in code THEN TroubleLeft ELSE UNCHANGED troubles
  /\ Throw(x)
  /\ UNCHANGED <<outside, files, verified>>

\* self-deploy: one request to Circle's contract platform.
DeployContract(x) ==
  LET c == Contract("scp", P(x).cmd.chain, fresh + 1, Initcode(P(x).code, P(x).cmd.args))
  IN /\ At(x, "deploy")
     /\ fresh' = fresh + 1
     /\ Create(x, c)
     /\ Become(x, [P(x) EXCEPT !.tx = TxId(x, c), !.pc = "scp poll"])
     /\ UNCHANGED <<session, artifact, code, visible, files, verified, troubles>>

-----------------------------------------------------------------------------
(* The private-key path: Compass broadcasts, transient errors are retried *)

KeyRefused(x) ==
  /\ At(x, "key")
  /\ ~CompassCan(P(x).cmd) \/ CompassAddress(P(x).cmd.chain, P(x).cmd.args) \in code
  /\ Throw(x)
  /\ UNCHANGED <<outside, files, verified, troubles>>

LiveDeploy(x) ==
  LET c == CompassAddress(P(x).cmd.chain, P(x).cmd.args)
  IN /\ At(x, "key") /\ CompassCan(P(x).cmd) /\ c \notin code
     /\ code' = code \cup {c}
     /\ \/ /\ IF P(x).rehearsed \notin {NoContract, c} THEN Throw(x)
              ELSE Become(x, [P(x) EXCEPT !.tx = c, !.pc = "record"])
           /\ UNCHANGED troubles
        \/ TroubleLeft /\ UNCHANGED proc     \* mined, the answer lost: tried again
     /\ UNCHANGED <<session, artifact, visible, requests, fresh, files, verified>>

TransientError(x) ==
  /\ At(x, "key") /\ TroubleLeft
  /\ IF P(x).tries < 4 THEN Become(x, [P(x) EXCEPT !.tries = @ + 1]) ELSE Throw(x)
  /\ UNCHANGED <<outside, files, verified>>

-----------------------------------------------------------------------------
(* upsertContractMetadata: read, then write; a file that does not parse    *)
(* reads as empty.                                                         *)

Entry(x) ==
  CASE P(x).cmd.tool = "self" -> P(x).tx.to
    [] P(x).cmd.signer = "private-key" -> P(x).tx
    [] OTHER -> Predicted(x, P(x).cmd.chain)

ReadExistingMetadata(x) ==
  /\ At(x, "record")
  /\ Become(x, [P(x) EXCEPT !.old = IF torn THEN {} ELSE meta, !.pc = "write"])
  /\ UNCHANGED <<outside, files, verified, troubles>>

UpsertContractMetadata(x) ==
  /\ At(x, "write")
  /\ meta' = P(x).old \cup {Entry(x)}
  /\ torn' = FALSE
  /\ Throw(x)
  /\ UNCHANGED <<outside, receipt, verified, troubles>>

-----------------------------------------------------------------------------
(* The specification *)

\* forge build, in another window.
Rebuild ==
  /\ TroubleLeft
  /\ artifact' \in Codes \ {artifact}
  /\ UNCHANGED <<session, code, visible, requests, fresh, files, proc, verified>>

\* Time passes; whatever is older than a receipt's life is as old as that.
Older(r) == [r EXCEPT !.age = IF @ > MaxAge THEN @ ELSE @ + 1]

Tick ==
  /\ receipt' = {Older(r) : r \in receipt}
  /\ verified' = {Older(v) : v \in verified}
  /\ <<receipt, verified>>' # <<receipt, verified>>
  /\ UNCHANGED <<outside, meta, torn, proc, troubles>>

\* Bound: a command that needs fresh addresses starts while there are some.
FreshLeft(cmd) ==
  \/ cmd.factory /\ cmd.wallet = "kept" /\ cmd.tool = "compass"
  \/ fresh + 2 <= MaxFresh

Proceed(x) ==
  \/ VerifyOnFork(x) \/ ForkReverts(x) \/ ForkEnds(x) \/ Rehearse(x) \/ Gate(x)
  \/ Poll(x) \/ Wallet(x) \/ ReuseFactory(x) \/ DeployFactory(x) \/ Look(x) \/ Broadcast(x)
  \/ Confirm(x) \/ NoCode(x) \/ DeployContract(x) \/ KeyRefused(x) \/ LiveDeploy(x)
  \/ ReadExistingMetadata(x) \/ UpsertContractMetadata(x)

DInit ==
  /\ session \in Sessions
  /\ artifact \in Codes /\ receipt = {} /\ meta = {} /\ torn = FALSE
  /\ code = {OldFactory} /\ visible = {OldFactory} /\ requests = {} /\ fresh = 0
  /\ proc = [x \in Terminals |-> Off]
  /\ verified = {} /\ troubles = 0

DNext ==
  \/ \E x \in Terminals :
       \/ Proceed(x) \/ ScriptKilled(x) \/ RequestFails(x) \/ PollTimesOut(x) \/ TransientError(x)
       \/ \E cmd \in session[x] : FreshLeft(cmd) /\ Run(x, cmd)
  \/ \E u \in requests : CircleLands(u)
  \/ NodeSees \/ Rebuild \/ Tick

\* Custody commands that need no receipt and name the factory.
Repeatable(x) == {cmd \in session[x] : /\ cmd.tool = "compass" /\ cmd.signer = "dcw" /\ cmd.factory
                                       /\ cmd.wallet = "kept" /\ cmd.args = "none"
                                       /\ cmd.chain = cmd.blockchain
                                       /\ cmd.mode = "fork-then-live" \/ cmd.skip}

(* A process goes on, Circle carries out what it accepted, the node catches *)
(* up, and the operator comes back to such a command.  No fault is forced.  *)
DFairness ==
  /\ \A x \in Terminals : WF_dVars(Proceed(x))
  /\ WF_dVars(\E u \in requests : CircleLands(u)) /\ WF_dVars(NodeSees)
  /\ \A x \in Terminals : SF_dVars(\E cmd \in Repeatable(x) : Run(x, cmd))

DSpec == DInit /\ [][DNext]_dVars /\ DFairness

-----------------------------------------------------------------------------
(* Properties *)

Gated(x) == P(x).cmd.tool = "compass" /\ P(x).cmd.mode = "live" /\ ~P(x).cmd.skip
SendsUnverified(x) ==
  \/ At(x, "broadcast") /\ proc'[x].pc = "poll" /\ proc'[x].tx.to.runs \notin P(x).passed
  \/ At(x, "key") /\ \E c \in code' \ code : c.kind = "compass" /\ c.runs \notin P(x).passed

\* Through rebuilds, overwritten receipts and a second terminal, what a custody
\* --mode live sends behind the gate ran on a fork of that chain in the two hours before the gate.
CustodyDeploysVerified ==
  [][\A x \in Terminals : Gated(x) /\ P(x).cmd.signer = "dcw" => ~SendsUnverified(x)]_dVars

\* The metadata file names only contracts that exist on the chain it gives.
RecordedHasCode == \A c \in meta : c \in code

\* A custody deployment that landed after its process stopped waiting is found
\* by the same command run again, and recorded, unless the artifact changed.
LandedIsRecorded ==
  \A b \in {x \in Codes : Constructs(x, "none")} :
    LET c == PredictCreate2Address(OldFactory, Salt(0), Initcode(b, "none"), OldFactory.net)
    IN (c \in code /\ \E x \in Terminals : Repeatable(x) # {}) ~> (c \in meta \/ artifact # b)

\* The two promises of a custody deployment, before it is sent and after it landed.
DeploysKept == CustodyDeploysVerified /\ LandedIsRecorded
=============================================================================
