----------------------------- MODULE MC_Scripts -----------------------------
(***************************************************************************)
(* A behaviour drives a rehearsal, or deploys a contract, or is a launch   *)
(* as the v1.4 rehearsal models it; the parts a behaviour is not about     *)
(* stay where they are.                                                    *)
(***************************************************************************)
EXTENDS Rehearsal, Deployments, V14Launch

-----------------------------------------------------------------------------
(* Rehearsals: small kinds and features; every step function of the        *)
(* scripts is used.  The longest scripts run once without a fault, and     *)
(* with one where a gas cap stops them early or a part of them is left.    *)

V14RunA == V14Plan(<<"split">>, <<"split">>, <<"split">>, 1, FALSE)
V14RunB == V14Plan(<<"wallet">>, <<>>, <<>>, 1, TRUE)
V13RunA == V13Plan(<<"combo">>, 1, FALSE)
V13RunB == V13Plan(<<"split">>, 1, TRUE)
Deepen  == DeepenPlan(<<"main">>)

\* Run A with no holder to claim, and the attack alone.
V14Whole == V14Plan(<<"split">>, <<"split">>, <<>>, 1, FALSE)
Attack   == DeepenPlan(<<>>)

MCPlans == {<<>>, V14RunA, V14RunB, V13RunA, V13RunB, Deepen, V14Whole, Attack}

\* The scripts with all their tokens: too long to drive, laid out the same way.
FullPlans ==
  {V14Plan(<<"wallet", "split", "holders", "combo", "zero">>, <<"holders", "split">>,
           <<"holders", "combo">>, 3, FALSE),
   V13Plan(<<"wallet", "split", "buyback", "holders", "combo">>, 3, FALSE),
   V13Plan(<<"holders", "combo">>, 3, TRUE),
   DeepenPlan(<<"d1", "d0", "dfull", "dcombo">>)}

ASSUME FullPlansAssumption == \A script \in FullPlans : Shaped(script) /\ Ordered(script)

\* A cap no run reaches, ones a repeated transaction reaches, and two that
\* fall in the middle of the first and of the second batch of Run A.
MCGasCaps(script) ==
  CASE script = V14RunA -> {12, 16}
    [] script = V14RunB -> {9}
    [] script = V13RunB -> {3}
    [] OTHER -> {60}

MCMaxFaults(script) ==
  CASE script = V13RunB -> 2
    [] script \in {V14Whole, Deepen} -> 0
    [] OTHER -> 1

-----------------------------------------------------------------------------
(* Deployments: one terminal verifies on a fork, the other deploys; two    *)
(* bytecodes, the testnet and the mainnet, a mismatched pair of flags.     *)

Command(tool, mode, signer, args, factory, wallet, skip, blockchain) ==
  [tool |-> tool, mode |-> mode, signer |-> signer, args |-> args, factory |-> factory,
   wallet |-> wallet, skip |-> skip, rpc |-> TRUE, chain |-> "test", blockchain |-> blockchain]

Verify(args, blockchain) == Command("compass", "verify", "dcw", args, FALSE, "kept", FALSE, blockchain)
Live(args, factory, skip, blockchain) ==
  Command("compass", "live", "dcw", args, factory, "kept", skip, blockchain)

Custody  == Live("none", TRUE, FALSE, "test")
Rehearsed(signer) == Command("compass", "fork-then-live", signer, "none", TRUE, "kept", FALSE, "test")
Self     == Command("self", "live", "dcw", "none", TRUE, "new", FALSE, "test")

Session(fork, deploy) == [x \in {"fork", "deploy"} |-> IF x = "fork" THEN fork ELSE deploy]

MCTerminals == {"fork", "deploy"}
MCSessions ==
  {Session({}, {}),
   Session({Verify("none", "test")}, {Custody, Self}),
   Session({Verify("none", "main")}, {Custody, Live("none", TRUE, FALSE, "main")}),
   Session({Verify("deployer", "test")}, {Live("deployer", FALSE, FALSE, "test"), Custody}),
   Session({}, {Rehearsed("dcw"), Live("none", TRUE, TRUE, "test")}),
   Session({}, {Rehearsed("private-key"), Custody,
                Command("compass", "fork", "dcw", "none", TRUE, "kept", FALSE, "test")})}

\* Two faults where one terminal is used, one where the fork terminal runs as well.
MCMaxTroubles(session_) == IF session_["fork"] = {} THEN 2 ELSE 1

\* The second bytecode's constructor takes nothing, the third's refuses "none".
MCEncodes(bytes, args) == ~(bytes = 2 /\ args = "deployer")
MCConstructs(bytes, args) == ~(bytes = 3 /\ args = "none")
MCOldFactory == Contract("factory", "test", 0, <<0, "none">>)

-----------------------------------------------------------------------------
(* The v1.4 launch: one tick multiplies a square root price by 1.2, so two *)
(* ticks are a little more than half a price, and amounts keep the         *)
(* proportions of the rehearsal's.                                         *)

MCSqrt == [t \in -12..12 |->
  <<29, 34, 41, 50, 60, 71, 86, 103, 123, 148, 178, 213, 256,
    307, 369, 442, 531, 637, 764, 917, 1101, 1321, 1585, 1902, 2282>>[t + 13]]

MCMinTick == -12

MCAmounts == [curveBuy |-> 40, graduateOffer |-> 1400, poolWindowLift |-> 240, poolWindowBuy |-> 48,
              poolWindowSell |-> 12, rawWindowOutBuy |-> 15, dump |-> 450, liftCeiling |-> 4000,
              poolBuy |-> 24, poolSell |-> 12, rawOutBuy |-> 6, rawOutSellUsdc |-> 5,
              lpUsdc |-> 60, lpTokens |-> 60]

-----------------------------------------------------------------------------
VARIABLE part

mcVars == <<part, vars, dVars, vVars>>

Rehearses == part = "rehearsal" /\ UNCHANGED <<part, dVars, vVars>>
Deploys   == part = "deployment" /\ UNCHANGED <<part, vars, vVars>>
Launches  == part = "launch" /\ UNCHANGED <<part, vars, dVars>>

MCInit ==
  /\ Init /\ DInit /\ VInit
  /\ part \in {"rehearsal", "deployment", "launch"}
  /\ part # "rehearsal" => plan = <<>> /\ endowed
  /\ part # "deployment" => session = Session({}, {}) /\ artifact = (CHOOSE b \in Codes : TRUE)
  /\ part # "launch" => rec.usdcIs0 /\ rec.feature

MCNext ==
  \/ Rehearses /\ Next
  \/ Deploys /\ DNext
  \/ Launches /\ VNext

(* The fairness of Rehearsal and of Deployments, each in its own part; the *)
(* two that follow a process share their conjuncts.                        *)
MCFairness ==
  /\ WF_mcVars((Rehearses /\ Mine) \/ (Deploys /\ \E u \in requests : CircleLands(u)))
  /\ WF_mcVars((Rehearses /\ Drive) \/ (Deploys /\ Proceed("deploy")))
  /\ WF_mcVars((Rehearses /\ Start) \/ (Deploys /\ Proceed("fork")))
  /\ WF_mcVars(Deploys /\ NodeSees)
  /\ SF_mcVars(Deploys /\ \E cmd \in Repeatable("deploy") : Run("deploy", cmd))

MCSpec == MCInit /\ [][MCNext]_mcVars /\ MCFairness

(* Run again often enough, a rehearsal ends unless it asks for a person.   *)
RehearsalsFinish == part = "rehearsal" => Finishes
=============================================================================
