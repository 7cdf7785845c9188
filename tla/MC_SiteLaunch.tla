--------------------------- MODULE MC_SiteLaunch ---------------------------
(***************************************************************************)
(* A behaviour creates a token, reads a file of one that was created, or   *)
(* keeps a wallet in the browser it does all this from.                    *)
(***************************************************************************)
EXTENDS CreateLaunch, VerifiedFiles, WalletVault, TLC

CONSTANT Parts

Typed(p, n) == [version |-> "v13", typing |-> "plan", plan |-> p, edits |-> n, until |-> 0]
Wallet == [kind |-> "wallet", address |-> ""]
Pays(a) == [address |-> a, share |-> 1]
TwoPayees == [kind |-> "split", payees |-> <<Pays("friend"), Pays("creator")>>]
Entry(t, n) == [target |-> t, percent |-> n]
SplitInCombo == [kind |-> "combo", entries |-> <<Entry(TwoPayees, 1), Entry([kind |-> "custom", address |-> "friend"], 1)>>]
DeepenInCombo == [kind |-> "combo", entries |-> <<Entry([kind |-> "deepen", burnShare |-> 1], 2)>>]

Told(version) == [version |-> version, typing |-> "details", plan |-> Wallet, edits |-> 3, until |-> 4]

MCScenes == {Typed(Wallet, 3), Typed(TwoPayees, 2), Typed(SplitInCombo, 2), Typed(DeepenInCombo, 2),
             Told("v13")}
MCTexts == {"", "wrong", "zero", "usdc", "router", "creator", "friend", "pool", "token", "ownPlugin", "split"}
MCGateways == <<"pinning", "public">>

MCSymmetry == Permutations(Tabs)

VARIABLE part

mcVars == <<part, cVars, fVars, wvVars>>

FileParked == ~ours /\ hosts = [g \in DOMAIN Gateways |-> "nothing"]
FormParked == scene = Told("v13")
WalletParked == available = PasskeysOffered(CHOOSE device \in Devices : TRUE)

MCInit ==
  /\ part \in Parts
  /\ CInit /\ FInit /\ WVInit
  /\ part # "create" => FormParked
  /\ part # "read" => FileParked
  /\ part # "wallet" => WalletParked

MCNext ==
  /\ UNCHANGED part
  /\ \/ part = "create" /\ CNext /\ UNCHANGED <<fVars, wvVars>>
     \/ part = "read" /\ FNext /\ UNCHANGED <<cVars, wvVars>>
     \/ part = "wallet" /\ WVNext /\ UNCHANGED <<cVars, fVars>>

MCSpec == MCInit /\ [][MCNext]_mcVars
=============================================================================
