------------------------------- MODULE Signing -------------------------------
(***************************************************************************)
(* What an `await writeContractAsync(...)` of the site waits for: the      *)
(* wallet.  Two connectors are modelled.  An extension shows every request *)
(* by itself and answers it.  The browser wallet keeps its key under one   *)
(* keystore record shared by all tabs; a request is checked against the    *)
(* record, waits for its turn in the unlock queue (lib/unlock.ts), is      *)
(* shown in the one confirm sheet (UnlockSheet.tsx), and is signed with    *)
(* the key of the record read when Confirm is pressed.                     *)
(*                                                                         *)
(* Addresses are members of Owners; keys, ciphertexts, passkeys and the    *)
(* text of a request are abstracted: a key is the address it belongs to.   *)
(***************************************************************************)
EXTENDS Naturals, Sequences, FiniteSets

CONSTANTS
    Owners,     \* addresses the user has a wallet for
    Nobody,     \* no keystore record, no account, no signer
    MaxAsks     \* bound: requests the liveness property speaks of

ASSUME OwnersAssumption == Nobody \notin Owners /\ MaxAsks \in Nat

VARIABLES
    connector,  \* "extension" or "browser": the connector in use
    account,    \* the address the site is connected as
    keystore,   \* the address of the browser's keystore record, or Nobody
    asks,       \* every request made of the wallet, in order
    sheet,      \* index of the request the confirm sheet shows, 0 if closed
    unlocking,  \* confirmations under way: the request and the record read
    confirmed   \* history: requests whose own sheet had Confirm pressed

walletVars == <<connector, account, keystore, asks, sheet, unlocking, confirmed>>

(***************************************************************************)
(* A request: who made it (`by`), what it asks for (`does`), the address   *)
(* it is from, how far the wallet and the chain are with it (`stage`), the *)
(* key that signed it, and what the page has been told (`reply`).          *)
(***************************************************************************)
Stages == {"queued", "shown", "keyed", "sent", "landed", "reverted", "closed"}
Replies == {"none", "hash", "signature", "rejected", "error"}

Asked(by, does) ==
    [by |-> by, does |-> does, from |-> account, signer |-> Nobody,
     stage |-> IF connector = "extension" THEN "shown" ELSE "queued",
     reply |-> "none"]

(* assertOwner, before the request joins the queue. *)
OwnerMatches == keystore # Nobody /\ keystore = account

(* The answer to a request the wallet refuses without showing it. *)
Refused(ask) == [ask EXCEPT !.stage = "closed", !.reply = "error"]

(* writeContractAsync or signTypedDataAsync: the request is made of the wallet. *)
AskWallet(by, does) ==
    asks' = Append(asks, IF connector = "browser" /\ ~OwnerMatches
                         THEN Refused(Asked(by, does))
                         ELSE Asked(by, does))

-----------------------------------------------------------------------------
(***************************************************************************)
(* The browser wallet's queue and sheet                                    *)
(***************************************************************************)
Unsettled(i) == asks[i].stage \in {"queued", "shown"}

(* requestUnlock: a request's turn comes when every earlier one is settled. *)
ShowNext ==
    /\ \E i \in DOMAIN asks :
          /\ asks[i].stage = "queued"
          /\ \A j \in 1 .. i - 1 : ~Unsettled(j)
          /\ asks' = [asks EXCEPT ![i].stage = "shown"]
          /\ sheet' = i
    /\ UNCHANGED <<connector, account, keystore, unlocking, confirmed>>

(* confirm, up to its await: unlockLocalWallet reads the record as it is now. *)
PressConfirm ==
    /\ sheet # 0 /\ keystore # Nobody
    /\ ~\E u \in unlocking : u.ask = sheet
    /\ unlocking' = unlocking \cup {[ask |-> sheet, owner |-> keystore]}
    /\ confirmed' = confirmed \cup {sheet}
    /\ UNCHANGED <<connector, account, keystore, asks, sheet>>

(* Fault: the key goes to the request the sheet shows by now. *)
ResolvedOnSheet(u) ==
    IF sheet # 0 /\ Unsettled(sheet)
    THEN [asks EXCEPT ![sheet].stage = "keyed", ![sheet].signer = u.owner]
    ELSE asks

(* A promise takes its first settlement and ignores the later ones. *)
Resolved(u) ==
    IF Unsettled(u.ask)
    THEN [asks EXCEPT ![u.ask].stage = "keyed", ![u.ask].signer = u.owner]
    ELSE asks

(* confirm after its await: the request gets the key, and onDone closes the *)
(* sheet, whichever request it shows by now.                                *)
Unlocked(u) ==
    /\ u \in unlocking
    /\ unlocking' = unlocking \ {u}
    /\ asks' = Resolved(u)
    /\ sheet' = 0
    /\ UNCHANGED <<connector, account, keystore, confirmed>>

(* A wrong password, or a passkey prompt dismissed: the sheet says so and stays. *)
UnlockRefused(u) ==
    /\ u \in unlocking
    /\ unlocking' = unlocking \ {u}
    /\ UNCHANGED <<connector, account, keystore, asks, sheet, confirmed>>

(* Cancel and Escape work while a confirmation is under way too. *)
CancelSheet ==
    /\ sheet # 0
    /\ asks' = [asks EXCEPT ![sheet].stage = "closed", ![sheet].reply = "rejected"]
    /\ sheet' = 0
    /\ UNCHANGED <<connector, account, keystore, unlocking, confirmed>>

-----------------------------------------------------------------------------
(***************************************************************************)
(* Answers.  A signature goes back to the page; a transaction goes out and *)
(* its hash comes back, or the reply is lost and the page sees an error.   *)
(***************************************************************************)
Answerable(i) ==
    asks[i].stage = (IF connector = "extension" THEN "shown" ELSE "keyed")

Signer(i) == IF connector = "extension" THEN asks[i].from ELSE asks[i].signer

Sign(i, reply) ==
    /\ Answerable(i)
    /\ asks' = [asks EXCEPT
          ![i].signer = Signer(i),
          ![i].stage = IF asks[i].does = "permit" THEN "closed" ELSE "sent",
          ![i].reply = IF asks[i].does = "permit" /\ reply = "hash"
                       THEN "signature" ELSE reply]
    /\ UNCHANGED <<connector, account, keystore, sheet, unlocking, confirmed>>

(* The extension's own Reject, or a request neither wallet can carry out. *)
Turndown(i, reply) ==
    /\ Answerable(i)
    /\ reply = "rejected" => connector = "extension"
    /\ asks' = [asks EXCEPT ![i].stage = "closed", ![i].reply = reply]
    /\ UNCHANGED <<connector, account, keystore, sheet, unlocking, confirmed>>

-----------------------------------------------------------------------------
(***************************************************************************)
(* The keystore record is one per browser: creating, importing or signing  *)
(* in to a wallet in another tab replaces it under this one, whose          *)
(* connection stays as it was, and forgetting it there removes it.          *)
(***************************************************************************)
SaveElsewhere(o) ==
    /\ connector = "browser" /\ o # keystore /\ keystore' = o
    /\ UNCHANGED <<connector, account, asks, sheet, unlocking, confirmed>>

ForgetElsewhere ==
    /\ connector = "browser" /\ keystore # Nobody /\ keystore' = Nobody
    /\ UNCHANGED <<connector, account, asks, sheet, unlocking, confirmed>>

-----------------------------------------------------------------------------
(* The browser wallet signs only what the user confirmed: a request gets a key *)
(* only if Confirm was pressed on its own sheet, and never after its Cancel,    *)
(* however confirmations, cancellations and later requests overlap             *)
(* (UnlockSheet.tsx: "Every signature lands here first").                      *)
OnlyConfirmedSigned ==
    connector = "browser" =>
        \A i \in DOMAIN asks :
            asks[i].signer # Nobody => i \in confirmed /\ asks[i].reply # "rejected"

=============================================================================
