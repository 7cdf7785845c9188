----------------------------- MODULE WalletVault -----------------------------
(***************************************************************************)
(* The browser wallet's custody: the one keystore record a browser keeps   *)
(* (lib/localWallet.ts), what opens it (lib/keystore.ts), the owner's      *)
(* passkeys, and the connect sheets of the open tabs that make, import,    *)
(* sign in to, reveal and forget wallets (components/ConnectSheet.tsx).    *)
(*                                                                         *)
(* A key is abstracted to where it comes from: drawn at random, brought by *)
(* the owner, or derived from a passkey and a salt; an address is its key. *)
(* What seals a stored key is the secret that opens it again.              *)
(***************************************************************************)
EXTENDS Naturals, FiniteSets

CONSTANTS
    Tabs,       \* open tabs of the site in one browser
    Passwords,  \* passwords of at least eight characters the owner types
    MaxBorn,    \* bound: passkeys and random keys made
    MaxStores,   \* bound: records saved
    MaxOpens    \* bound: times a tab's sheet is opened

ASSUME VaultAssumption == MaxBorn \in Nat /\ MaxStores \in Nat /\ MaxOpens \in Nat /\ Passwords \subseteq Nat \ {0}

VARIABLES
    available,  \* passkeysAvailable's answer on this device
    record,     \* the keystore record all tabs share
    passkeys,   \* what the owner's authenticators hold
    views,      \* the record as each tab's React state last read it
    sheets,     \* each tab's connect sheet and the body mounted in it
    joined,     \* the account each tab is connected as
    jobs,       \* awaits under way, of mounted and unmounted bodies
    copies,     \* keys the owner holds outside the browser
    born,       \* passkeys and random keys made so far
    stores,      \* history: records saved so far
    heard,      \* history: how many of them each tab's React state has read
    lost        \* history: how sole copies went: "forgotten", "raced", "unasked"

wvVars == <<available, record, passkeys, views, sheets, joined, jobs, copies, born, stores, heard, lost>>

-----------------------------------------------------------------------------
(***************************************************************************)
(* Keys, secrets and records                                               *)
(***************************************************************************)
KeyOf(from, id, salt) == [from |-> from, id |-> id, salt |-> salt]
NoKey == KeyOf("none", 0, 0)
Outside == KeyOf("outside", 0, 0)   \* the account of a wallet that is not the browser's
Brought == KeyOf("brought", 0, 0)   \* the key the owner imports

WALLET_SALT == 0
RANDOM_SALT == 1          \* of a wrapped key; a passkey wraps one key
HANDLE_WALLET == "atx1"
HANDLE_WRAP == "atxw"

(* What an authenticator returns for a passkey and a salt. *)
Prf(id, salt) == KeyOf("prf", id, salt)

DeriveWalletKey(output) == [output EXCEPT !.from = "passkey"]

(* The three shapes of a keystore record, and a record being made. *)
Record(kind, address, cred, salt, seal) ==
    [kind |-> kind, address |-> address, cred |-> cred, salt |-> salt, seal |-> seal]
NoRecord == Record("none", NoKey, 0, 0, NoKey)
PasswordRecord(key, p) == Record("password", key, 0, 0, KeyOf("password", p, 0))
Wrapping(key) == Record("passkey", key, 0, RANDOM_SALT, NoKey)
Deriving == Record("passkey-derived", NoKey, 0, WALLET_SALT, NoKey)

IsPasskeyKind(rec) == rec.kind \in {"passkey", "passkey-derived"}

(* The record once the passkey's output is in. *)
Filled(rec, output) ==
    IF rec.kind = "passkey-derived"
    THEN [rec EXCEPT !.address = DeriveWalletKey(output)]
    ELSE [rec EXCEPT !.seal = output]

(* unlockLocalWallet: the key a record yields to a typed password, the one *)
(* passkey it names being asked where it names one; NoKey is an error.     *)
Prompted(rec) ==
    IF \E k \in passkeys : k.id = rec.cred /\ k.prf THEN Prf(rec.cred, rec.salt) ELSE NoKey

OpensTo(rec, typed) ==
    CASE rec.kind = "passkey-derived" ->
            (IF Prompted(rec) # NoKey /\ DeriveWalletKey(Prompted(rec)) = rec.address
             THEN rec.address ELSE NoKey)
      [] rec.kind = "passkey" ->
            (IF Prompted(rec) # NoKey /\ Prompted(rec) = rec.seal THEN rec.address ELSE NoKey)
      [] rec.kind = "password" ->
            (IF KeyOf("password", typed, 0) = rec.seal THEN rec.address ELSE NoKey)
      [] rec.kind = "none" -> NoKey

(* passkeysAvailable; a browser that cannot say keeps passkeys offered. *)
PasskeysOffered(device) ==
    device.secure /\ device.platform /\ device.probe # "no"

Devices == [secure : BOOLEAN, platform : BOOLEAN, probe : {"yes", "no", "cannot say"}]

-----------------------------------------------------------------------------
(***************************************************************************)
(* The sheet                                                               *)
(***************************************************************************)
Body(n) == [open |-> TRUE, opens |-> n, busy |-> FALSE, keepOpen |-> FALSE,
            confirmForget |-> FALSE, revealed |-> NoKey]

Closed(sheet) == [sheet EXCEPT !.open = FALSE, !.busy = FALSE, !.keepOpen = FALSE,
                               !.confirmForget = FALSE, !.revealed = NoKey]

IsConnected(t) == joined[t] # NoKey
UsingLocal(t) == IsConnected(t) /\ joined[t] # Outside

(* What the two faces of an open sheet offer. *)
ConnectedFace(t) == sheets[t].open /\ IsConnected(t)
ChoosingFace(t) == sheets[t].open /\ ~IsConnected(t)

(* Fault: the block shows beside an existing wallet's row. *)
WalletFormAlways(t) == ChoosingFace(t) /\ ~sheets[t].busy

(* The browser-wallet block, only while no browser wallet exists. *)
WalletForm(t) == ChoosingFace(t) /\ views[t] = NoRecord /\ ~sheets[t].busy

(* Bound: records saved, and jobs that may save one. *)
MaySaveMore == stores + Cardinality(jobs) < MaxStores

(* A body's own state; an unmounted body's updates go nowhere. *)
Mounted(j) == sheets[j.tab].open /\ sheets[j.tab].opens = j.opens

(* The effect on isConnected: a fresh connection closes the sheet, unless *)
(* this body made the wallet.                                             *)
OnJoin(sheet) ==
    IF ~sheet.open THEN sheet
    ELSE IF sheet.keepOpen THEN [sheet EXCEPT !.keepOpen = FALSE] ELSE Closed(sheet)

OpenSheet(t) ==
    /\ ~sheets[t].open /\ sheets[t].opens < MaxOpens
    /\ sheets' = [sheets EXCEPT ![t] = Body(@.opens + 1)]
    /\ UNCHANGED <<available, record, passkeys, views, joined, jobs, copies, born, stores, heard, lost>>

(* Escape, the toggle event and the light dismiss; what is awaited goes on. *)
CloseSheet(t) ==
    /\ sheets[t].open
    /\ sheets' = [sheets EXCEPT ![t] = Closed(@)]
    /\ UNCHANGED <<available, record, passkeys, views, joined, jobs, copies, born, stores, heard, lost>>

-----------------------------------------------------------------------------
(***************************************************************************)
(* Jobs: what a body awaits.  `began` counts the saved records its tab had *)
(* heard of when it started.                                               *)
(***************************************************************************)
Job(t, does, step, rec, typed) ==
    [tab |-> t, opens |-> sheets[t].opens, does |-> does, step |-> step, rec |-> rec,
     typed |-> typed, began |-> heard[t]]

Started(j) ==
    /\ jobs' = jobs \cup {j}
    /\ sheets' = [sheets EXCEPT ![j.tab].busy = TRUE,
                                ![j.tab].keepOpen = @ \/ j.does \in {"create", "import"}]
    /\ UNCHANGED <<available, record, passkeys, views, joined, copies, stores, heard, lost>>

(* submitWallet with two equal passwords: wrap encrypts, then saves. *)
SubmitPassword(t, does, p) ==
    /\ WalletForm(t) /\ MaySaveMore /\ born < MaxBorn
    /\ Started(Job(t, does, "save",
                   PasswordRecord(IF does = "import" THEN Brought ELSE KeyOf("random", born + 1, 0), p), 0))
    /\ born' = born + 1

(* submitWallet with a passkey: a created wallet is derived, an import wrapped. *)
SubmitPasskey(t, does) ==
    /\ WalletForm(t) /\ MaySaveMore /\ available
    /\ Started(Job(t, does, "register", IF does = "import" THEN Wrapping(Brought) ELSE Deriving, 0))
    /\ UNCHANGED born

(* signIn: the browser's own chooser; nothing local is needed. *)
SignIn(t) ==
    /\ WalletForm(t) /\ MaySaveMore /\ available
    /\ Started(Job(t, "signin", "choose", Deriving, 0))
    /\ UNCHANGED born

(* A step of a job that leaves everything else alone. *)
Advances(j, next) ==
    /\ jobs' = (jobs \ {j}) \cup {next}
    /\ UNCHANGED <<available, record, views, sheets, joined, copies, stores, heard, lost>>

(* catch and finally of submitWallet, signIn and reveal. *)
JobFails(j) ==
    /\ jobs' = jobs \ {j}
    /\ sheets' = IF ~Mounted(j) THEN sheets
                 ELSE [sheets EXCEPT ![j.tab].busy = FALSE,
                                     ![j.tab].keepOpen = @ /\ j.does \notin {"create", "import"}]
    /\ UNCHANGED <<available, record, views, joined, copies, stores, heard, lost>>

Tag(rec) == IF rec.kind = "passkey" THEN HANDLE_WRAP ELSE HANDLE_WALLET

(* registerPasskey: some authenticators give the output at once, some only *)
(* when asked again.                                                       *)
Registered(j, early) ==
    /\ j.step = "register" /\ born < MaxBorn
    /\ passkeys' = passkeys \cup {[id |-> born + 1, tag |-> Tag(j.rec), prf |-> TRUE]}
    /\ born' = born + 1
    /\ LET named == [j.rec EXCEPT !.cred = born + 1] IN
       Advances(j, [j EXCEPT !.step = IF early THEN "save" ELSE "assert",
                             !.rec = IF early THEN Filled(named, Prf(born + 1, named.salt)) ELSE named])

(* A passkey that cannot hold a wallet is refused, and stays behind. *)
RegisteredWithoutPrf(j) ==
    /\ j.step = "register" /\ born < MaxBorn
    /\ passkeys' = passkeys \cup {[id |-> born + 1, tag |-> Tag(j.rec), prf |-> FALSE]}
    /\ born' = born + 1
    /\ JobFails(j)

(* assertPrf pinned to the passkey just made. *)
Asserted(j) ==
    /\ j.step = "assert"
    /\ Advances(j, [j EXCEPT !.step = "save", !.rec = Filled(@, Prf(j.rec.cred, j.rec.salt))])
    /\ UNCHANGED <<passkeys, born>>

(* signInWalletPasskey. *)
Chosen(j, k) ==
    /\ j.step = "choose" /\ k \in passkeys /\ k.prf /\ k.tag # HANDLE_WRAP
    /\ Advances(j, [j EXCEPT !.step = "save",
                             !.rec = Filled([@ EXCEPT !.cred = k.id], Prf(k.id, WALLET_SALT))])
    /\ UNCHANGED <<passkeys, born>>

(* The prompt is dismissed or times out, or the passkey chosen cannot sign in. *)
PromptRefused(j) ==
    /\ \/ j.step \in {"register", "assert", "choose"}
       \/ j.step = "open" /\ IsPasskeyKind(j.rec)
    /\ JobFails(j)
    /\ UNCHANGED <<passkeys, born>>

(* A key whose only copy is the record: drawn here and never revealed. *)
SoleCopy(rec) == rec.address.from = "random" /\ rec.address \notin copies

-----------------------------------------------------------------------------
(***************************************************************************)
(* save, leaveForm and connectLocal: the record is replaced whatever it    *)
(* is by now; connecting reads it back, and fails where this tab is        *)
(* connected as the browser wallet already.                                *)
(***************************************************************************)
Replaces(j) ==
    IF ~SoleCopy(record) THEN lost
    ELSE lost \cup {IF j.began < stores THEN "raced" ELSE "unasked"}

Save(j) ==
    /\ j.step = "save"
    /\ record' = j.rec /\ stores' = stores + 1 /\ lost' = Replaces(j)
    /\ jobs' = jobs \ {j}
    /\ views' = [views EXCEPT ![j.tab] = j.rec]
    /\ heard' = [heard EXCEPT ![j.tab] = stores + 1]
    /\ joined' = IF UsingLocal(j.tab) THEN joined ELSE [joined EXCEPT ![j.tab] = j.rec.address]
    /\ LET done == IF Mounted(j) THEN [sheets[j.tab] EXCEPT !.busy = FALSE] ELSE sheets[j.tab]
       IN  sheets' = [sheets EXCEPT ![j.tab] = IF IsConnected(j.tab) THEN done ELSE OnJoin(done)]
    /\ UNCHANGED <<available, passkeys, copies, born>>

(* reveal: the record is read when it is pressed; a body that believes the *)
(* wallet is a passkey's asks for no password.                             *)
PressReveal(t, p) ==
    /\ ConnectedFace(t) /\ UsingLocal(t) /\ ~sheets[t].busy /\ sheets[t].revealed = NoKey
    /\ record # NoRecord
    /\ record.kind = "password" => ~IsPasskeyKind(views[t])
    /\ Started(Job(t, "reveal", "open", record, p))
    /\ UNCHANGED born

Revealed(j) ==
    /\ j.step = "open" /\ OpensTo(j.rec, j.typed) # NoKey
    /\ jobs' = jobs \ {j}
    /\ sheets' = IF Mounted(j)
                 THEN [sheets EXCEPT ![j.tab].busy = FALSE,
                                     ![j.tab].revealed = OpensTo(j.rec, j.typed)]
                 ELSE sheets
    /\ copies' = IF Mounted(j) /\ UsingLocal(j.tab)
                 THEN copies \cup {OpensTo(j.rec, j.typed)} ELSE copies
    /\ UNCHANGED <<available, record, passkeys, views, joined, born, stores, heard, lost>>

(* A wrong password. *)
RevealRefused(j) ==
    /\ j.step = "open" /\ OpensTo(j.rec, j.typed) = NoKey
    /\ JobFails(j)
    /\ UNCHANGED <<passkeys, born>>

AskForget(t) ==
    /\ ConnectedFace(t) /\ UsingLocal(t) /\ ~sheets[t].confirmForget
    /\ sheets' = [sheets EXCEPT ![t].confirmForget = TRUE]
    /\ UNCHANGED <<available, record, passkeys, views, joined, jobs, copies, born, stores, heard, lost>>

KeepIt(t) ==
    /\ sheets[t].confirmForget
    /\ sheets' = [sheets EXCEPT ![t].confirmForget = FALSE]
    /\ UNCHANGED <<available, record, passkeys, views, joined, jobs, copies, born, stores, heard, lost>>

(* Forget for good: whichever wallet the browser keeps by now. *)
Forget(t) ==
    /\ ConnectedFace(t) /\ UsingLocal(t) /\ sheets[t].confirmForget
    /\ record' = NoRecord
    /\ lost' = IF SoleCopy(record) THEN lost \cup {"forgotten"} ELSE lost
    /\ joined' = [joined EXCEPT ![t] = NoKey]
    /\ views' = [views EXCEPT ![t] = NoRecord]
    /\ sheets' = [sheets EXCEPT ![t] = Closed(@)]
    /\ heard' = [heard EXCEPT ![t] = stores]
    /\ UNCHANGED <<available, passkeys, jobs, copies, born, stores>>

Disconnect(t) ==
    /\ ConnectedFace(t)
    /\ joined' = [joined EXCEPT ![t] = NoKey]
    /\ UNCHANGED <<available, record, passkeys, views, sheets, jobs, copies, born, stores, heard, lost>>

(* The row of the browser wallet; it reads the record when pressed. *)
PickLocal(t) ==
    /\ ChoosingFace(t) /\ views[t] # NoRecord /\ record # NoRecord
    /\ joined' = [joined EXCEPT ![t] = record.address]
    /\ sheets' = [sheets EXCEPT ![t] = OnJoin(@)]
    /\ UNCHANGED <<available, record, passkeys, views, jobs, copies, born, stores, heard, lost>>

(* An extension's row. *)
PickExtension(t) ==
    /\ ChoosingFace(t)
    /\ joined' = [joined EXCEPT ![t] = Outside]
    /\ sheets' = [sheets EXCEPT ![t] = OnJoin(@)]
    /\ UNCHANGED <<available, record, passkeys, views, jobs, copies, born, stores, heard, lost>>

(* The storage event reaches another tab. *)
StorageEvent(t) ==
    /\ views[t] # record
    /\ views' = [views EXCEPT ![t] = record]
    /\ heard' = [heard EXCEPT ![t] = stores]
    /\ UNCHANGED <<available, record, passkeys, sheets, joined, jobs, copies, born, stores, lost>>

(* A reload drops what the tab awaits; the session is restored from the record. *)
Reload(t) ==
    /\ \E j \in jobs : j.tab = t
    /\ jobs' = {j \in jobs : j.tab # t}
    /\ sheets' = [sheets EXCEPT ![t] = Closed(@)]
    /\ views' = [views EXCEPT ![t] = record]
    /\ heard' = [heard EXCEPT ![t] = stores]
    /\ joined' = [joined EXCEPT ![t] = record.address]
    /\ UNCHANGED <<available, record, passkeys, copies, born, stores, lost>>

-----------------------------------------------------------------------------
(* The owner has a wallet passkey made on another device. *)
WVInit ==
    /\ \E device \in Devices : available = PasskeysOffered(device)
    /\ record = NoRecord /\ stores = 0
    /\ passkeys = {[id |-> 1, tag |-> HANDLE_WALLET, prf |-> TRUE]} /\ born = 1
    /\ views = [t \in Tabs |-> NoRecord]
    /\ sheets = [t \in Tabs |-> Closed(Body(0))]
    /\ joined = [t \in Tabs |-> NoKey]
    /\ heard = [t \in Tabs |-> 0]
    /\ jobs = {} /\ copies = {Brought} /\ lost = {}

JobStep(j) ==
    \/ \E early \in BOOLEAN : Registered(j, early)
    \/ RegisteredWithoutPrf(j)
    \/ Asserted(j)
    \/ \E k \in passkeys : Chosen(j, k)
    \/ PromptRefused(j)
    \/ Save(j)
    \/ Revealed(j)
    \/ RevealRefused(j)

WVNext ==
    \/ \E j \in jobs : JobStep(j)
    \/ \E t \in Tabs :
        \/ OpenSheet(t) \/ CloseSheet(t)
        \/ \E does \in {"create", "import"} :
              (\E p \in Passwords : SubmitPassword(t, does, p)) \/ SubmitPasskey(t, does)
        \/ SignIn(t)
        \/ \E p \in Passwords \cup {0} : PressReveal(t, p)
        \/ AskForget(t) \/ KeepIt(t) \/ Forget(t)
        \/ Disconnect(t) \/ PickLocal(t) \/ PickExtension(t) \/ StorageEvent(t) \/ Reload(t)

WVSpec == WVInit /\ [][WVNext]_wvVars

-----------------------------------------------------------------------------
(* Whatever is stored opens: the record yields the key of its address to some   *)
(* password or to the passkey it names, and a derived record names a passkey    *)
(* that is a wallet and no wrapping one, so that signing in anywhere brings the *)
(* same wallet back (README.md: "brings the same wallet back in any browser     *)
(* where the passkey syncs").                                                   *)
RecordOpens ==
    record # NoRecord =>
        /\ \E p \in Passwords \cup {0} : OpensTo(record, p) = record.address
        /\ record.kind = "passkey-derived" =>
              \E k \in passkeys :
                  /\ k.id = record.cred /\ k.tag = HANDLE_WALLET
                  /\ DeriveWalletKey(Prf(k.id, WALLET_SALT)) = record.address

(* A key whose only copy is in this browser goes only when its owner presses   *)
(* Forget for good, or when two wallets were being made at once: a stored one   *)
(* is never written over by a wallet begun in a tab that had heard of it,      *)
(* whatever was cancelled, reloaded, closed or reopened (localWallet.ts, save). *)
SoleCopyKept == "unasked" \notin lost

(* The wallet of this browser is there and opens until its owner forgets it.    *)
WalletKept == RecordOpens /\ SoleCopyKept
=============================================================================
