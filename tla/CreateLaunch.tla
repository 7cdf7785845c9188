----------------------------- MODULE CreateLaunch -----------------------------
(***************************************************************************)
(* Creating a token on the site: the form (LaunchCreate.tsx with           *)
(* FeeDestinationPicker.tsx), what it asks the chain about the typed       *)
(* addresses (useDestinationProbe.ts), the service that pins a launch's    *)
(* details before the launch (server/metadataService.ts), createToken      *)
(* itself, and the script that removes the files no token names            *)
(* (scripts/metadata-cleanup.ts).                                          *)
(*                                                                         *)
(* A file's address is its content: <<"image", p>> for a picture and       *)
(* <<"file", d, p>> for the details d (name and symbol among them) with    *)
(* picture p, "none" for no picture.  Time is counted in parts of a day;   *)
(* one is longer than a save, and than the clean-up over chain and pins.   *)
(***************************************************************************)
EXTENDS FeePlans

CONSTANTS
  Creator,             \* the connected wallet
  Texts,               \* what may be typed in an address field
  Scenes,              \* how a behaviour starts: the launchpad, the plan, what is
                       \* edited and how often, how long it goes on
  Details,             \* the names and descriptions typed
  LaunchpadsRead,      \* the launchpads the clean-up reads
  Pictures,            \* the pictures chosen
  DAY, UPLOADS_PER_WINDOW,
  MaxSaves, MaxMishaps \* bounds of the model

Nothing == "none"

\* What the chain has at the addresses a plan may name.
Chain == [pools |-> {"pool"}, tokens |-> {"token"}, plugins |-> Suite \cup {"ownPlugin"}]

\* What an address field may hold: the builder leaves it empty or puts the creator's wallet in.
Fields == Texts \cup {"", Creator}

ASSUME CreateAssumption ==
  /\ \A s \in Scenes : /\ s.version \in {"v13", "v14"} /\ s.typing \in {"plan", "details"}
                       /\ s.edits \in Nat /\ s.until \in Nat
                       /\ s.plan \in Plans(Fields)
  /\ DAY \in Nat \ {0} /\ UPLOADS_PER_WINDOW \in Nat \ {0}
  \* The connected wallet is an account, none of the contracts around it.
  /\ IsAddress(Creator)
  /\ Creator \notin Barred \cup Chain.pools \cup Chain.tokens \cup Chain.plugins

VARIABLES
  scene,     \* the launchpad built on, and the edits still to come
  plan,      \* where the creator fees go, as the picker has it
  drafts,    \* the plans of the other kinds, as they were left
  details,   \* what is typed about the token
  picture,   \* the picture chosen
  answered,  \* the addresses whose answers the page holds
  wired,     \* the launchpad's router and pair factory have been read
  saved,     \* the details saved last: what they were, when they were saved
  press,     \* the press of Create token under way
  saves,     \* the requests to save details, in order
  recent,    \* uploads in the window
  pins,      \* what is pinned
  launches,  \* the tokens created
  refused,   \* launches the contracts refused, by what the page knew
  sweep,     \* the clean-up
  time, mishaps

typedVars == <<plan, drafts, details, picture>>
probeVars == <<answered, wired>>
pinVars == <<saves, recent, pins>>
chainVars == <<launches, refused>>
cVars == <<scene, typedVars, probeVars, saved, press, pinVars, chainVars, sweep, time, mishaps>>

File(d, p) == <<"file", d, p>>
Image(p) == <<"image", p>>
NoSaved == [of |-> <<>>]
Idle == [at |-> "idle"]
Resting == [at |-> "rests", inUse |-> {}, orphans |-> {}]

Mishap == mishaps < MaxMishaps /\ mishaps' = mishaps + 1

-----------------------------------------------------------------------------
(***************************************************************************)
(* The picker                                                              *)
(***************************************************************************)
\* The form stays open to typing while a press is under way.
Edits(what) ==
  /\ scene.typing = what /\ scene.edits > 0 /\ press.at # "done"
  /\ scene' = [scene EXCEPT !.edits = @ - 1]

Choose ==
  \E kind \in {"wallet", "custom"} \cup Listed :
    /\ Edits("plan") /\ Available(kind) /\ kind # plan.kind
    /\ drafts' = [drafts EXCEPT ![plan.kind] = plan]
    /\ plan' = IF drafts[kind].kind = Nothing THEN InitialPlan(kind, Creator) ELSE drafts[kind]
    /\ UNCHANGED <<details, picture, probeVars, saved, press, pinVars, chainVars, sweep, time, mishaps>>

\* The payees after an edit of row i, and after one edit of their list.
PayeeEdits(payees, i) ==
  {[payees EXCEPT ![i].address = x] : x \in Texts}
  \cup {[payees EXCEPT ![i].share = n] : n \in 0..MAX_SHARE}
  \cup {RemoveAt(payees, j) : j \in {k \in {i} : Len(payees) > 1}}
PayeesEdited(payees) ==
  (UNION {PayeeEdits(payees, i) : i \in DOMAIN payees})
  \cup {Append(payees, [address |-> "", share |-> 1]) : z \in 1..(MAX_PAYEES - Len(payees))}

TargetsEdited(target) ==
  CASE target.kind \in {"wallet", "custom"} -> {[target EXCEPT !.address = x] : x \in Texts}
    [] target.kind = "split" -> {[target EXCEPT !.payees = p] : p \in PayeesEdited(target.payees)}
    [] target.kind = "deepen" -> {[target EXCEPT !.burnShare = n] : n \in {Unread, 0, TOTAL_BPS + 1}}
    [] OTHER -> {}

\* The entries after an edit of one of them, and after one edit of their list.
EntryEdits(entries, i) ==
  {[entries EXCEPT ![i].target = t] : t \in TargetsEdited(entries[i].target)}
  \cup {[entries EXCEPT ![i].target = EmptyTarget(k, Creator)] : k \in EntryChoices(entries, i)}
  \cup {[entries EXCEPT ![i].percent = n] : n \in Unread..TOTAL_BPS}
  \cup {RemoveAt(entries, j) : j \in {k \in {i} : Len(entries) > 1}}
EntriesEdited(entries) ==
  (UNION {EntryEdits(entries, i) : i \in DOMAIN entries})
  \cup {Append(entries, [target |-> EmptyTarget(AddKind(entries), Creator), percent |-> Remaining(entries)])
         : z \in 1..(MAX_COMBO_ENTRIES - Len(entries))}

Configure ==
  /\ Edits("plan")
  /\ plan' \in IF plan.kind = "combo" THEN {[plan EXCEPT !.entries = e] : e \in EntriesEdited(plan.entries)}
               ELSE TargetsEdited(plan)
  /\ UNCHANGED <<drafts, details, picture, probeVars, saved, press, pinVars, chainVars, sweep, time, mishaps>>

\* What a file picked becomes: a picture redrawn, or none if it cannot be.
Prepared == Pictures

Describe ==
  /\ Edits("details")
  /\ \/ details' \in Details \ {details} /\ UNCHANGED picture
     \/ picture' \in Prepared \ {picture} /\ UNCHANGED details
  /\ UNCHANGED <<plan, drafts, probeVars, saved, press, pinVars, chainVars, sweep, time, mishaps>>

-----------------------------------------------------------------------------
(***************************************************************************)
(* The probe: one query over the list of typed addresses.  Until the       *)
(* answers for a new list are in, the page is shown the old list's.        *)
(***************************************************************************)
AskedAbout(p) ==
  LET typed == PlanAddresses(p)
      asked[n \in 0..Len(typed)] ==
        IF n = 0 THEN <<>>
        ELSE IF IsAddress(typed[n]) /\ typed[n] \notin ToSet(asked[n - 1])
             THEN Append(asked[n - 1], typed[n])
        ELSE asked[n - 1]
  IN  asked[Len(typed)]

\* Answer number i is taken for address number i.
Facts ==
  LET asked == AskedAbout(plan)
      Saying(kind) == {asked[i] : i \in {j \in DOMAIN asked \cap DOMAIN answered : answered[j] \in kind}}
  IN  [plugins |-> Saying(Chain.plugins), pools |-> Saying(Chain.pools),
       tokens |-> Saying(Chain.tokens),
       unchecked |-> IF wired THEN {asked[i] : i \in DOMAIN asked \ DOMAIN answered} ELSE ToSet(asked)]

Planned == PlanFeePlugin(plan, Creator, Facts)

ProbeAnswers ==
  /\ AskedAbout(plan) # <<>> /\ answered # AskedAbout(plan)
  /\ answered' = AskedAbout(plan)
  /\ UNCHANGED <<scene, typedVars, wired, saved, press, pinVars, chainVars, sweep, time, mishaps>>

ProbeFails ==
  /\ Mishap /\ answered # AskedAbout(plan) /\ answered # <<>>
  /\ answered' = <<>>
  /\ UNCHANGED <<scene, typedVars, wired, saved, press, pinVars, chainVars, sweep, time>>

Wires ==
  /\ ~wired /\ wired' = TRUE
  /\ UNCHANGED <<scene, typedVars, answered, saved, press, pinVars, chainVars, sweep, time, mishaps>>

-----------------------------------------------------------------------------
(***************************************************************************)
(* The press of Create token.  It keeps what it was pressed with.          *)
(***************************************************************************)
\* A description, link or handle that does not clean up to what it claims to be.
DetailErrors == details = "wrong"
WantsDetails == details # Nothing \/ picture # Nothing

Key(d, p) == <<d, p>>

Submit ==
  /\ press.at = "idle" /\ Planned.ok /\ ~DetailErrors
  /\ LET kept == Key(details, picture)
         held == [goes |-> Planned, details |-> details, picture |-> picture,
                  own |-> AskedAbout(plan) = <<>> \/ answered = AskedAbout(plan)]
     IN  IF ~WantsDetails THEN
           /\ press' = [at |-> "prompt", held |-> held, uri |-> <<Nothing>>, since |-> time]
           /\ UNCHANGED <<saves, recent>>
         ELSE IF saved.of = kept THEN
           /\ press' = [at |-> "prompt", held |-> held, uri |-> saved.uri, since |-> saved.since]
           /\ UNCHANGED <<saves, recent>>
         ELSE
           /\ Len(saves) < MaxSaves
           /\ press' = [at |-> "saving", held |-> held]
           /\ saves' = Append(saves, [at |-> IF recent >= UPLOADS_PER_WINDOW THEN "no"
                                             ELSE IF picture = Nothing THEN "file" ELSE "image",
                                      details |-> details, picture |-> picture, ids |-> {}])
           /\ recent' = recent + (IF recent >= UPLOADS_PER_WINDOW THEN 0 ELSE 1)
  /\ UNCHANGED <<scene, typedVars, probeVars, saved, pins, chainVars, sweep, time, mishaps>>

This == Len(saves)

\* The browser's own address for the file is the answer's, or the answer is refused.
DetailsSaved ==
  /\ press.at = "saving" /\ saves[This].at = "yes"
  /\ LET uri == File(press.held.details, press.held.picture)
     IN  /\ saved' = [of |-> Key(press.held.details, press.held.picture), uri |-> uri, since |-> time]
         /\ press' = [at |-> "prompt", held |-> press.held, uri |-> uri, since |-> time]
  /\ UNCHANGED <<scene, typedVars, probeVars, pinVars, chainVars, sweep, time, mishaps>>

SaveFails ==
  /\ press.at = "saving"
  /\ \/ saves[This].at = "no" /\ UNCHANGED mishaps
     \/ Mishap  \* the connection is lost, wherever the request is
  /\ press' = Idle
  /\ UNCHANGED <<scene, typedVars, probeVars, saved, pinVars, chainVars, sweep, time>>

Turns ==
  /\ press.at = "prompt" /\ Mishap
  /\ press' = Idle
  /\ UNCHANGED <<scene, typedVars, probeVars, saved, pinVars, chainVars, sweep, time>>

(* The wallet sends it and createToken runs.  Its refusal leaves the form. *)
Creates ==
  /\ press.at = "prompt"
  /\ LET goes == press.held.goes
         token == [version |-> scene.version, details |-> press.held.details, picture |-> press.held.picture,
                   uri |-> press.uri, since |-> press.since, landed |-> time,
                   own |-> press.held.own, strands |-> Strands(goes.plugin, goes.data, Chain)]
     IN  IF CreateTokenAccepts(goes.plugin, goes.data, Chain)
         THEN launches' = launches \cup {token} /\ press' = [at |-> "done"] /\ UNCHANGED refused
         ELSE refused' = refused \cup {press.held.own} /\ press' = Idle /\ UNCHANGED launches
  /\ UNCHANGED <<scene, typedVars, probeVars, saved, pinVars, sweep, time, mishaps>>

-----------------------------------------------------------------------------
(***************************************************************************)
(* The service.  Each pin is a call to the pinning service that can fail   *)
(* with the file pinned all the same.                                      *)
(***************************************************************************)
Id(i) == IF saves[i].at = "image" THEN 2 * i - 1 ELSE 2 * i
Pin(i) ==
  [id |-> Id(i), born |-> time,
   cid |-> IF saves[i].at = "image" THEN Image(saves[i].picture)
           ELSE File(saves[i].details, saves[i].picture),
   names |-> IF saves[i].at = "image" THEN Nothing ELSE saves[i].picture]

Pins(i) ==
  /\ saves[i].at \in {"image", "file"}
  /\ pins' = pins \cup {Pin(i)}
  /\ saves' = [saves EXCEPT ![i].ids = @ \cup {Id(i)},
                            ![i].at = IF @ = "image" THEN "file" ELSE "yes"]
  /\ UNCHANGED <<scene, typedVars, probeVars, saved, press, recent, chainVars, sweep, time, mishaps>>

PinFails(i) ==
  /\ saves[i].at \in {"image", "file"} /\ Mishap
  /\ \/ UNCHANGED pins /\ saves' = [saves EXCEPT ![i].at = "undo"]
     \/ /\ pins' = pins \cup {Pin(i)}
        /\ \E told \in {{}, {Id(i)}} :  \* told, but of another address
             saves' = [saves EXCEPT ![i].at = "undo", ![i].ids = @ \cup told]
  /\ UNCHANGED <<scene, typedVars, probeVars, saved, press, recent, chainVars, sweep, time>>

\* What was pinned is unpinned, each on its own: one that fails stays.
Undoes(i) ==
  /\ saves[i].at = "undo"
  /\ \E left \in SUBSET saves[i].ids :
       /\ left # {} => mishaps < MaxMishaps
       /\ mishaps' = mishaps + Cardinality(left)
       /\ pins' = {p \in pins : p.id \in saves[i].ids => p.id \in left}
  /\ saves' = [saves EXCEPT ![i].at = "no"]
  /\ UNCHANGED <<scene, typedVars, probeVars, saved, press, recent, chainVars, sweep, time>>

-----------------------------------------------------------------------------
(***************************************************************************)
(* The clean-up: reads the launchpads, then the pins, then removes the     *)
(* files older than a day that no token names.                             *)
(***************************************************************************)
FilesInUse == {l.uri : l \in {t \in launches : t.version \in LaunchpadsRead}}

SweepReads ==
  /\ sweep.at = "rests"
  /\ sweep' = [at |-> "read", inUse |-> FilesInUse, orphans |-> {}]
  /\ UNCHANGED <<scene, typedVars, probeVars, saved, press, pinVars, chainVars, time, mishaps>>

ImagesInUse(inUse) == {Image(p.names) : p \in {q \in pins : q.cid \in inUse /\ q.names # Nothing}}

\* Fault: a picture is in use only when a token names it.
OrphansWithoutImages(inUse) == {p.id : p \in {q \in pins : q.born < time - DAY /\ q.cid \notin inUse}}
Orphans(inUse) ==
  {p.id : p \in {q \in pins : q.born < time - DAY /\ q.cid \notin inUse \cup ImagesInUse(inUse)}}

SweepLists ==
  /\ sweep.at = "read"
  /\ sweep' = [sweep EXCEPT !.at = "removes", !.orphans = Orphans(sweep.inUse)]
  /\ UNCHANGED <<scene, typedVars, probeVars, saved, press, pinVars, chainVars, time, mishaps>>

SweepRemoves ==
  /\ sweep.at = "removes" /\ sweep.orphans # {}
  /\ LET id == Min(sweep.orphans)
     IN  /\ pins' = {p \in pins : p.id # id}
         /\ sweep' = [sweep EXCEPT !.orphans = @ \ {id}]
  /\ UNCHANGED <<scene, typedVars, probeVars, saved, press, saves, recent, chainVars, time, mishaps>>

\* Done, or a failed call ended it: nothing is read or removed after one.
SweepEnds ==
  /\ sweep.at # "rests"
  /\ \/ sweep.at = "removes" /\ sweep.orphans = {} /\ UNCHANGED mishaps
     \/ Mishap
  /\ sweep' = Resting
  /\ UNCHANGED <<scene, typedVars, probeVars, saved, press, pinVars, chainVars, time>>

Passes ==
  /\ time < scene.until /\ sweep.at # "read" /\ press.at # "saving"
  /\ \A i \in DOMAIN saves : saves[i].at \in {"yes", "no"}
  /\ time' = time + 1 /\ recent' = 0
  /\ UNCHANGED <<scene, typedVars, probeVars, saved, press, saves, pins, chainVars, sweep, mishaps>>

-----------------------------------------------------------------------------
CInit ==
  /\ scene \in Scenes
  /\ plan = scene.plan /\ drafts = [k \in {"wallet", "custom"} \cup Listed |-> [kind |-> Nothing]]
  /\ details = Nothing /\ picture = Nothing
  /\ answered = <<>> /\ wired = FALSE
  /\ saved = NoSaved /\ press = Idle /\ saves = <<>> /\ recent = 0 /\ pins = {}
  /\ launches = {} /\ refused = {} /\ sweep = Resting /\ time = 0 /\ mishaps = 0

CNext ==
  \/ Choose \/ Configure \/ Describe
  \/ ProbeAnswers \/ ProbeFails \/ Wires
  \/ Submit \/ DetailsSaved \/ SaveFails \/ Turns \/ Creates
  \/ \E i \in DOMAIN saves : Pins(i) \/ PinFails(i) \/ Undoes(i)
  \/ SweepReads \/ SweepLists \/ SweepRemoves \/ SweepEnds \/ Passes

CSpec == CInit /\ [][CNext]_cVars

-----------------------------------------------------------------------------
(* A plan the builder allows, with the answers for its own addresses, is    *)
(* not refused on chain: plan.ts repeats every check of createToken and of  *)
(* each plugin's onLaunch.                                                  *)
AllowedPlansLaunch == TRUE \notin refused

(* Such a launch pays no contract that would keep the fees or let anyone    *)
(* take them: USDC, the launchpad's own parts, launch pools and tokens, and *)
(* plugins paid by a Split, which the contracts themselves let pass.        *)
NoFeesStranded == \A l \in launches : l.own => ~l.strands

(* The builder neither refuses the press later nor lets fees be stranded.   *)
AllowedIsSafe == AllowedPlansLaunch /\ NoFeesStranded

(* What a token points to is what its creator typed when they pressed, with *)
(* the name it has, whatever was typed, saved, retried or lost since.       *)
PointsAtWhatWasTyped ==
  \A l \in launches :
    l.uri = IF l.details = Nothing /\ l.picture = Nothing THEN <<Nothing>> ELSE File(l.details, l.picture)

Kept(l) ==
  /\ l.uri # <<Nothing>> => \E p \in pins : p.cid = l.uri
  /\ (l.uri # <<Nothing>> /\ l.picture # Nothing) => \E p \in pins : p.cid = Image(l.picture)

(* A token launched within a day of its details being saved keeps its file  *)
(* and its picture, whatever saves fail around it and whenever the clean-up *)
(* runs, on every launchpad the clean-up reads.                             *)
DetailsStay ==
  \A l \in launches : l.version \in LaunchpadsRead /\ l.landed <= l.since + DAY => Kept(l)

(* A token's details are what was typed, and stay where they were pinned.   *)
DetailsKept == PointsAtWhatWasTyped /\ DetailsStay

(* An address stays unchecked until its answers are in, so no launch pays   *)
(* a plugin, a launch pool or a launch token by plain transfer.             *)
NoneIsPaidUnchecked == \A l \in launches : ~l.strands
=============================================================================
