------------------------------ MODULE SiteProofs ------------------------------
(***************************************************************************)
(* The browser wallet signs only what was confirmed, and a form trades     *)
(* what it showed and says what it did: for every form and wallet, every   *)
(* number of presses and outside events, all prices, fees and tolerances.  *)
(*                                                                         *)
(* The inductive invariant has three parts: WalletInv, what a request has  *)
(* come to; RunsInv, what a run keeps of its press and which request it    *)
(* waits for; PageInv, what the sheet says of its runs.                    *)
(*                                                                         *)
(* At the end, with invariants of their own: the wallet kept in the        *)
(* browser (WalletVault), the files a token names (VerifiedFiles), what is *)
(* pinned for a token and where its fees may go (CreateLaunch).            *)
(***************************************************************************)
EXTENDS SiteForms, WalletVault, VerifiedFiles, CreateLaunch, ArithmeticProofs, SequenceTheorems

-----------------------------------------------------------------------------
IsList(s) == Len(s) \in Nat /\ s = [i \in 1 .. Len(s) |-> s[i]]

AskFields == {"by", "does", "from", "signer", "stage", "reply"}

(* What each stage says of a request. *)
AskSound(i) ==
    LET a == asks[i]
    IN  /\ DOMAIN a = AskFields
        /\ a.stage \in {"queued", "shown"} => a.signer = Nobody /\ a.reply = "none"
        /\ a.stage = "keyed" => a.reply = "none"
        /\ a.reply = "signature" => a.does = "permit"
        /\ a.reply = "rejected" => a.stage = "closed"
        /\ connector = "browser" /\ a.signer # Nobody =>
                i \in confirmed /\ a.reply # "rejected"

WalletInv ==
    /\ connector \in {"browser", "extension"}
    /\ IsList(asks)
    /\ \A i \in DOMAIN asks : AskSound(i)
    /\ sheet # 0 => /\ connector = "browser" /\ sheet \in DOMAIN asks
                    /\ asks[sheet].stage = "shown"
    /\ connector = "extension" => \A i \in DOMAIN asks : asks[i].stage # "queued"
    /\ \A u \in unlocking : u.ask \in DOMAIN asks /\ u.ask \in confirmed

-----------------------------------------------------------------------------
(* What carries out a form's purpose: it is asked for last, and once a run. *)
Main == {"trade", "create", "add", "removal", "act"}

RunFields == {"does", "pc", "as", "a", "ask", "p", "bound", "need", "v", "fee", "pool", "allowed"}

(* What a run keeps for good of the render it was started in. *)
TermsSound(r) ==
    /\ DOMAIN r = RunFields
    /\ r.a \in 0 .. 3 /\ r.fee \in Nat
    /\ r.bound = Bound(form, r.a, r.p)
    /\ r.does = "create" => form = "create"
    /\ form \in TradeForms =>
         /\ Tier(r.a) # "refused"
         /\ Tier(r.a) = "acknowledge" => <<r.a, r.v, Sentence(r.a, r.p)>> \in read

RunsInv ==
    /\ IsList(runs)
    /\ \A r \in DOMAIN runs :
         /\ TermsSound(runs[r])
         /\ runs[r].pc \in {"check", "gas", "reads"} => runs[r].ask = 0
         /\ runs[r].pc \in {"ask", "receipt"} =>
              runs[r].ask \in DOMAIN asks /\ asks[runs[r].ask].by = r
    /\ \A i \in DOMAIN asks :
         /\ asks[i].by \in DOMAIN runs
         /\ asks[i].does \in Main => i = runs[asks[i].by].ask
         /\ asks[i].does = "create" => runs[asks[i].by].does = "create"

-----------------------------------------------------------------------------
ChainFields == {"price", "fee", "lp", "graduated", "pool", "allowance"}

PageTypes ==
    /\ standing \in {"out", "elsewhere", "good"}
    /\ amount \in 0 .. 3
    /\ phase \in {"idle", "approving", "pending", "quoteMoved", "busy", "bridging", "estimating"}
    /\ \A c \in {chain, known} : DOMAIN c = ChainFields /\ c.fee \in Nat

(* What was ticked has been read beside its sentence. *)
TickRead ==
    tick = NoTick \/ \E x \in read : x = <<x[1], x[2], x[3]>> /\ tick = <<form, x[1], x[2], x[3]>>

DealsSound ==
    /\ KeepsWhatWasShown
    /\ \A d \in deals : d.run \in DOMAIN runs
    /\ \A i \in DOMAIN asks :
          asks[i].stage = "landed" => \E d \in deals : d.run = asks[i].by

StatusSound ==
    /\ status.says = "confirmed" => \E d \in deals : d.run = status.of
    /\ status.says = "cancelled" =>
         /\ status.of \in DOMAIN runs /\ runs[status.of].pc = "done"
         /\ runs[status.of].ask \in DOMAIN asks
         /\ asks[runs[status.of].ask].reply = "rejected"

Underway == {r \in DOMAIN runs : runs[r].pc # "done"}

(* A form that takes one press at a time shows it until the run has ended. *)
Shows ==
    CASE form = "create" -> phase \in {"approving", "pending"}
      [] form = "fees" -> phase # "idle"
      [] form \in {"add", "remove"} -> status.says = "pending"
      [] OTHER -> FALSE

OneUnderway ==
    form \in {"create", "add", "remove", "fees"} =>
        /\ Underway # {} => Shows
        /\ \A r, s \in Underway : r = s

PageInv ==
    PageTypes /\ TickRead /\ DealsSound /\ StatusSound /\ OneUnderway

FormsInv == WalletInv /\ RunsInv /\ PageInv

-----------------------------------------------------------------------------
(***************************************************************************)
(* Lists                                                                   *)
(***************************************************************************)
LEMMA ListSeq ==
  ASSUME NEW s, IsList(s)
  PROVE  /\ s \in Seq({s[i] : i \in 1 .. Len(s)}) /\ DOMAIN s = 1 .. Len(s)
<1> DEFINE S == {s[i] : i \in 1 .. Len(s)}
<1>1. s \in [1 .. Len(s) -> S]
  BY DEF IsList
<1> QED BY <1>1 DEF IsList

LEMMA SeqList ==
  ASSUME NEW T, NEW s \in Seq(T)
  PROVE  IsList(s) /\ DOMAIN s = 1 .. Len(s)
<1>1. Len(s) \in Nat /\ s \in [1 .. Len(s) -> T]
  OBVIOUS
<1>2. s = [i \in 1 .. Len(s) |-> s[i]] /\ DOMAIN s = 1 .. Len(s)
  BY <1>1, Zenon
<1> QED BY <1>1, <1>2 DEF IsList

(* What an Append does. *)
LEMMA Appended ==
  ASSUME NEW s, IsList(s), NEW e
  PROVE  /\ IsList(Append(s, e)) /\ Len(Append(s, e)) = Len(s) + 1
         /\ DOMAIN s = 1 .. Len(s) /\ Len(s) \in Nat
         /\ DOMAIN Append(s, e) = 1 .. Len(s) + 1
         /\ \A i \in DOMAIN s : i \in DOMAIN Append(s, e) /\ Append(s, e)[i] = s[i]
         /\ Append(s, e)[Len(s) + 1] = e
<1> DEFINE S == {s[i] : i \in 1 .. Len(s)}
           T == S \cup {e}
           t == Append(s, e)
<1>1. s \in Seq(S) /\ DOMAIN s = 1 .. Len(s) /\ Len(s) \in Nat
  BY ListSeq DEF IsList
<1>2. s \in Seq(T) /\ e \in T
  BY <1>1
<1> HIDE DEF S, T
<1>3. /\ t \in Seq(T) /\ Len(t) = Len(s) + 1 /\ t[Len(s) + 1] = e
      /\ \A i \in 1 .. Len(s) : t[i] = s[i]
  BY <1>2
<1> HIDE DEF t
<1>4. IsList(t) /\ DOMAIN t = 1 .. Len(s) + 1
  BY <1>3, SeqList
<1>5. \A i \in DOMAIN s : i \in DOMAIN t /\ t[i] = s[i]
  BY <1>1, <1>3, <1>4
<1> QED BY <1>1, <1>3, <1>4, <1>5 DEF t

(* What replacing a member does. *)
Put(s, i, e) == [s EXCEPT ![i] = e]

LEMMA Replaced ==
  ASSUME NEW s, IsList(s), NEW i \in DOMAIN s, NEW e
  PROVE  /\ IsList(Put(s, i, e)) /\ Len(Put(s, i, e)) = Len(s)
         /\ DOMAIN Put(s, i, e) = DOMAIN s
         /\ Put(s, i, e)[i] = e /\ \A j \in DOMAIN s : j # i => Put(s, i, e)[j] = s[j]
<1> DEFINE S == {s[k] : k \in 1 .. Len(s)}
           T == S \cup {e}
           t == Put(s, i, e)
<1>1. s \in Seq(S) /\ DOMAIN s = 1 .. Len(s) /\ Len(s) \in Nat
  BY ListSeq DEF IsList
<1>2. s \in Seq(T) /\ e \in T
  BY <1>1
<1> HIDE DEF S, T
<1>3. t \in Seq(T) /\ Len(t) = Len(s) /\ DOMAIN t = DOMAIN s
  BY <1>1, <1>2 DEF Put
<1>4. t[i] = e /\ \A j \in DOMAIN s : j # i => t[j] = s[j]
  BY DEF Put
<1> HIDE DEF t
<1>5. IsList(t)
  BY <1>3, SeqList
<1> QED BY <1>3, <1>4, <1>5 DEF t

-----------------------------------------------------------------------------
(***************************************************************************)
(* The wallet                                                              *)
(***************************************************************************)
(* What the wallet and the chain never do to a request. *)
AsksGo ==
    /\ Len(asks') = Len(asks) /\ DOMAIN asks' = DOMAIN asks
    /\ \A i \in DOMAIN asks :
         /\ asks'[i].by = asks[i].by /\ asks'[i].does = asks[i].does
         /\ asks[i].reply = "rejected" => asks'[i].reply = "rejected"

NoneLands ==
    \A i \in DOMAIN asks' : asks'[i].stage = "landed" => i \in DOMAIN asks /\ asks[i].stage = "landed"

(* A request is made: it joins the list as it is asked, or refused at once. *)
LEMMA AskMade ==
  ASSUME WalletInv, NEW r, NEW does, AskWallet(r, does), UNCHANGED askVars
  PROVE  /\ WalletInv'
         /\ DOMAIN asks = 1 .. Len(asks) /\ Len(asks) \in Nat
         /\ Len(asks') = Len(asks) + 1 /\ DOMAIN asks' = 1 .. Len(asks) + 1
         /\ \A i \in DOMAIN asks : i \in DOMAIN asks' /\ asks'[i] = asks[i]
         /\ asks'[Len(asks) + 1].by = r /\ asks'[Len(asks) + 1].does = does
         /\ NoneLands
<1> DEFINE n == Len(asks) + 1
           made == IF connector = "browser" /\ ~OwnerMatches
                   THEN Refused(Asked(r, does)) ELSE Asked(r, does)
<1>1. asks' = Append(asks, made) /\ IsList(asks)
  BY DEF AskWallet, WalletInv
<1>2. /\ DOMAIN made = AskFields /\ made.by = r /\ made.does = does /\ made.signer = Nobody
      /\ made.stage \in {"queued", "shown", "closed"}
      /\ made.stage \in {"queued", "shown"} => made.reply = "none"
      /\ made.reply \in {"none", "error"}
      /\ connector = "extension" => made.stage # "queued"
  BY DEF Asked, Refused, AskFields
<1> HIDE DEF made
<1>3. /\ IsList(asks') /\ Len(asks') = n
      /\ DOMAIN asks = 1 .. Len(asks) /\ Len(asks) \in Nat /\ DOMAIN asks' = 1 .. n
      /\ \A i \in DOMAIN asks : i \in DOMAIN asks' /\ asks'[i] = asks[i]
      /\ asks'[n] = made
  BY <1>1, Appended
<1>4. ASSUME NEW i \in DOMAIN asks'
      PROVE  AskSound(i)' /\ (connector = "extension" => asks'[i].stage # "queued")
  <2>1. CASE i \in DOMAIN asks
    BY <1>3, <2>1 DEF WalletInv, AskSound, askVars
  <2>2. CASE i \notin DOMAIN asks
    <3>1. asks'[i] = made
      BY <1>3, <2>2
    <3> QED BY <1>2, <3>1 DEF AskSound, askVars
  <2> QED BY <2>1, <2>2
<1>5. WalletInv'
  BY <1>3, <1>4 DEF WalletInv, askVars
<1>6. NoneLands
  BY <1>2, <1>3 DEF NoneLands
<1> QED BY <1>2, <1>3, <1>5, <1>6

(* One request changes and the rest stay: what has to be shown of it. *)
LEMMA AskTurns ==
  ASSUME WalletInv, NEW i \in DOMAIN asks, NEW e, asks' = Put(asks, i, e),
         e.by = asks[i].by, e.does = asks[i].does,
         asks[i].reply = "rejected" => e.reply = "rejected",
         connector' = connector, confirmed' = confirmed, unlocking' \subseteq unlocking,
         connector = "extension" => e.stage # "queued",
         AskSound(i)', sheet' # 0 => sheet' = sheet /\ sheet # i
  PROVE  WalletInv' /\ AsksGo /\ (e.stage # "landed" => NoneLands)
<1>1. /\ IsList(asks') /\ Len(asks') = Len(asks) /\ DOMAIN asks' = DOMAIN asks
      /\ asks'[i] = e /\ \A j \in DOMAIN asks : j # i => asks'[j] = asks[j]
  <2>1. IsList(asks)
    BY DEF WalletInv
  <2> QED BY <2>1, Replaced
<1>2. ASSUME NEW j \in DOMAIN asks
      PROVE  AskSound(j)' /\ (connector = "extension" => asks'[j].stage # "queued")
  <2>1. CASE j = i
    BY <1>1, <2>1
  <2>2. CASE j # i
    BY <1>1, <2>2 DEF WalletInv, AskSound
  <2> QED BY <2>1, <2>2
<1>3. sheet' # 0 => connector' = "browser" /\ sheet' \in DOMAIN asks' /\ asks'[sheet'].stage = "shown"
  BY <1>1 DEF WalletInv
<1>4. WalletInv'
  BY <1>1, <1>2, <1>3 DEF WalletInv
<1>5. AsksGo
  BY <1>1 DEF AsksGo
<1>6. e.stage # "landed" => NoneLands
  BY <1>1 DEF NoneLands
<1> QED BY <1>4, <1>5, <1>6

(* The key of a confirmed request, an answer, a cancelled sheet, what the chain *)
(* makes of a transaction: each keeps the invariant, and every request's terms.  *)
LEMMA SignTurns ==
  ASSUME WalletInv, NEW i \in DOMAIN asks, NEW reply \in {"hash", "error"}, Sign(i, reply)
  PROVE  WalletInv' /\ AsksGo /\ NoneLands
<1> DEFINE stage == IF asks[i].does = "permit" THEN "closed" ELSE "sent"
           told == IF asks[i].does = "permit" /\ reply = "hash" THEN "signature" ELSE reply
           e == [asks[i] EXCEPT !.signer = Signer(i), !.stage = stage, !.reply = told]
<1>1. /\ AskSound(i) /\ IsList(asks) /\ connector \in {"browser", "extension"}
      /\ DOMAIN asks[i] = AskFields
  BY DEF WalletInv, AskSound
<1>2. asks' = Put(asks, i, e)
  BY DEF Sign, Put
<1>3. /\ e.by = asks[i].by /\ e.does = asks[i].does /\ e.stage = stage /\ e.reply = told
      /\ e.signer = Signer(i) /\ DOMAIN e = AskFields
  BY <1>1 DEF AskFields
<1>4. /\ UNCHANGED <<connector, confirmed, unlocking, sheet>>
      /\ asks[i].stage = (IF connector = "extension" THEN "shown" ELSE "keyed")
      /\ asks[i].reply = "none"
  BY <1>1 DEF Sign, Answerable, AskSound
<1> HIDE DEF e
<1>5. asks'[i] = e
  BY <1>1, <1>2, Replaced
<1>6. AskSound(i)'
  BY <1>1, <1>3, <1>4, <1>5 DEF AskSound, Signer
<1>7. sheet' # 0 => sheet' = sheet /\ sheet # i
  BY <1>4 DEF WalletInv
<1>8. e.stage # "queued" /\ e.stage # "landed" /\ (asks[i].reply = "rejected" => e.reply = "rejected")
  BY <1>3, <1>4
<1> QED BY <1>2, <1>3, <1>4, <1>6, <1>7, <1>8, AskTurns

LEMMA TurndownTurns ==
  ASSUME WalletInv, NEW i \in DOMAIN asks, NEW reply \in {"rejected", "error"}, Turndown(i, reply)
  PROVE  WalletInv' /\ AsksGo /\ NoneLands
<1> DEFINE e == [asks[i] EXCEPT !.stage = "closed", !.reply = reply]
<1>1. /\ AskSound(i) /\ IsList(asks) /\ connector \in {"browser", "extension"}
      /\ DOMAIN asks[i] = AskFields
  BY DEF WalletInv, AskSound
<1>2. asks' = Put(asks, i, e)
  BY DEF Turndown, Put
<1>3. /\ e.by = asks[i].by /\ e.does = asks[i].does /\ e.stage = "closed" /\ e.reply = reply
      /\ e.signer = asks[i].signer /\ DOMAIN e = AskFields
  BY <1>1 DEF AskFields
<1>4. /\ UNCHANGED <<connector, confirmed, unlocking, sheet>>
      /\ asks[i].stage = (IF connector = "extension" THEN "shown" ELSE "keyed")
      /\ asks[i].reply = "none" /\ (reply = "rejected" => connector = "extension")
  BY <1>1 DEF Turndown, Answerable, AskSound
<1> HIDE DEF e
<1>5. asks'[i] = e
  BY <1>1, <1>2, Replaced
<1>6. AskSound(i)'
  BY <1>1, <1>3, <1>4, <1>5 DEF AskSound
<1>7. sheet' # 0 => sheet' = sheet /\ sheet # i
  BY <1>4 DEF WalletInv
<1>8. e.stage # "queued" /\ e.stage # "landed" /\ (asks[i].reply = "rejected" => e.reply = "rejected")
  BY <1>3, <1>4
<1> QED BY <1>2, <1>3, <1>4, <1>6, <1>7, <1>8, AskTurns

LEMMA CancelTurns ==
  ASSUME WalletInv, CancelSheet
  PROVE  WalletInv' /\ AsksGo /\ NoneLands
<1>0. PICK i \in DOMAIN asks : i = sheet
  BY DEF WalletInv, CancelSheet
<1> DEFINE e == [asks[i] EXCEPT !.stage = "closed", !.reply = "rejected"]
<1>1. /\ AskSound(i) /\ IsList(asks) /\ DOMAIN asks[i] = AskFields
      /\ asks[i].stage = "shown" /\ asks[i].signer = Nobody
  BY <1>0 DEF WalletInv, AskSound, CancelSheet
<1>2. asks' = Put(asks, i, e)
  BY <1>0 DEF CancelSheet, Put
<1>3. /\ e.by = asks[i].by /\ e.does = asks[i].does /\ e.stage = "closed" /\ e.reply = "rejected"
      /\ e.signer = asks[i].signer /\ DOMAIN e = AskFields
  BY <1>1 DEF AskFields
<1>4. UNCHANGED <<connector, confirmed, unlocking>> /\ sheet' = 0
  BY DEF CancelSheet
<1> HIDE DEF e
<1>5. asks'[i] = e
  BY <1>1, <1>2, Replaced
<1>6. AskSound(i)'
  BY <1>1, <1>3, <1>4, <1>5 DEF AskSound
<1>7. e.stage # "queued" /\ e.stage # "landed"
  BY <1>3
<1> QED BY <1>1, <1>2, <1>3, <1>4, <1>6, <1>7, AskTurns

LEMMA UnlockedTurns ==
  ASSUME WalletInv, NEW u \in unlocking, Unlocked(u)
  PROVE  WalletInv' /\ AsksGo /\ NoneLands
<1>0. PICK i \in DOMAIN asks : i = u.ask
  BY DEF WalletInv
<1> DEFINE e == [asks[i] EXCEPT !.stage = "keyed", !.signer = u.owner]
<1>1. /\ i \in confirmed /\ AskSound(i) /\ IsList(asks) /\ DOMAIN asks[i] = AskFields
  BY <1>0 DEF WalletInv, AskSound
<1>2. UNCHANGED <<connector, confirmed>> /\ unlocking' \subseteq unlocking /\ sheet' = 0
  BY DEF Unlocked
<1>3. CASE Unsettled(i)
  <2>1. asks' = Put(asks, i, e) /\ asks[i].reply = "none"
    BY <1>0, <1>1, <1>3 DEF Unlocked, Resolved, Put, Unsettled, AskSound
  <2>2. /\ e.by = asks[i].by /\ e.does = asks[i].does /\ e.stage = "keyed"
        /\ e.signer = u.owner /\ e.reply = asks[i].reply /\ DOMAIN e = AskFields
    BY <1>1 DEF AskFields
  <2> HIDE DEF e
  <2>3. asks'[i] = e
    BY <1>1, <2>1, Replaced
  <2>4. AskSound(i)'
    BY <1>1, <1>2, <2>1, <2>2, <2>3 DEF AskSound
  <2> QED BY <1>1, <1>2, <2>1, <2>2, <2>4, AskTurns
<1>4. CASE ~Unsettled(i)
  <2>1. asks' = asks
    BY <1>0, <1>4 DEF Unlocked, Resolved
  <2> QED BY <1>2, <2>1 DEF WalletInv, AskSound, AsksGo, NoneLands
<1> QED BY <1>3, <1>4

LEMMA ShowTurns ==
  ASSUME WalletInv, ShowNext
  PROVE  WalletInv' /\ AsksGo /\ NoneLands
<1>1. PICK i \in DOMAIN asks :
        /\ asks[i].stage = "queued" /\ \A j \in 1 .. i - 1 : ~Unsettled(j)
        /\ asks' = [asks EXCEPT ![i].stage = "shown"] /\ sheet' = i
  BY DEF ShowNext
<1> DEFINE e == [asks[i] EXCEPT !.stage = "shown"]
<1>2. /\ IsList(asks) /\ DOMAIN asks[i] = AskFields /\ connector = "browser"
      /\ asks[i].signer = Nobody /\ asks[i].reply = "none"
  BY <1>1 DEF WalletInv, AskSound
<1>3. asks' = Put(asks, i, e) /\ UNCHANGED <<connector, confirmed, unlocking>>
  BY <1>1 DEF ShowNext, Put
<1>4. /\ e.by = asks[i].by /\ e.does = asks[i].does /\ e.stage = "shown"
      /\ e.signer = Nobody /\ e.reply = "none" /\ DOMAIN e = AskFields
  BY <1>2 DEF AskFields
<1> HIDE DEF e
<1>5. /\ IsList(asks') /\ Len(asks') = Len(asks) /\ DOMAIN asks' = DOMAIN asks
      /\ asks'[i] = e /\ \A j \in DOMAIN asks : j # i => asks'[j] = asks[j]
  BY <1>2, <1>3, Replaced
<1>6. ASSUME NEW j \in DOMAIN asks
      PROVE  AskSound(j)'
  <2>1. CASE j = i
    BY <1>2, <1>3, <1>4, <1>5, <2>1 DEF AskSound
  <2>2. CASE j # i
    BY <1>3, <1>5, <2>2 DEF WalletInv, AskSound
  <2> QED BY <2>1, <2>2
<1>7. WalletInv'
  BY <1>1, <1>2, <1>3, <1>4, <1>5, <1>6 DEF WalletInv
<1> QED BY <1>2, <1>4, <1>5, <1>7 DEF AsksGo, NoneLands

LEMMA QuietTurns ==
  ASSUME WalletInv,
         \/ PressConfirm
         \/ \E u \in unlocking : UnlockRefused(u)
         \/ \E o \in Owners : SaveElsewhere(o)
         \/ ForgetElsewhere
  PROVE  WalletInv' /\ AsksGo /\ NoneLands
<1>1. asks' = asks /\ connector' = connector /\ sheet' = sheet /\ confirmed \subseteq confirmed'
  BY DEF PressConfirm, UnlockRefused, SaveElsewhere, ForgetElsewhere
<1>2. \A u \in unlocking' : u.ask \in DOMAIN asks' /\ u.ask \in confirmed'
  BY <1>1 DEF WalletInv, PressConfirm, UnlockRefused, SaveElsewhere, ForgetElsewhere
<1>3. \A i \in DOMAIN asks : AskSound(i)'
  BY <1>1 DEF WalletInv, AskSound
<1> QED BY <1>1, <1>2, <1>3 DEF WalletInv, AsksGo, NoneLands

LEMMA ChainTurns ==
  ASSUME WalletInv, NEW i \in DOMAIN asks, NEW stage \in {"landed", "reverted"},
         asks[i].stage = "sent", asks' = [asks EXCEPT ![i].stage = stage], UNCHANGED askVars
  PROVE  /\ WalletInv' /\ AsksGo /\ (stage # "landed" => NoneLands)
         /\ \A j \in DOMAIN asks : j # i => asks'[j] = asks[j]
<1> DEFINE e == [asks[i] EXCEPT !.stage = stage]
<1>1. AskSound(i) /\ IsList(asks) /\ DOMAIN asks[i] = AskFields
  BY DEF WalletInv, AskSound
<1>2. asks' = Put(asks, i, e) /\ UNCHANGED <<connector, confirmed, unlocking, sheet>>
  BY DEF Put, askVars
<1>3. /\ e.by = asks[i].by /\ e.does = asks[i].does /\ e.stage = stage
      /\ e.signer = asks[i].signer /\ e.reply = asks[i].reply /\ DOMAIN e = AskFields
  BY <1>1 DEF AskFields
<1> HIDE DEF e
<1>4. asks'[i] = e /\ \A j \in DOMAIN asks : j # i => asks'[j] = asks[j]
  BY <1>1, <1>2, Replaced
<1>5. AskSound(i)'
  BY <1>1, <1>2, <1>3, <1>4 DEF AskSound
<1>6. sheet # 0 => sheet # i
  BY DEF WalletInv
<1>7. e.stage # "queued"
  BY <1>3
<1> QED BY <1>2, <1>3, <1>4, <1>5, <1>6, <1>7, AskTurns

(* Whatever the user does at the wallet. *)
LEMMA WalletMoves ==
  ASSUME WalletInv,
         \/ \E i \in DOMAIN asks : Signs(i) \/ Rejects(i) \/ LosesReply(i)
         \/ Sheet \/ SheetTrouble
  PROVE  /\ WalletInv' /\ AsksGo /\ NoneLands
         /\ UNCHANGED <<beforeChain, chain, deals>>
<1>1. ASSUME NEW i \in DOMAIN asks, Signs(i) \/ Rejects(i) \/ LosesReply(i)
      PROVE  /\ WalletInv' /\ AsksGo /\ NoneLands
             /\ UNCHANGED <<beforeChain, chain, deals>>
  <2>1. UNCHANGED <<beforeChain, chain, deals>>
    BY <1>1 DEF Signs, Rejects, LosesReply, pageVars, beforeChain
  <2>2. \/ \E reply \in {"hash", "error"} : Sign(i, reply)
        \/ \E reply \in {"rejected", "error"} : Turndown(i, reply)
    BY <1>1 DEF Signs, Rejects, LosesReply
  <2> QED BY <2>1, <2>2, SignTurns, TurndownTurns
<1>2. ASSUME Sheet
      PROVE  /\ WalletInv' /\ AsksGo /\ NoneLands
             /\ UNCHANGED <<beforeChain, chain, deals>>
  <2>1. UNCHANGED <<beforeChain, chain, deals>>
    BY <1>2 DEF Sheet, pageVars, beforeChain
  <2>2. ShowNext \/ PressConfirm \/ CancelSheet \/ \E u \in unlocking : Unlocked(u)
    BY <1>2 DEF Sheet
  <2> QED BY <2>1, <2>2, ShowTurns, QuietTurns, CancelTurns, UnlockedTurns
<1>3. ASSUME SheetTrouble
      PROVE  /\ WalletInv' /\ AsksGo /\ NoneLands
             /\ UNCHANGED <<beforeChain, chain, deals>>
  BY <1>3, QuietTurns DEF SheetTrouble
<1> QED BY <1>1, <1>2, <1>3

-----------------------------------------------------------------------------
(***************************************************************************)
(* Runs                                                                    *)
(***************************************************************************)
(* What no step does to the requests and the runs there are. *)
AsksKeep ==
    \A i \in DOMAIN asks :
        /\ i \in DOMAIN asks'
        /\ asks'[i].by = asks[i].by /\ asks'[i].does = asks[i].does
        /\ asks[i].reply = "rejected" => asks'[i].reply = "rejected"

SameTerms(r, s) ==
    /\ DOMAIN s = RunFields
    /\ r.does = s.does /\ r.a = s.a /\ r.p = s.p /\ r.bound = s.bound /\ r.need = s.need
    /\ r.v = s.v /\ r.fee = s.fee /\ r.pool = s.pool

RunsKeep ==
    \A r \in DOMAIN runs :
        /\ r \in DOMAIN runs' /\ SameTerms(runs[r], runs'[r])
        /\ runs[r].pc = "done" => runs'[r] = runs[r]

LEMMA KeepsTerms ==
  ASSUME NEW r, TermsSound(runs[r]), SameTerms(runs[r], runs'[r]),
         page' = page, read \subseteq read'
  PROVE  TermsSound(runs[r])'
BY DEF TermsSound, SameTerms, Bound, Result, form

(* The wallet and the chain move; the runs stand still. *)
LEMMA RunsStay ==
  ASSUME RunsInv, AsksGo, UNCHANGED <<page, runs>>, read \subseteq read'
  PROVE  RunsInv' /\ RunsKeep /\ AsksKeep
<1>1. ASSUME NEW r \in DOMAIN runs
      PROVE  /\ SameTerms(runs[r], runs'[r]) /\ TermsSound(runs[r])
             /\ TermsSound(runs[r])'
  <2>1. TermsSound(runs[r]) /\ runs' = runs
    BY DEF RunsInv
  <2>2. SameTerms(runs[r], runs'[r])
    BY <2>1 DEF SameTerms, TermsSound
  <2> QED BY <2>1, <2>2, KeepsTerms
<1>2. AsksKeep
  BY DEF AsksGo, AsksKeep
<1>3. RunsKeep
  BY <1>1 DEF RunsKeep
<1>4. RunsInv'
  BY <1>1 DEF RunsInv, AsksGo
<1> QED BY <1>2, <1>3, <1>4

(* One run goes on: what has to be shown of it. *)
LEMMA RunTurns ==
  ASSUME RunsInv, NEW r \in DOMAIN runs, NEW e, runs' = Put(runs, r, e), SameTerms(runs[r], e),
         runs[r].pc # "done", page' = page, read \subseteq read', AsksKeep, 0 \notin DOMAIN asks,
         \A i \in DOMAIN asks' :
            i \in DOMAIN asks \/ (i = e.ask /\ asks'[i].by = r /\ asks'[i].does # "create"),
         e.ask = runs[r].ask \/ runs[r].ask = 0 \/ asks[runs[r].ask].does \notin Main,
         e.pc \in {"check", "gas", "reads"} => e.ask = 0,
         e.pc \in {"ask", "receipt"} => e.ask \in DOMAIN asks' /\ asks'[e.ask].by = r
  PROVE  /\ RunsInv' /\ RunsKeep /\ DOMAIN runs' = DOMAIN runs /\ runs'[r] = e
         /\ \A s \in DOMAIN runs : s # r => runs'[s] = runs[s]
<1>1. /\ IsList(runs') /\ DOMAIN runs' = DOMAIN runs /\ runs'[r] = e
      /\ \A s \in DOMAIN runs : s # r => runs'[s] = runs[s]
  BY Replaced DEF RunsInv
<1>2. ASSUME NEW s \in DOMAIN runs
      PROVE  /\ SameTerms(runs[s], runs'[s]) /\ TermsSound(runs[s])'
             /\ runs[s].pc = "done" => runs'[s] = runs[s]
  <2>1. TermsSound(runs[s])
    BY DEF RunsInv
  <2>2. SameTerms(runs[s], runs'[s])
    BY <1>1, <2>1 DEF SameTerms, TermsSound
  <2>3. TermsSound(runs[s])'
    BY <2>1, <2>2, KeepsTerms
  <2> QED BY <1>1, <2>2, <2>3
<1>3. RunsKeep
  BY <1>1, <1>2 DEF RunsKeep
<1>4. ASSUME NEW s \in DOMAIN runs
      PROVE  /\ runs'[s].pc \in {"check", "gas", "reads"} => runs'[s].ask = 0
             /\ runs'[s].pc \in {"ask", "receipt"} =>
                  runs'[s].ask \in DOMAIN asks' /\ asks'[runs'[s].ask].by = s
  <2>1. CASE s = r
    BY <1>1, <2>1
  <2>2. CASE s # r
    BY <1>1, <2>2 DEF RunsInv, AsksKeep
  <2> QED BY <2>1, <2>2
<1>5. ASSUME NEW i \in DOMAIN asks'
      PROVE  /\ asks'[i].by \in DOMAIN runs'
             /\ asks'[i].does \in Main => i = runs'[asks'[i].by].ask
             /\ asks'[i].does = "create" => runs'[asks'[i].by].does = "create"
  <2>1. CASE i \notin DOMAIN asks
    BY <1>1, <2>1
  <2>2. CASE i \in DOMAIN asks
    <3> DEFINE s == asks[i].by
    <3>1. /\ asks'[i].by = s /\ asks'[i].does = asks[i].does
          /\ s \in DOMAIN runs /\ (asks[i].does \in Main => i = runs[s].ask)
          /\ asks[i].does = "create" => runs[s].does = "create"
      BY <2>2 DEF AsksKeep, RunsInv
    <3> HIDE DEF s
    <3>2. runs'[s].does = runs[s].does
      BY <1>2, <3>1 DEF SameTerms
    <3>3. asks[i].does \in Main => runs'[s].ask = runs[s].ask
      BY <1>1, <2>2, <3>1
    <3> QED BY <1>1, <3>1, <3>2, <3>3
  <2> QED BY <2>1, <2>2
<1>6. RunsInv'
  BY <1>1, <1>2, <1>4, <1>5 DEF RunsInv
<1> QED BY <1>1, <1>3, <1>6

(* A run goes on to its next await. *)
LEMMA RunGoes ==
  ASSUME WalletInv, RunsInv, NEW r \in DOMAIN runs, NEW pc, GoesTo(r, pc), runs[r].pc # "done",
         UNCHANGED <<page, asks>>, read \subseteq read',
         pc \in {"check", "gas", "reads"} => runs[r].ask = 0,
         pc \in {"ask", "receipt"} => runs[r].pc = "ask"
  PROVE  /\ RunsInv' /\ RunsKeep /\ AsksKeep /\ NoneLands
         /\ DOMAIN runs' = DOMAIN runs /\ runs'[r].pc = pc /\ runs'[r].ask = runs[r].ask
         /\ \A s \in DOMAIN runs : s # r => runs'[s] = runs[s]
<1> DEFINE e == [runs[r] EXCEPT !.pc = pc]
<1>1. runs' = Put(runs, r, e)
  BY DEF GoesTo, Put
<1>2. TermsSound(runs[r]) /\ DOMAIN runs[r] = RunFields
  BY DEF RunsInv, TermsSound
<1>3. SameTerms(runs[r], e) /\ e.pc = pc /\ e.ask = runs[r].ask
  BY <1>2 DEF SameTerms, RunFields
<1> HIDE DEF e
<1>4. /\ AsksKeep /\ NoneLands /\ DOMAIN asks = 1 .. Len(asks) /\ asks' = asks
      /\ DOMAIN asks' = DOMAIN asks /\ 0 \notin DOMAIN asks
  BY ListSeq DEF AsksKeep, NoneLands, WalletInv, IsList
<1>5. e.pc \in {"ask", "receipt"} => e.ask \in DOMAIN asks' /\ asks'[e.ask].by = r
  BY <1>3, <1>4 DEF RunsInv
<1>6. /\ RunsInv' /\ RunsKeep /\ DOMAIN runs' = DOMAIN runs /\ runs'[r] = e
      /\ \A s \in DOMAIN runs : s # r => runs'[s] = runs[s]
  BY <1>1, <1>3, <1>4, <1>5, RunTurns
<1> QED BY <1>3, <1>4, <1>6

(* A run that has not asked for its purpose yet asks the wallet for something. *)
LEMMA RunAsks ==
  ASSUME WalletInv, RunsInv, NEW r \in DOMAIN runs, NEW does, GoesToAsk(r, does),
         runs[r].pc # "done", does # "create", UNCHANGED <<askVars, page>>, read \subseteq read',
         runs[r].ask = 0 \/ asks[runs[r].ask].does \notin Main
  PROVE  /\ WalletInv' /\ RunsInv' /\ RunsKeep /\ AsksKeep /\ NoneLands
         /\ DOMAIN runs' = DOMAIN runs /\ runs'[r].pc = "ask"
         /\ \A s \in DOMAIN runs : s # r => runs'[s] = runs[s]
<1> DEFINE e == [runs[r] EXCEPT !.pc = "ask", !.ask = Len(asks) + 1]
<1>1. runs' = Put(runs, r, e) /\ AskWallet(r, does)
  BY DEF GoesToAsk, Put
<1>2. TermsSound(runs[r]) /\ DOMAIN runs[r] = RunFields
  BY DEF RunsInv, TermsSound
<1>3. SameTerms(runs[r], e) /\ e.pc = "ask" /\ e.ask = Len(asks) + 1
  BY <1>2 DEF SameTerms, RunFields
<1> HIDE DEF e
<1>4. /\ WalletInv' /\ DOMAIN asks = 1 .. Len(asks) /\ Len(asks) \in Nat
      /\ DOMAIN asks' = 1 .. Len(asks) + 1
      /\ \A i \in DOMAIN asks : i \in DOMAIN asks' /\ asks'[i] = asks[i]
      /\ asks'[Len(asks) + 1].by = r /\ asks'[Len(asks) + 1].does = does
      /\ NoneLands
  BY <1>1, AskMade
<1>5. AsksKeep
  BY <1>4 DEF AsksKeep
<1>6. /\ RunsInv' /\ RunsKeep /\ DOMAIN runs' = DOMAIN runs /\ runs'[r] = e
      /\ \A s \in DOMAIN runs : s # r => runs'[s] = runs[s]
  BY <1>1, <1>3, <1>4, <1>5, RunTurns
<1> QED BY <1>3, <1>4, <1>5, <1>6

(* What the sheet must allow before a trade is started. *)
Cleared ==
    form \in TradeForms =>
        /\ Tier(amount) # "refused"
        /\ Tier(amount) = "acknowledge" =>
               <<amount, Venue(known.graduated), Sentence(amount, QuotePrice)>> \in read

(* A press starts a run, which may ask the wallet at once. *)
LEMMA RunStarts ==
  ASSUME WalletInv, RunsInv, PageTypes, Cleared, NEW does, NEW pc \in {"ask", "check", "reads"},
         StartRun(does, pc), NEW what, UNCHANGED <<page, askVars>>, read' = read,
         pc = "ask" => AskWallet(Next1, what), pc # "ask" => asks' = asks,
         does = "create" => form = "create", what = "create" => does = "create"
  PROVE  /\ WalletInv' /\ RunsInv' /\ RunsKeep /\ AsksKeep /\ NoneLands
         /\ Next1 \notin DOMAIN runs /\ DOMAIN runs' = DOMAIN runs \cup {Next1}
         /\ runs'[Next1].pc = pc
         /\ \A s \in DOMAIN runs : runs'[s] = runs[s]
<1> PICK n : n = Next1
  OBVIOUS
<1> DEFINE e == [does |-> does, pc |-> pc, as |-> account, a |-> amount,
                 ask |-> IF pc = "ask" THEN Len(asks) + 1 ELSE 0,
                 p |-> QuotePrice, bound |-> SentBound, need |-> Required,
                 v |-> Venue(known.graduated), fee |-> known.fee, pool |-> known.pool,
                 allowed |-> Allowance]
<1>1. runs' = Append(runs, e) /\ IsList(runs)
  BY DEF StartRun, RunsInv
<1>2. /\ DOMAIN e = RunFields /\ e.does = does /\ e.pc = pc /\ e.a = amount
      /\ e.ask = (IF pc = "ask" THEN Len(asks) + 1 ELSE 0) /\ e.p = QuotePrice
      /\ e.bound = Bound(form, amount, QuotePrice) /\ e.v = Venue(known.graduated)
      /\ e.fee = known.fee
  BY DEF RunFields, SentBound
<1> HIDE DEF e
<1>3. /\ IsList(runs') /\ n \in Nat /\ DOMAIN runs = 1 .. n - 1 /\ DOMAIN runs' = 1 .. n
      /\ \A i \in DOMAIN runs : i \in DOMAIN runs' /\ runs'[i] = runs[i]
      /\ runs'[n] = e /\ Len(runs) + 1 = n /\ Len(runs) \in Nat
  BY <1>1, Appended DEF Next1
<1>4. /\ WalletInv' /\ AsksKeep /\ NoneLands
      /\ \A i \in DOMAIN asks : i \in DOMAIN asks' /\ asks'[i] = asks[i]
      /\ pc = "ask" => e.ask \in DOMAIN asks' /\ asks'[e.ask].by = n
      /\ \A i \in DOMAIN asks' :
            i \in DOMAIN asks
            \/ (i = e.ask /\ asks'[i].by = n /\ (asks'[i].does = "create" => does = "create"))
  <2>1. CASE pc = "ask"
    <3>1. AskWallet(n, what)
      BY <2>1
    <3>2. /\ WalletInv'
          /\ DOMAIN asks = 1 .. Len(asks) /\ Len(asks) \in Nat
          /\ Len(asks') = Len(asks) + 1 /\ DOMAIN asks' = 1 .. Len(asks) + 1
          /\ \A i \in DOMAIN asks : i \in DOMAIN asks' /\ asks'[i] = asks[i]
          /\ asks'[Len(asks) + 1].by = n /\ asks'[Len(asks) + 1].does = what
          /\ NoneLands
      BY <3>1, AskMade
    <3>3. AsksKeep
      BY <3>2 DEF AsksKeep
    <3> QED BY <1>2, <2>1, <3>2, <3>3
  <2>2. CASE pc # "ask"
    <3>1. asks' = asks
      BY <2>2
    <3>2. WalletInv'
      BY <3>1 DEF WalletInv, AskSound, askVars
    <3> QED BY <2>2, <3>1, <3>2 DEF AsksKeep, NoneLands
  <2> QED BY <2>1, <2>2
<1>5. \A r \in DOMAIN runs : SameTerms(runs[r], runs'[r]) /\ TermsSound(runs[r])'
  <2>1. TAKE r \in DOMAIN runs
  <2>2. TermsSound(runs[r]) /\ runs'[r] = runs[r]
    BY <1>3 DEF RunsInv
  <2>3. SameTerms(runs[r], runs'[r])
    BY <2>2 DEF SameTerms, TermsSound
  <2> QED BY <2>2, <2>3, KeepsTerms
<1>6. TermsSound(runs[n])'
  BY <1>2, <1>3 DEF TermsSound, Cleared, PageTypes, Bound, Result, form
<1>7. RunsKeep
  BY <1>3, <1>5 DEF RunsKeep
<1>8. ASSUME NEW r \in DOMAIN runs'
      PROVE  /\ TermsSound(runs[r])'
             /\ runs'[r].pc \in {"check", "gas", "reads"} => runs'[r].ask = 0
             /\ runs'[r].pc \in {"ask", "receipt"} =>
                  runs'[r].ask \in DOMAIN asks' /\ asks'[runs'[r].ask].by = r
  <2>1. CASE r = n
    BY <1>2, <1>3, <1>4, <1>6, <2>1
  <2>2. CASE r # n
    BY <1>3, <1>4, <1>5, <2>2 DEF RunsInv
  <2> QED BY <2>1, <2>2
<1>9. ASSUME NEW i \in DOMAIN asks'
      PROVE  /\ asks'[i].by \in DOMAIN runs'
             /\ asks'[i].does \in Main => i = runs'[asks'[i].by].ask
             /\ asks'[i].does = "create" => runs'[asks'[i].by].does = "create"
  BY <1>2, <1>3, <1>4 DEF RunsInv
<1>10. RunsInv'
  BY <1>3, <1>8, <1>9 DEF RunsInv
<1>11. n \notin DOMAIN runs /\ DOMAIN runs' = DOMAIN runs \cup {n} /\ runs'[n].pc = pc
  BY <1>2, <1>3
<1> QED BY <1>3, <1>4, <1>7, <1>10, <1>11

-----------------------------------------------------------------------------
(***************************************************************************)
(* The sheet and its history                                               *)
(***************************************************************************)
LEMMA TickStays ==
  ASSUME TickRead, page' = page, read \subseteq read', tick' = tick \/ tick' = NoTick
  PROVE  TickRead'
BY DEF TickRead, form

LEMMA DealsStay ==
  ASSUME RunsInv, DealsSound, RunsKeep, AsksKeep, NoneLands, UNCHANGED <<page, deals>>
  PROVE  DealsSound'
<1>1. ASSUME NEW d \in deals
      PROVE  d.run \in DOMAIN runs /\ d.run \in DOMAIN runs' /\ SameTerms(runs[d.run], runs'[d.run])
  BY DEF DealsSound, RunsKeep
<1>2. KeepsWhatWasShown'
  BY <1>1 DEF DealsSound, KeepsWhatWasShown, SameTerms, Within, Bound, Result, form
<1>3. \A i \in DOMAIN asks' : asks'[i].stage = "landed" => \E d \in deals' : d.run = asks'[i].by
  BY DEF DealsSound, AsksKeep, NoneLands
<1> QED BY <1>1, <1>2, <1>3 DEF DealsSound

LEMMA StatusStays ==
  ASSUME StatusSound, RunsKeep, AsksKeep, status' = status, deals \subseteq deals'
  PROVE  StatusSound'
BY DEF StatusSound, RunsKeep, AsksKeep

LEMMA StatusNeutral ==
  ASSUME status'.says \notin {"confirmed", "cancelled"}
  PROVE  StatusSound'
BY DEF StatusSound

(* A step that ends no run and starts none. *)
LEMMA OneStays ==
  ASSUME OneUnderway, page' = page, DOMAIN runs' = DOMAIN runs,
         \A r \in DOMAIN runs : runs'[r].pc # "done" => runs[r].pc # "done",
         form \in {"create", "add", "remove", "fees"} /\ Underway # {} /\ Shows => Shows'
  PROVE  OneUnderway'
<1>1. form' = form /\ Underway' \subseteq Underway
  BY DEF form, Underway
<1> QED BY <1>1 DEF OneUnderway

(* The last step of a run. *)
LEMMA OneEnds ==
  ASSUME OneUnderway, page' = page, DOMAIN runs' = DOMAIN runs, NEW r \in DOMAIN runs,
         runs[r].pc # "done", runs'[r].pc = "done",
         \A s \in DOMAIN runs : s # r => runs'[s] = runs[s]
  PROVE  OneUnderway'
<1>1. form' = form /\ r \in Underway
  BY DEF form, Underway
<1>2. form \in {"create", "add", "remove", "fees"} => Underway' = {}
  BY <1>1 DEF OneUnderway, Underway
<1> QED BY <1>1, <1>2 DEF OneUnderway

(* A press, when nothing is under way. *)
LEMMA OneStarts ==
  ASSUME OneUnderway, page' = page, NEW n, DOMAIN runs' = DOMAIN runs \cup {n},
         \A s \in DOMAIN runs : runs'[s] = runs[s],
         form \in {"create", "add", "remove", "fees"} => ~Shows /\ Shows'
  PROVE  OneUnderway'
<1>1. form' = form
  BY DEF form
<1>2. form \in {"create", "add", "remove", "fees"} => Underway' \subseteq {n}
  BY DEF OneUnderway, Underway
<1> QED BY <1>1, <1>2 DEF OneUnderway

(* A run ends with its status line. *)
LEMMA Ends ==
  ASSUME FormsInv, NEW r \in DOMAIN runs, runs[r].pc # "done", NEW says, EndsSaying(r, says),
         says = "confirmed" => \E d \in deals : d.run = r,
         says = "cancelled" => runs[r].ask \in DOMAIN asks /\ asks[runs[r].ask].reply = "rejected"
  PROVE  FormsInv'
<1>1. /\ GoesTo(r, "done") /\ phase' = "idle" /\ status' = Says(says, r)
      /\ amount' = amount \/ amount' = 0
      /\ tick' = tick \/ tick' = NoTick
      /\ known' = known \/ known' = chain
      /\ UNCHANGED <<page, standing, settled, approval, chain, read, deals, walletVars>>
  BY DEF EndsSaying, Refetches
<1>2. WalletInv'
  BY <1>1 DEF FormsInv, WalletInv, AskSound, walletVars
<1>3. /\ RunsInv' /\ RunsKeep /\ AsksKeep /\ NoneLands
      /\ DOMAIN runs' = DOMAIN runs /\ runs'[r].pc = "done" /\ runs'[r].ask = runs[r].ask
      /\ \A s \in DOMAIN runs : s # r => runs'[s] = runs[s]
  BY <1>1, RunGoes DEF FormsInv, walletVars
<1>4. PageTypes'
  BY <1>1 DEF FormsInv, PageInv, PageTypes
<1>5. TickRead'
  BY <1>1, TickStays DEF FormsInv, PageInv
<1>6. DealsSound'
  BY <1>1, <1>3, DealsStay DEF FormsInv, PageInv
<1>7. StatusSound'
  BY <1>1, <1>3 DEF StatusSound, Says, walletVars
<1>8. OneUnderway'
  BY <1>1, <1>3, OneEnds DEF FormsInv, PageInv
<1> QED BY <1>2, <1>3, <1>4, <1>5, <1>6, <1>7, <1>8 DEF FormsInv, PageInv

(* A run goes on, to another await or with another request. *)
LEMMA GoesOn ==
  ASSUME FormsInv, NEW r \in DOMAIN runs, runs[r].pc # "done", UNCHANGED formVars,
         phase' = phase \/ phase' = "pending", status' = status \/ status' = Says("pending", r),
         \/ /\ UNCHANGED walletVars
            /\ \/ GoesTo(r, "gas") /\ runs[r].pc = "check"
               \/ GoesTo(r, "receipt") /\ runs[r].pc = "ask"
         \/ /\ UNCHANGED askVars /\ (runs[r].ask = 0 \/ asks[runs[r].ask].does \notin Main)
            /\ \E does \in {"trade", "approve", "permit", "removal", "mint"} : GoesToAsk(r, does)
  PROVE  FormsInv'
<1>1. UNCHANGED <<page, standing, amount, tick, chain, known, read, deals>>
  BY DEF formVars, inputVars
<1>2. /\ WalletInv' /\ RunsInv' /\ RunsKeep /\ AsksKeep /\ NoneLands
      /\ DOMAIN runs' = DOMAIN runs /\ \A s \in DOMAIN runs : s # r => runs'[s] = runs[s]
  <2>1. CASE UNCHANGED walletVars /\ (\/ GoesTo(r, "gas") /\ runs[r].pc = "check"
                                      \/ GoesTo(r, "receipt") /\ runs[r].pc = "ask")
    <3>1. WalletInv'
      BY <2>1 DEF FormsInv, WalletInv, AskSound, walletVars
    <3>2. runs[r].pc = "check" => runs[r].ask = 0
      BY DEF FormsInv, RunsInv
    <3>3. asks' = asks
      BY <2>1 DEF walletVars
    <3>4. CASE GoesTo(r, "gas") /\ runs[r].pc = "check"
      BY <1>1, <3>1, <3>2, <3>3, <3>4, RunGoes DEF FormsInv
    <3>5. CASE GoesTo(r, "receipt") /\ runs[r].pc = "ask"
      BY <1>1, <3>1, <3>3, <3>5, RunGoes DEF FormsInv
    <3> QED BY <2>1, <3>4, <3>5
  <2>2. CASE /\ UNCHANGED askVars /\ (runs[r].ask = 0 \/ asks[runs[r].ask].does \notin Main)
             /\ \E does \in {"trade", "approve", "permit", "removal", "mint"} : GoesToAsk(r, does)
    <3>1. PICK does \in {"trade", "approve", "permit", "removal", "mint"} : GoesToAsk(r, does)
      BY <2>2
    <3>2. UNCHANGED <<askVars, page>> /\ read \subseteq read'
      BY <1>1, <2>2
    <3> QED BY <2>2, <3>1, <3>2, RunAsks DEF FormsInv
  <2> QED BY <2>1, <2>2
<1>3. PageTypes'
  BY <1>1 DEF FormsInv, PageInv, PageTypes
<1>4. TickRead'
  BY <1>1, TickStays DEF FormsInv, PageInv
<1>5. DealsSound'
  BY <1>1, <1>2, DealsStay DEF FormsInv, PageInv
<1>6. StatusSound'
  <2>1. CASE status' = status
    BY <1>1, <1>2, <2>1, StatusStays DEF FormsInv, PageInv
  <2>2. CASE status' = Says("pending", r)
    BY <2>2, StatusNeutral DEF Says
  <2> QED BY <2>1, <2>2
<1>7. OneUnderway'
  <2>1. \A s \in DOMAIN runs : runs'[s].pc # "done" => runs[s].pc # "done"
    BY <1>2
  <2>2. form' = form
    BY <1>1 DEF form
  <2>3. form \in {"create", "add", "remove", "fees"} /\ Shows => Shows'
    BY <2>2 DEF Shows, Says
  <2> QED BY <1>1, <1>2, <2>1, <2>3, OneStays DEF FormsInv, PageInv
<1> QED BY <1>2, <1>3, <1>4, <1>5, <1>6, <1>7 DEF FormsInv, PageInv

(* Each step of a run. *)
LEMMA StepKeeps ==
  ASSUME FormsInv, NEW r \in DOMAIN runs, Step(r)
  PROVE  FormsInv'
<1> DEFINE asked == runs[r].ask
<1>1. /\ runs[r].pc \in {"check", "gas", "reads"} => asked = 0
      /\ runs[r].pc \in {"ask", "receipt"} =>
           asked \in DOMAIN asks /\ asks[asked].by = r /\ AskSound(asked)
  BY DEF FormsInv, RunsInv, WalletInv
<1>2. CASE CheckPasses(r)
  <2>1. runs[r].pc = "check"
    BY <1>2 DEF CheckPasses, At
  <2>2. CASE form = "buy14"
    BY <1>2, <2>1, <2>2, GoesOn DEF CheckPasses, walletVars, askVars
  <2>3. CASE form # "buy14"
    BY <1>1, <1>2, <2>1, <2>3, GoesOn DEF CheckPasses
  <2> QED BY <2>2, <2>3
<1>3. CASE CheckMoves(r)
  <2>1. /\ runs[r].pc # "done" /\ GoesTo(r, "done") /\ phase' = "quoteMoved"
        /\ UNCHANGED <<page, standing, amount, tick, chain, known, read, deals, status, walletVars>>
    BY <1>3 DEF CheckMoves, At, formVars, inputVars
  <2>2. /\ RunsInv' /\ RunsKeep /\ AsksKeep /\ NoneLands
        /\ DOMAIN runs' = DOMAIN runs /\ runs'[r].pc = "done"
        /\ \A s \in DOMAIN runs : s # r => runs'[s] = runs[s]
    BY <2>1, RunGoes DEF FormsInv, walletVars
  <2>3. WalletInv'
    BY <2>1 DEF FormsInv, WalletInv, AskSound, walletVars
  <2>4. PageTypes' /\ TickRead'
    BY <2>1, TickStays DEF FormsInv, PageInv, PageTypes
  <2>5. DealsSound' /\ StatusSound' /\ OneUnderway'
    BY <2>1, <2>2, DealsStay, StatusStays, OneEnds DEF FormsInv, PageInv
  <2> QED BY <2>2, <2>3, <2>4, <2>5 DEF FormsInv, PageInv
<1>4. CASE CheckReverts(r)
  BY <1>4, Ends DEF CheckReverts, At
<1>5. CASE GasKnown(r)
  BY <1>1, <1>5, GoesOn DEF GasKnown, At
<1>6. CASE PermitReads(r)
  BY <1>1, <1>6, GoesOn DEF PermitReads, At
<1>7. CASE PermitSigned(r)
  <2>1. runs[r].pc = "ask" /\ asks[asked].reply = "signature"
    BY <1>7 DEF PermitSigned, Told, At, Current
  <2>2. asks[asked].does \notin Main
    BY <1>1, <2>1 DEF AskSound, Main
  <2> QED BY <1>7, <2>1, <2>2, GoesOn DEF PermitSigned
<1>8. CASE PermitRefused(r)
  <2>1. runs[r].pc = "ask" /\ asks[asked].does \notin Main
    BY <1>8 DEF PermitRefused, MayFallBack, Told, At, Current, Main
  <2>2. \E does \in {"trade", "approve", "permit", "removal", "mint"} : GoesToAsk(r, does)
    BY <1>8 DEF PermitRefused, FallsBack
  <2> QED BY <1>8, <2>1, <2>2, GoesOn DEF PermitRefused
<1>9. CASE HashArrives(r)
  BY <1>9, GoesOn DEF HashArrives, Told, At
<1>10. CASE AskRejected(r)
  <2>1. /\ runs[r].pc = "ask" /\ asks[asked].reply = "rejected" /\ EndsSaying(r, "cancelled")
    BY <1>10 DEF AskRejected, Told, At, Current
  <2> QED BY <1>1, <2>1, Ends
<1>11. CASE AskErrs(r)
  BY <1>11, Ends DEF AskErrs, Told, At
<1>12. CASE ApprovalMined(r)
  <2>1. /\ runs[r].pc = "receipt" /\ GoesTo(r, "done") /\ phase' = "idle"
        /\ known' = known \/ known' = chain
        /\ UNCHANGED <<page, standing, amount, tick, chain, read, deals, walletVars>>
        /\ status' = status \/ (status' = Says("confirmed", r) /\ asks[asked].stage = "landed")
    BY <1>12 DEF ApprovalMined, Mined, Unchecked, SwapForms, Current, At, Refetches, inputVars
  <2>2. /\ RunsInv' /\ RunsKeep /\ AsksKeep /\ NoneLands
        /\ DOMAIN runs' = DOMAIN runs /\ runs'[r].pc = "done"
        /\ \A s \in DOMAIN runs : s # r => runs'[s] = runs[s]
    BY <2>1, RunGoes DEF FormsInv, walletVars
  <2>3. WalletInv'
    BY <2>1 DEF FormsInv, WalletInv, AskSound, walletVars
  <2>4. PageTypes' /\ TickRead'
    BY <2>1, TickStays DEF FormsInv, PageInv, PageTypes
  <2>5. DealsSound' /\ OneUnderway'
    BY <2>1, <2>2, DealsStay, OneEnds DEF FormsInv, PageInv
  <2>6. StatusSound'
    <3>1. CASE status' = status
      BY <2>1, <2>2, <3>1, StatusStays DEF FormsInv, PageInv
    <3>2. CASE status' = Says("confirmed", r) /\ asks[asked].stage = "landed"
      <4>1. \E d \in deals : d.run = r
        BY <1>1, <2>1, <3>2 DEF FormsInv, PageInv, DealsSound
      <4> QED BY <2>1, <3>2, <4>1 DEF StatusSound, Says
    <3> QED BY <2>1, <3>1, <3>2
  <2> QED BY <2>2, <2>3, <2>4, <2>5, <2>6 DEF FormsInv, PageInv
<1>13. CASE NextTransaction(r)
  <2>1. runs[r].pc = "receipt" /\ asks[asked].does \notin Main
    BY <1>13 DEF NextTransaction, Mined, At, Current, Main
  <2>2. \E does \in {"trade", "approve", "permit", "removal", "mint"} : GoesToAsk(r, does)
    BY <1>13 DEF NextTransaction
  <2> QED BY <1>13, <2>1, <2>2, GoesOn DEF NextTransaction
<1>14. CASE Confirmed(r)
  <2>1. runs[r].pc = "receipt" /\ asks[asked].stage = "landed" /\ EndsSaying(r, "confirmed")
    BY <1>14 DEF Confirmed, Mined, At, Current
  <2>2. \E d \in deals : d.run = r
    BY <1>1, <2>1 DEF FormsInv, PageInv, DealsSound
  <2> QED BY <2>1, <2>2, Ends
<1>15. CASE Reverted(r)
  BY <1>15, Ends DEF Reverted, Mined, At
<1> QED BY <1>2, <1>3, <1>4, <1>5, <1>6, <1>7, <1>8, <1>9, <1>10, <1>11, <1>12, <1>13, <1>14,
           <1>15 DEF Step

-----------------------------------------------------------------------------
(***************************************************************************)
(* Presses                                                                 *)
(***************************************************************************)
(* A trade the button is ready for was acknowledged beside its own sentence. *)
LEMMA ReadyIsCleared ==
  ASSUME TickRead, HasQuote, ImpactClear
  PROVE  Cleared
<1> DEFINE v == Venue(known.graduated)
           s == Sentence(amount, QuotePrice)
<1>1. Tier(amount) = "normal" \/ (Tier(amount) = "acknowledge" /\ tick = <<form, amount, v, s>>)
  BY DEF ImpactClear, AcknowledgmentKey
<1> HIDE DEF v, s
<1>2. ASSUME tick = <<form, amount, v, s>>
      PROVE  <<amount, v, s>> \in read
  <2>1. PICK x \in read : x = <<x[1], x[2], x[3]>> /\ tick = <<form, x[1], x[2], x[3]>>
    BY <1>2 DEF TickRead, NoTick
  <2>2. x[1] = amount /\ x[2] = v /\ x[3] = s
    BY <1>2, <2>1
  <2> QED BY <2>1, <2>2
<1> QED BY <1>1, <1>2 DEF Cleared, v, s

LEMMA PressStarts ==
  ASSUME FormsInv, Cleared, NEW does, NEW pc \in {"ask", "check", "reads"}, StartRun(does, pc),
         NEW what, pc = "ask" => AskWallet(Next1, what), pc # "ask" => asks' = asks,
         UNCHANGED <<inputVars, chain, known, read, deals, askVars>>,
         does = "create" => form = "create", what = "create" => does = "create",
         phase' \in {phase, "approving", "pending", "busy", "bridging"},
         status' = NoStatus \/ status' = Says("pending", Next1),
         form \in {"create", "add", "remove", "fees"} => ~Shows /\ Shows'
  PROVE  FormsInv'
<1>1. UNCHANGED <<page, standing, amount, tick>>
  BY DEF inputVars
<1>2. PICK n : n = Next1
  OBVIOUS
<1>3. /\ WalletInv' /\ RunsInv' /\ RunsKeep /\ AsksKeep /\ NoneLands
      /\ DOMAIN runs' = DOMAIN runs \cup {n} /\ \A s \in DOMAIN runs : runs'[s] = runs[s]
  <2>1. UNCHANGED <<page, askVars>> /\ read' = read
    BY <1>1
  <2>2. PageTypes
    BY DEF FormsInv, PageInv
  <2> QED BY <1>2, <2>1, <2>2, RunStarts DEF FormsInv
<1>4. PageTypes'
  BY <1>1 DEF FormsInv, PageInv, PageTypes
<1>5. TickRead' /\ DealsSound'
  BY <1>1, <1>3, TickStays, DealsStay DEF FormsInv, PageInv
<1>6. StatusSound'
  BY StatusNeutral DEF NoStatus, Says
<1>7. OneUnderway'
  BY <1>1, <1>3, OneStarts DEF FormsInv, PageInv
<1> QED BY <1>3, <1>4, <1>5, <1>6, <1>7 DEF FormsInv, PageInv

LEMMA PressKeeps ==
  ASSUME FormsInv,
         \/ PressApprove \/ PressTrade \/ PressCreate \/ PressAdd \/ PressRemove
         \/ PressFees \/ PressBridge
  PROVE  FormsInv'
<1>1. /\ standing \in {"out", "elsewhere", "good"} /\ TickRead
      /\ phase \in {"idle", "approving", "pending", "quoteMoved", "busy", "bridging", "estimating"}
  BY DEF FormsInv, PageInv, PageTypes
<1>2. form \notin TradeForms => Cleared
  BY DEF Cleared
<1>3. page' = page => form' = form
  BY DEF form
<1>4. CASE PressApprove
  <2>1. Cleared
    <3>1. CASE form \in TradeForms
      <4>1. TradeButton = "needsApproval" /\ ImpactClear
        BY <1>4, <3>1 DEF PressApprove, TradeForms, SwapForms, LaunchForms
      <4>2. HasQuote
        BY <1>1, <4>1 DEF TradeButton
      <4> QED BY <1>1, <4>1, <4>2, ReadyIsCleared
    <3> QED BY <1>2, <3>1
  <2>2. form \in {"create", "add", "remove", "fees"} => ~Shows /\ Shows'
    BY <1>1, <1>3, <1>4 DEF PressApprove, TradeForms, SwapForms, LaunchForms, Shows, Says,
       CreateButton, LiquidityButton, inputVars
  <2> QED BY <1>4, <2>1, <2>2, PressStarts DEF PressApprove
<1>5. CASE PressTrade
  <2>1. form \in TradeForms /\ TradeButton = "ready" /\ ImpactClear
    BY <1>5 DEF PressTrade
  <2>2. HasQuote
    BY <1>1, <2>1 DEF TradeButton
  <2>3. Cleared
    BY <1>1, <2>1, <2>2, ReadyIsCleared
  <2>4. form \notin {"create", "add", "remove", "fees"}
    BY <2>1 DEF TradeForms, SwapForms, LaunchForms
  <2> QED BY <1>5, <2>3, <2>4, PressStarts DEF PressTrade, walletVars, askVars
<1>6. CASE PressCreate
  <2>1. form = "create" /\ Cleared
    BY <1>2, <1>6 DEF PressCreate, TradeForms, SwapForms, LaunchForms
  <2>2. ~Shows /\ Shows'
    BY <1>1, <1>3, <1>6, <2>1 DEF PressCreate, Shows, CreateButton, inputVars
  <2> QED BY <1>6, <2>1, <2>2, PressStarts DEF PressCreate
<1>7. CASE PressAdd
  <2>1. form = "add" /\ Cleared
    BY <1>2, <1>7 DEF PressAdd, TradeForms, SwapForms, LaunchForms
  <2>2. ~Shows /\ Shows'
    BY <1>1, <1>3, <1>7, <2>1 DEF PressAdd, Shows, LiquidityButton, Says, inputVars
  <2> QED BY <1>7, <2>1, <2>2, PressStarts DEF PressAdd
<1>8. CASE PressRemove
  <2>1. form = "remove" /\ Cleared
    BY <1>2, <1>8 DEF PressRemove, TradeForms, SwapForms, LaunchForms
  <2>2. ~Shows /\ Shows'
    BY <1>1, <1>3, <1>8, <2>1 DEF PressRemove, Shows, LiquidityButton, Says, inputVars
  <2> QED BY <1>8, <2>1, <2>2, PressStarts DEF PressRemove, walletVars, askVars
<1>9. CASE PressFees
  <2>1. form = "fees" /\ Cleared
    BY <1>2, <1>9 DEF PressFees, TradeForms, SwapForms, LaunchForms
  <2>2. ~Shows /\ Shows'
    BY <1>1, <1>3, <1>9, <2>1 DEF PressFees, Shows, FeesButton, inputVars
  <2> QED BY <1>9, <2>1, <2>2, PressStarts DEF PressFees
<1>10. CASE PressBridge
  <2>1. form = "bridge" /\ Cleared
    BY <1>2, <1>10 DEF PressBridge, TradeForms, SwapForms, LaunchForms
  <2> QED BY <1>10, <2>1, PressStarts DEF PressBridge
<1> QED BY <1>4, <1>5, <1>6, <1>7, <1>8, <1>9, <1>10

-----------------------------------------------------------------------------
(***************************************************************************)
(* The form, the chain and the wallet                                      *)
(***************************************************************************)
(* Steps that move no run and no request. *)
LEMMA PageMoves ==
  ASSUME FormsInv, UNCHANGED <<page, runs, deals, walletVars>>, PageTypes', TickRead',
         read \subseteq read', status' = status \/ status' = NoStatus,
         form \in {"create", "add", "remove", "fees"} => UNCHANGED <<phase, status>>
  PROVE  FormsInv'
<1>1. AsksGo /\ NoneLands /\ UNCHANGED <<page, runs, asks>>
  BY DEF AsksGo, NoneLands, walletVars
<1>2. WalletInv'
  BY DEF FormsInv, WalletInv, AskSound, walletVars
<1>3. RunsInv' /\ RunsKeep /\ AsksKeep
  BY <1>1, RunsStay DEF FormsInv
<1>4. DealsSound'
  BY <1>1, <1>3, DealsStay DEF FormsInv, PageInv
<1>5. StatusSound'
  BY <1>3, StatusStays, StatusNeutral DEF FormsInv, PageInv, NoStatus
<1>6. OneUnderway'
  <2>1. form' = form
    BY DEF form
  <2>2. form \in {"create", "add", "remove", "fees"} /\ Shows => Shows'
    BY <2>1 DEF Shows
  <2> QED BY <1>1, <2>2, OneStays DEF FormsInv, PageInv
<1> QED BY <1>2, <1>3, <1>4, <1>5, <1>6 DEF FormsInv, PageInv

LEMMA FormKeeps ==
  ASSUME FormsInv,
         \/ ReviewQuote \/ PressIdly \/ (\E a \in 0 .. 3 : Edit(a))
         \/ Tick \/ Settles \/ PoolQuoted \/ EstimateStarts \/ EstimateEnds
         \/ StopsWaiting \/ Polls \/ (\E s \in {"elsewhere", "good"} : Connects(s)) \/ Others
  PROVE  FormsInv'
<1>1. PageTypes /\ TickRead
  BY DEF FormsInv, PageInv
<1>2. CASE ReviewQuote \/ PressIdly
  <2>1. /\ UNCHANGED <<page, standing, amount, tick, chain, known, read, runs, deals, walletVars>>
        /\ form \in TradeForms /\ phase' \in {phase, "idle"} /\ status' = NoStatus
    BY <1>2 DEF ReviewQuote, PressIdly, inputVars
  <2>2. PageTypes' /\ TickRead'
    BY <1>1, <2>1, TickStays DEF PageTypes
  <2>3. form \notin {"create", "add", "remove", "fees"}
    BY <2>1 DEF TradeForms, SwapForms, LaunchForms
  <2> QED BY <2>1, <2>2, <2>3, PageMoves
<1>3. CASE \E a \in 0 .. 3 : Edit(a)
  <2>1. /\ UNCHANGED <<page, standing, phase, status, chain, known, read, runs, deals, walletVars>>
        /\ amount' \in 0 .. 3 /\ tick' = NoTick
    BY <1>3 DEF Edit, afterInput
  <2>2. PageTypes' /\ TickRead'
    BY <1>1, <2>1, TickStays DEF PageTypes
  <2> QED BY <2>1, <2>2, PageMoves
<1>4. CASE Tick
  <2>1. UNCHANGED <<page, standing, amount, phase, status, chain, known, runs, deals, walletVars>>
    BY <1>4 DEF Tick
  <2>2. PageTypes'
    BY <1>1, <2>1 DEF PageTypes
  <2>3. TickRead' /\ read \subseteq read'
    <3>1. CASE tick = AcknowledgmentKey
      BY <1>1, <1>4, <2>1, <3>1, TickStays DEF Tick
    <3>2. CASE tick # AcknowledgmentKey
      <4> DEFINE v == Venue(known.graduated)
                 s == Sentence(amount, QuotePrice)
      <4>1. tick' = <<form, amount, v, s>> /\ read' = read \cup {<<amount, v, s>>} /\ form' = form
        BY <1>4, <2>1, <3>2 DEF Tick, AcknowledgmentKey, form
      <4> HIDE DEF v, s
      <4>2. PICK x : x = <<amount, v, s>>
        OBVIOUS
      <4>3. /\ x \in read' /\ x = <<x[1], x[2], x[3]>> /\ tick' = <<form', x[1], x[2], x[3]>>
            /\ read \subseteq read'
        BY <4>1, <4>2
      <4> QED BY <4>3 DEF TickRead
    <3> QED BY <3>1, <3>2
  <2> QED BY <2>1, <2>2, <2>3, PageMoves
<1>5. CASE EstimateStarts \/ EstimateEnds
  <2>1. /\ UNCHANGED <<page, standing, amount, tick, status, chain, known, read, runs, deals, walletVars>>
        /\ form = "bridge" /\ phase' \in {"estimating", "idle"}
    BY <1>5 DEF EstimateStarts, EstimateEnds
  <2>2. PageTypes' /\ TickRead'
    BY <1>1, <2>1, TickStays DEF PageTypes
  <2> QED BY <2>1, <2>2, PageMoves
<1>6. CASE \/ Settles \/ PoolQuoted \/ StopsWaiting \/ Polls \/ Others
           \/ \E s \in {"elsewhere", "good"} : Connects(s)
  <2>1. /\ UNCHANGED <<page, amount, tick, phase, status, read, runs, deals, walletVars>>
        /\ standing' \in {standing, "elsewhere", "good"} /\ known' \in {known, chain}
    BY <1>6 DEF Settles, PoolQuoted, StopsWaiting, Polls, Others, Connects, afterInput, inputVars,
       beforeChain
  <2>2. DOMAIN chain' = ChainFields /\ chain'.fee \in Nat
    <3>1. CASE chain' = chain
      BY <1>1, <3>1 DEF PageTypes
    <3>2. CASE chain' # chain
      <4>1. Others
        BY <1>6, <3>2 DEF Settles, PoolQuoted, StopsWaiting, Polls, Connects, afterInput, inputVars
      <4>2. DOMAIN chain = ChainFields /\ chain.fee \in Nat
        BY <1>1 DEF PageTypes
      <4> QED BY <4>1, <4>2, FormsAssumption DEF Others, ChainFields
    <3> QED BY <3>1, <3>2
  <2>3. PageTypes' /\ TickRead'
    BY <1>1, <2>1, <2>2, TickStays DEF PageTypes
  <2> QED BY <2>1, <2>3, PageMoves
<1> QED BY <1>2, <1>3, <1>4, <1>5, <1>6

(* What lands is what its run was told it would be. *)
LEMMA DealKept ==
  ASSUME FormsInv, NEW i \in DOMAIN asks, Fits(asks[i].by, asks[i].does),
         NEW r, r = asks[i].by, NEW d, d = Deal(r, asks[i].does)
  PROVE  /\ r \in DOMAIN runs /\ d.run = r
         /\ d.does = "trade" => Within(form, d.result, Bound(form, runs[r].a, runs[r].p))
         /\ d.does = "create" => d.paid <= runs[r].fee + runs[r].a
         /\ d.does = "add" /\ ~runs[r].pool => d.at = runs[r].p
<1>1. /\ r \in DOMAIN runs /\ TermsSound(runs[r])
      /\ asks[i].does = "create" => runs[r].does = "create"
  BY DEF FormsInv, RunsInv
<1>2. /\ d.run = r /\ d.does = asks[i].does /\ d.at = After(r, asks[i].does).price
      /\ d.result = Result(form, runs[r].a, chain.price) /\ d.paid = Pays(r)
  BY DEF Deal
<1>3. DOMAIN chain = ChainFields /\ chain.fee \in Nat
  BY DEF FormsInv, PageInv, PageTypes
<1>4. ASSUME d.does = "trade"
      PROVE  Within(form, d.result, Bound(form, runs[r].a, runs[r].p))
  <2>1. ChainQuoteHolds(r)
    BY <1>2, <1>4 DEF Fits
  <2>2. runs[r].bound = Bound(form, runs[r].a, runs[r].p)
    BY <1>1 DEF TermsSound
  <2> QED BY <1>2, <2>1, <2>2 DEF ChainQuoteHolds
<1>5. ASSUME d.does = "create"
      PROVE  d.paid <= runs[r].fee + runs[r].a
  <2>1. runs[r].does = "create" /\ chain.fee <= runs[r].fee
    BY <1>1, <1>2, <1>5 DEF Fits
  <2>2. form = "create" /\ runs[r].a \in 0 .. 3 /\ runs[r].fee \in Nat
    BY <1>1, <2>1 DEF TermsSound
  <2>3. Pays(r) = chain.fee + runs[r].a
    BY <2>1, <2>2 DEF Pays, Sells
  <2> QED BY <1>2, <1>3, <2>1, <2>2, <2>3
<1>6. ASSUME d.does = "add", ~runs[r].pool
      PROVE  d.at = runs[r].p
  <2>1. chain.pool => chain.price = runs[r].p
    BY <1>2, <1>6 DEF Fits
  <2>2. After(r, "add").price = IF chain.pool THEN chain.price ELSE runs[r].p
    BY <1>3 DEF After, ChainFields
  <2> QED BY <1>2, <1>6, <2>1, <2>2
<1> QED BY <1>1, <1>2, <1>4, <1>5, <1>6

LEMMA ChainKeeps ==
  ASSUME FormsInv, NEW i \in DOMAIN asks, Lands(i) \/ Fails(i)
  PROVE  FormsInv'
<1>1. /\ UNCHANGED <<page, standing, amount, tick, phase, status, known, runs, read, askVars>>
      /\ asks[i].stage = "sent"
  BY DEF Lands, Fails, beforeChain, inputVars
<1>2. \E stage \in {"landed", "reverted"} : asks' = [asks EXCEPT ![i].stage = stage]
  BY DEF Lands, Fails
<1>3. /\ WalletInv' /\ AsksGo /\ (Fails(i) => NoneLands)
      /\ \A j \in DOMAIN asks : j # i => asks'[j] = asks[j]
  <2>1. WalletInv
    BY DEF FormsInv
  <2>2. CASE Fails(i)
    <3>1. asks' = [asks EXCEPT ![i].stage = "reverted"]
      BY <2>2 DEF Fails
    <3> QED BY <1>1, <2>1, <3>1, ChainTurns
  <2>3. CASE ~Fails(i)
    <3>1. asks' = [asks EXCEPT ![i].stage = "landed"]
      BY <2>3 DEF Lands
    <3> QED BY <1>1, <2>1, <2>3, <3>1, ChainTurns
  <2> QED BY <2>2, <2>3
<1>4. RunsInv' /\ RunsKeep /\ AsksKeep
  BY <1>1, <1>3, RunsStay DEF FormsInv
<1>5. PageTypes' /\ deals \subseteq deals'
  <2>1. PageTypes
    BY DEF FormsInv, PageInv
  <2>2. CASE Fails(i)
    BY <1>1, <2>1, <2>2 DEF Fails, PageTypes
  <2>3. CASE Lands(i)
    <3>1. chain' = After(asks[i].by, asks[i].does) /\ deals \subseteq deals'
      BY <2>3 DEF Lands
    <3>2. DOMAIN chain' = ChainFields /\ chain'.fee \in Nat
      BY <2>1, <3>1 DEF After, PageTypes, ChainFields
    <3> QED BY <1>1, <2>1, <3>1, <3>2 DEF PageTypes
  <2> QED BY <2>2, <2>3
<1>6. TickRead' /\ StatusSound'
  BY <1>1, <1>4, <1>5, TickStays, StatusStays DEF FormsInv, PageInv
<1>7. DealsSound'
  <2>1. CASE Fails(i)
    BY <1>1, <1>3, <1>4, <2>1, DealsStay DEF FormsInv, PageInv, Fails
  <2>2. CASE Lands(i)
    <3>1. PICK r : r = asks[i].by
      OBVIOUS
    <3>2. PICK d : d = Deal(r, asks[i].does)
      OBVIOUS
    <3>3. /\ r \in DOMAIN runs /\ d.run = r
          /\ d.does = "trade" => Within(form, d.result, Bound(form, runs[r].a, runs[r].p))
          /\ d.does = "create" => d.paid <= runs[r].fee + runs[r].a
          /\ d.does = "add" /\ ~runs[r].pool => d.at = runs[r].p
      BY <2>2, <3>1, <3>2, DealKept DEF Lands
    <3>4. deals' = deals \cup {d} /\ runs' = runs /\ form' = form
      BY <1>1, <2>2, <3>1, <3>2 DEF Lands, form
    <3>5. DealsSound
      BY DEF FormsInv, PageInv
    <3>6. KeepsWhatWasShown' /\ \A x \in deals' : x.run \in DOMAIN runs'
      BY <3>3, <3>4, <3>5 DEF DealsSound, KeepsWhatWasShown, Within, Bound, Result
    <3>7. ASSUME NEW j \in DOMAIN asks', asks'[j].stage = "landed"
          PROVE  \E x \in deals' : x.run = asks'[j].by
      <4>1. j \in DOMAIN asks /\ asks'[j].by = asks[j].by
        BY <1>3, <3>7 DEF AsksGo
      <4>2. CASE j = i
        BY <3>1, <3>3, <3>4, <4>1, <4>2
      <4>3. CASE j # i
        BY <1>3, <3>4, <3>5, <3>7, <4>1, <4>3 DEF DealsSound
      <4> QED BY <4>2, <4>3
    <3> QED BY <3>6, <3>7 DEF DealsSound
  <2> QED BY <2>1, <2>2
<1>8. OneUnderway'
  <2>1. form' = form
    BY <1>1 DEF form
  <2>2. form \in {"create", "add", "remove", "fees"} /\ Shows => Shows'
    BY <1>1, <2>1 DEF Shows
  <2> QED BY <1>1, <2>2, OneStays DEF FormsInv, PageInv
<1> QED BY <1>3, <1>4, <1>5, <1>6, <1>7, <1>8 DEF FormsInv, PageInv

-----------------------------------------------------------------------------
(***************************************************************************)
(* The specification                                                       *)
(***************************************************************************)
LEMMA FormsStart == Init => FormsInv
<1> SUFFICES ASSUME Init PROVE FormsInv
  OBVIOUS
<1>1. /\ runs = <<>> /\ asks = <<>> /\ sheet = 0 /\ unlocking = {} /\ deals = {} /\ read = {}
      /\ tick = NoTick /\ status = NoStatus /\ phase = "idle" /\ amount \in 0 .. 3
      /\ standing \in {"out", "elsewhere", "good"} /\ connector = page.wallet /\ page \in Pages
      /\ known = chain
  BY DEF Init
<1>2. /\ Len(asks) = 0 /\ Len(runs) = 0 /\ DOMAIN asks = {} /\ DOMAIN runs = {}
      /\ IsList(asks) /\ IsList(runs)
  <2>1. asks \in Seq({0}) /\ runs \in Seq({0}) /\ Len(asks) = 0 /\ Len(runs) = 0
    BY <1>1
  <2>2. IsList(asks) /\ IsList(runs) /\ DOMAIN asks = 1 .. 0 /\ DOMAIN runs = 1 .. 0
    BY <2>1, SeqList
  <2> QED BY <2>1, <2>2
<1>3. WalletInv
  <2>1. page.wallet \in {"extension", "browser"}
    BY <1>1, FormsAssumption
  <2> QED BY <1>1, <1>2, <2>1 DEF WalletInv
<1>4. RunsInv
  BY <1>2 DEF RunsInv
<1>5. PageTypes
  <2>1. DOMAIN chain = ChainFields /\ chain.fee \in Nat
    <3> DEFINE F == IF form = "create" THEN Fees ELSE {1}
               G == IF form \in LaunchForms THEN BOOLEAN ELSE {FALSE}
               P == IF form = "add" THEN BOOLEAN ELSE {TRUE}
               A == {[v \in {"curve", "pool"} |-> n] : n \in {0, Plenty}}
    <3>1. chain \in [price : {StartPrice}, fee : F, lp : {3}, graduated : G, pool : P,
                     allowance : A]
      BY DEF Init
    <3> HIDE DEF F, G, P, A
    <3>2. chain.fee \in F /\ DOMAIN chain = ChainFields
      BY <3>1 DEF ChainFields
    <3>3. F \subseteq Nat
      BY FormsAssumption DEF F
    <3> QED BY <3>2, <3>3
  <2> QED BY <1>1, <2>1 DEF PageTypes
<1>6. TickRead /\ DealsSound /\ StatusSound
  BY <1>1, <1>2 DEF TickRead, DealsSound, StatusSound, KeepsWhatWasShown, NoStatus
<1>7. OneUnderway
  BY <1>2 DEF OneUnderway, Underway
<1> QED BY <1>3, <1>4, <1>5, <1>6, <1>7 DEF FormsInv, PageInv

LEMMA NextKeeps == FormsInv /\ [Next]_vars => FormsInv'
<1> SUFFICES ASSUME FormsInv, [Next]_vars PROVE FormsInv'
  OBVIOUS
<1>1. CASE UNCHANGED vars
  <2>1. UNCHANGED <<page, runs, deals, walletVars, read, status, phase, tick>>
    BY <1>1 DEF vars, pageVars, inputVars
  <2>2. PageTypes' /\ TickRead'
    BY <1>1, TickStays DEF vars, pageVars, inputVars, FormsInv, PageInv, PageTypes
  <2> QED BY <2>1, <2>2, PageMoves
<1>2. CASE \E r \in DOMAIN runs : Step(r) \/ ReadFails(r) \/ ReceiptTimesOut(r)
  <2>1. PICK r \in DOMAIN runs : Step(r) \/ ReadFails(r) \/ ReceiptTimesOut(r)
    BY <1>2
  <2>2. CASE Step(r)
    BY <2>2, StepKeeps
  <2>3. CASE ReadFails(r)
    <3>1. CASE (At(r, "check") \/ At(r, "gas")) /\ EndsSaying(r, "failed")
      BY <3>1, Ends DEF At
    <3>2. CASE /\ At(r, "reads") /\ FallsBack(r)
               /\ UNCHANGED <<formVars, phase, status, askVars>>
      <4>1. runs[r].pc = "reads" /\ runs[r].ask = 0
        BY <3>2 DEF At, FormsInv, RunsInv
      <4>2. \E does \in {"trade", "approve", "permit", "removal", "mint"} : GoesToAsk(r, does)
        BY <3>2 DEF FallsBack
      <4> QED BY <3>2, <4>1, <4>2, GoesOn
    <3> QED BY <2>3, <3>1, <3>2 DEF ReadFails
  <2>4. CASE ReceiptTimesOut(r)
    BY <2>4, Ends DEF ReceiptTimesOut, Mined, At
  <2> QED BY <2>1, <2>2, <2>3, <2>4
<1>3. CASE \/ \E i \in DOMAIN asks : Signs(i) \/ Rejects(i) \/ LosesReply(i)
           \/ Sheet \/ SheetTrouble
  <2>1. /\ WalletInv' /\ AsksGo /\ NoneLands
        /\ UNCHANGED <<page, standing, amount, tick, phase, status, runs, known, read, chain, deals>>
    BY <1>3, WalletMoves DEF FormsInv, beforeChain, inputVars
  <2>2. RunsInv' /\ RunsKeep /\ AsksKeep
    BY <2>1, RunsStay DEF FormsInv
  <2>3. PageTypes' /\ TickRead' /\ DealsSound' /\ StatusSound'
    BY <2>1, <2>2, TickStays, DealsStay, StatusStays DEF FormsInv, PageInv, PageTypes
  <2>4. OneUnderway'
    <3>1. Shows => Shows'
      BY <2>1 DEF Shows, form
    <3> QED BY <2>1, <3>1, OneStays DEF FormsInv, PageInv
  <2> QED BY <2>1, <2>2, <2>3, <2>4 DEF FormsInv, PageInv
<1>4. CASE \E i \in DOMAIN asks : Lands(i) \/ Fails(i)
  BY <1>4, ChainKeeps
<1>5. CASE \/ PressApprove \/ PressTrade \/ PressCreate \/ PressAdd \/ PressRemove
           \/ PressFees \/ PressBridge
  BY <1>5, PressKeeps
<1>6. CASE \/ ReviewQuote \/ PressIdly \/ (\E a \in 0 .. 3 : Edit(a))
           \/ Tick \/ Settles \/ PoolQuoted \/ EstimateStarts \/ EstimateEnds
           \/ StopsWaiting \/ Polls \/ (\E s \in {"elsewhere", "good"} : Connects(s)) \/ Others
  BY <1>6, FormKeeps
<1> QED BY <1>1, <1>2, <1>3, <1>4, <1>5, <1>6 DEF Next

(* The invariant holds from the page's opening on, whatever is pressed, typed, *)
(* answered, lost or changed by others.                                       *)
THEOREM FormsInvariance == Spec => []FormsInv
<1>1. Init => FormsInv
  BY FormsStart
<1>2. FormsInv /\ [Next]_vars => FormsInv'
  BY NextKeeps
<1> QED BY <1>1, <1>2, PTL DEF Spec

(* UnlockSheet and lib/unlock.ts: with the browser wallet nothing is signed    *)
(* that was not confirmed on its own sheet, nor anything cancelled, however    *)
(* many requests, confirmations and cancellations overlap in however many tabs. *)
THEOREM ConfirmedOnly == Spec => []OnlyConfirmedSigned
<1>1. FormsInv => OnlyConfirmedSigned
  BY DEF FormsInv, WalletInv, AskSound, OnlyConfirmedSigned
<1> QED BY <1>1, FormsInvariance, PTL

(* useSwap, useLaunchTrade, useCreateToken, useLiquidity, useCreatorFees: a     *)
(* form trades what it showed, says what it did and does it once for each press. *)
THEOREM HonestForms == Spec => []FormsAreHonest
<1>1. ASSUME FormsInv PROVE KeepsWhatWasShown
  BY <1>1 DEF FormsInv, PageInv, DealsSound
<1>2. ASSUME FormsInv PROVE NoBlindTrade
  BY <1>2 DEF FormsInv, RunsInv, TermsSound, NoBlindTrade
<1>3. ASSUME FormsInv PROVE StatusIsTrue
  <2>1. status.says = "confirmed" => \E d \in deals : d.run = status.of
    BY <1>3 DEF FormsInv, PageInv, StatusSound
  <2>2. ASSUME status.says = "cancelled", Went(status.of, Main) PROVE FALSE
    <3>1. PICK i \in DOMAIN asks :
            /\ asks[i].by = status.of /\ asks[i].does \in Main
            /\ asks[i].stage \in {"sent", "landed", "reverted"}
      BY <2>2 DEF Went
    <3>2. i = runs[status.of].ask
      BY <1>3, <3>1 DEF FormsInv, RunsInv
    <3>3. asks[i].reply = "rejected"
      BY <1>3, <2>2, <3>2 DEF FormsInv, PageInv, StatusSound
    <3>4. asks[i].stage = "closed"
      BY <1>3, <3>3 DEF FormsInv, WalletInv, AskSound
    <3> QED BY <3>1, <3>4
  <2> QED BY <2>1, <2>2 DEF StatusIsTrue, Main
<1>4. ASSUME FormsInv PROVE RemovedOnce
  <2>1. SUFFICES ASSUME NEW r \in DOMAIN runs
                 PROVE  Cardinality({i \in DOMAIN asks :
                            asks[i].by = r /\ asks[i].does = "removal"
                            /\ asks[i].stage \in {"sent", "landed"}}) <= 1
    BY DEF RemovedOnce
  <2> DEFINE S == {i \in DOMAIN asks : /\ asks[i].by = r /\ asks[i].does = "removal"
                                       /\ asks[i].stage \in {"sent", "landed"}}
             one == {runs[r].ask}
  <2>2. S \subseteq one
    BY <1>4 DEF FormsInv, RunsInv, Main
  <2>3. IsFiniteSet(one) /\ Cardinality(one) = 1
    BY FS_Singleton
  <2>4. Cardinality(S) <= Cardinality(one)
    BY <2>2, <2>3, FS_Subset, Zenon
  <2> QED BY <2>3, <2>4
<1>5. ASSUME FormsInv PROVE OneAtATime
  <2>1. SUFFICES ASSUME form \in {"create", "add", "remove", "fees"}
                 PROVE  Cardinality(Underway) <= 1
    BY DEF OneAtATime, Underway
  <2>2. \A r, s \in Underway : r = s
    BY <1>5, <2>1 DEF FormsInv, PageInv, OneUnderway
  <2>3. CASE Underway = {}
    <3>1. Cardinality({}) = 0
      BY FS_EmptySet
    <3> QED BY <2>3, <3>1
  <2>4. CASE Underway # {}
    <3>1. PICK r : Underway = {r}
      BY <2>2, <2>4
    <3>2. Cardinality({r}) = 1
      BY FS_Singleton
    <3> QED BY <3>1, <3>2
  <2> QED BY <2>3, <2>4
<1>6. FormsInv => FormsAreHonest
  BY <1>1, <1>2, <1>3, <1>4, <1>5 DEF FormsAreHonest
<1> QED BY <1>6, FormsInvariance, PTL

-----------------------------------------------------------------------------
(***************************************************************************)
(* The wallet kept in the browser (WalletVault): whatever is stored opens, *)
(* and no wallet is written over by one whose tab knew of it.  VaultInv is *)
(* the type of what is kept, that what is about to be stored will open     *)
(* (OpensInv), and what a tab that has heard of every store knows of the   *)
(* record (HeardInv).                                                      *)
(***************************************************************************)
Keys == [from : {"none", "outside", "brought", "random", "password", "prf", "passkey"},
         id : Nat, salt : Nat]
RecordKinds == {"none", "password", "passkey", "passkey-derived"}
Records == [kind : RecordKinds, address : Keys, cred : Nat, salt : Nat, seal : Keys]
Passkeys == [id : Nat, tag : {HANDLE_WALLET, HANDLE_WRAP}, prf : BOOLEAN]
Sheets == [open : BOOLEAN, opens : Nat, busy : BOOLEAN, keepOpen : BOOLEAN,
           confirmForget : BOOLEAN, revealed : Keys]
Jobs == [tab : Tabs, opens : Nat, does : {"create", "import", "signin", "reveal"},
         step : {"register", "assert", "choose", "save", "open"}, rec : Records,
         typed : Nat, began : Nat]

VaultTypeOK ==
  /\ record \in Records /\ stores \in Nat /\ born \in Nat
  /\ passkeys \subseteq Passkeys /\ jobs \subseteq Jobs
  /\ views \in [Tabs -> Records] /\ heard \in [Tabs -> Nat]
  /\ sheets \in [Tabs -> Sheets] /\ joined \in [Tabs -> Keys]

(* There is a passkey for a record made with it, with the tag of its kind. *)
PasskeyMade(rec, keys) ==
  \E k \in keys : k.id = rec.cred /\ k.prf /\ k.tag = Tag(rec)

(* What makes a record open. *)
Opens(rec, keys) ==
  \/ rec.kind = "password" /\ \E p \in Passwords : rec.seal = KeyOf("password", p, 0)
  \/ rec.kind = "passkey" /\ PasskeyMade(rec, keys) /\ rec.seal = Prf(rec.cred, rec.salt)
  \/ /\ rec.kind = "passkey-derived" /\ PasskeyMade(rec, keys) /\ rec.salt = WALLET_SALT
     /\ rec.address = DeriveWalletKey(Prf(rec.cred, WALLET_SALT))

(* What each step of making a wallet has ready. *)
JobReady(j, keys) ==
  /\ j.step \in {"register", "assert"} =>
       j.rec.kind = "passkey" \/ (j.rec.kind = "passkey-derived" /\ j.rec.salt = WALLET_SALT)
  /\ j.step = "assert" => PasskeyMade(j.rec, keys)
  /\ j.step = "choose" => j.rec = Deriving
  /\ j.step = "save" => Opens(j.rec, keys)

OpensInv ==
  /\ record = NoRecord \/ Opens(record, passkeys)
  /\ \A j \in jobs : JobReady(j, passkeys)

(* Who has heard of every store sees the record, or it was forgotten since; *)
(* a wallet begun in such a tab finds no record to write over.              *)
HeardInv ==
  /\ \A t \in Tabs : heard[t] <= stores
  /\ \A t \in Tabs : heard[t] = stores => views[t] = record \/ record = NoRecord
  /\ \A j \in jobs : j.began <= stores
  /\ \A j \in jobs : j.step # "open" /\ j.began = stores => record = NoRecord
  /\ "unasked" \notin lost

VaultInv == VaultTypeOK /\ OpensInv /\ HeardInv

-----------------------------------------------------------------------------
(* What is made is of its type. *)
LEMMA KeysMade ==
  /\ NoKey \in Keys /\ Outside \in Keys /\ Brought \in Keys
  /\ \A n \in Nat : KeyOf("random", n, 0) \in Keys /\ KeyOf("password", n, 0) \in Keys
  /\ \A n, salt \in Nat : Prf(n, salt) \in Keys /\ DeriveWalletKey(Prf(n, salt)) \in Keys
BY DEF NoKey, Outside, Brought, KeyOf, Keys, Prf, DeriveWalletKey

(* Records are of their type. *)
LEMMA RecordsMade ==
  /\ NoRecord \in Records /\ Deriving \in Records
  /\ \A key \in Keys : Wrapping(key) \in Records
  /\ \A key \in Keys, p \in Nat : PasswordRecord(key, p) \in Records
BY KeysMade DEF NoRecord, Deriving, Wrapping, PasswordRecord, Record, Records, RecordKinds,
     WALLET_SALT, RANDOM_SALT

(* So are records being filled. *)
LEMMA RecordsFilled ==
  ASSUME NEW rec \in Records, NEW n \in Nat, NEW salt \in Nat
  PROVE  /\ [rec EXCEPT !.cred = n] \in Records
         /\ Filled(rec, Prf(n, salt)) \in Records
BY KeysMade DEF Filled, Records

(* And sheets. *)
LEMMA SheetsMade ==
  /\ \A n \in Nat : Body(n) \in Sheets
  /\ \A s \in Sheets : Closed(s) \in Sheets /\ OnJoin(s) \in Sheets
BY KeysMade DEF Body, Closed, OnJoin, Sheets

(* A record opens to a key, or to none. *)
LEMMA OpensToKey ==
  ASSUME NEW rec \in Records, NEW typed
  PROVE  OpensTo(rec, typed) \in Keys
BY KeysMade DEF OpensTo, Records, RecordKinds, Prompted

(* A passkey just made is of its type. *)
LEMMA PasskeysMade ==
  ASSUME VaultTypeOK, NEW rec, NEW prf \in BOOLEAN
  PROVE  passkeys \cup {[id |-> born + 1, tag |-> Tag(rec), prf |-> prf]} \subseteq Passkeys
<1>1. [id |-> born + 1, tag |-> Tag(rec), prf |-> prf] \in Passkeys
  BY DEF VaultTypeOK, Passkeys, Tag
<1> QED BY <1>1 DEF VaultTypeOK

(* A job that starts keeps the types. *)
LEMMA StartedTyped ==
  ASSUME VaultTypeOK, NEW j \in Jobs, Started(j), born' \in Nat
  PROVE  VaultTypeOK'
<1>1. j.tab \in Tabs /\ sheets[j.tab] \in Sheets
  BY DEF VaultTypeOK, Jobs
<1>2. [sheets[j.tab] EXCEPT !.busy = TRUE, !.keepOpen = @ \/ j.does \in {"create", "import"}] \in Sheets
  BY <1>1 DEF Sheets
<1>3. sheets' \in [Tabs -> Sheets]
  BY <1>1, <1>2 DEF Started, VaultTypeOK
<1> QED BY <1>3 DEF VaultTypeOK, Started

(* So does one that goes on. *)
LEMMA AdvancesTyped ==
  ASSUME VaultTypeOK, NEW j \in jobs, NEW next \in Jobs, Advances(j, next),
         born' \in Nat, passkeys' \subseteq Passkeys
  PROVE  VaultTypeOK'
BY DEF VaultTypeOK, Advances

(* And one that fails. *)
LEMMA FailsTyped ==
  ASSUME VaultTypeOK, NEW j \in jobs, JobFails(j), born' \in Nat, passkeys' \subseteq Passkeys
  PROVE  VaultTypeOK'
<1>1. j \in Jobs
  BY DEF VaultTypeOK
<1>2. j.tab \in Tabs /\ sheets[j.tab] \in Sheets
  BY <1>1 DEF VaultTypeOK, Jobs
<1>3. [sheets[j.tab] EXCEPT !.busy = FALSE, !.keepOpen = @ /\ j.does \notin {"create", "import"}] \in Sheets
  BY <1>2 DEF Sheets
<1>4. sheets' \in [Tabs -> Sheets]
  BY <1>2, <1>3 DEF JobFails, VaultTypeOK
<1> QED BY <1>4 DEF VaultTypeOK, JobFails

(* Submitting the form keeps the types. *)
LEMMA SubmitTyped ==
  ASSUME VaultTypeOK, NEW t \in Tabs, NEW does \in {"create", "import"},
         (\E p \in Passwords : SubmitPassword(t, does, p)) \/ SubmitPasskey(t, does)
  PROVE  VaultTypeOK'
<1>1. sheets[t].opens \in Nat /\ heard[t] \in Nat /\ born \in Nat
  BY DEF VaultTypeOK, Sheets
<1>2. ASSUME NEW p \in Passwords, SubmitPassword(t, does, p) PROVE VaultTypeOK'
  <2> DEFINE key == IF does = "import" THEN Brought ELSE KeyOf("random", born + 1, 0)
             j == Job(t, does, "save", PasswordRecord(key, p), 0)
  <2>1. p \in Nat /\ key \in Keys
    BY <1>1, VaultAssumption, KeysMade
  <2>2. PasswordRecord(key, p) \in Records
    BY <2>1, RecordsMade
  <2>3. j \in Jobs
    BY <1>1, <2>2 DEF Job, Jobs
  <2>4. Started(j) /\ born' \in Nat
    BY <1>1, <1>2 DEF SubmitPassword
  <2> HIDE DEF j
  <2> QED BY <2>3, <2>4, StartedTyped
<1>3. ASSUME SubmitPasskey(t, does) PROVE VaultTypeOK'
  <2> DEFINE rec == IF does = "import" THEN Wrapping(Brought) ELSE Deriving
             j == Job(t, does, "register", rec, 0)
  <2>1. rec \in Records
    BY KeysMade, RecordsMade
  <2>2. j \in Jobs
    BY <1>1, <2>1 DEF Job, Jobs
  <2>3. Started(j) /\ born' \in Nat
    BY <1>1, <1>3 DEF SubmitPasskey
  <2> HIDE DEF j
  <2> QED BY <2>2, <2>3, StartedTyped
<1> QED BY <1>2, <1>3

(* Every step of a job keeps the types. *)
LEMMA JobStepTyped ==
  ASSUME VaultTypeOK, NEW j \in jobs, JobStep(j)
  PROVE  VaultTypeOK'
<1>1. /\ j \in Jobs /\ j.tab \in Tabs /\ j.rec \in Records
      /\ j.rec.cred \in Nat /\ j.rec.salt \in Nat /\ born \in Nat
  BY DEF VaultTypeOK, Jobs, Records
<1>2. ASSUME NEW early \in BOOLEAN, Registered(j, early) PROVE VaultTypeOK'
  <2> DEFINE named == [j.rec EXCEPT !.cred = born + 1]
             next == [j EXCEPT !.step = IF early THEN "save" ELSE "assert",
                               !.rec = IF early THEN Filled(named, Prf(born + 1, named.salt)) ELSE named]
  <2>1. born + 1 \in Nat /\ named \in Records /\ named.salt \in Nat
    BY <1>1, RecordsFilled DEF Records
  <2> HIDE DEF named
  <2>2. Filled(named, Prf(born + 1, named.salt)) \in Records
    BY <1>1, <2>1, RecordsFilled
  <2>3. next \in Jobs
    BY <1>1, <2>1, <2>2 DEF Jobs
  <2>4. passkeys' \subseteq Passkeys /\ born' \in Nat
    <3>1. /\ passkeys' = passkeys \cup {[id |-> born + 1, tag |-> Tag(j.rec), prf |-> TRUE]}
          /\ born' = born + 1
      BY <1>2 DEF Registered
    <3>2. passkeys \cup {[id |-> born + 1, tag |-> Tag(j.rec), prf |-> TRUE]} \subseteq Passkeys
      BY PasskeysMade, Zenon
    <3> QED BY <1>1, <3>1, <3>2
  <2>5. Advances(j, next)
    BY <1>2 DEF Registered, named
  <2> HIDE DEF next
  <2> QED BY <2>3, <2>4, <2>5, AdvancesTyped
<1>3. ASSUME RegisteredWithoutPrf(j) PROVE VaultTypeOK'
  <2>1. passkeys' \subseteq Passkeys /\ born' \in Nat
    <3>1. /\ passkeys' = passkeys \cup {[id |-> born + 1, tag |-> Tag(j.rec), prf |-> FALSE]}
          /\ born' = born + 1
      BY <1>3 DEF RegisteredWithoutPrf
    <3>2. passkeys \cup {[id |-> born + 1, tag |-> Tag(j.rec), prf |-> FALSE]} \subseteq Passkeys
      BY PasskeysMade, Zenon
    <3> QED BY <1>1, <3>1, <3>2
  <2> QED BY <1>3, <2>1, FailsTyped DEF RegisteredWithoutPrf
<1>4. ASSUME Asserted(j) PROVE VaultTypeOK'
  <2> DEFINE next == [j EXCEPT !.step = "save", !.rec = Filled(@, Prf(j.rec.cred, j.rec.salt))]
  <2>1. next \in Jobs
    BY <1>1, RecordsFilled DEF Jobs
  <2>2. Advances(j, next) /\ passkeys' \subseteq Passkeys /\ born' \in Nat
    BY <1>4, <1>1 DEF Asserted, VaultTypeOK
  <2> HIDE DEF next
  <2> QED BY <2>1, <2>2, AdvancesTyped
<1>5. ASSUME NEW k \in passkeys, Chosen(j, k) PROVE VaultTypeOK'
  <2> DEFINE named == [j.rec EXCEPT !.cred = k.id]
             next == [j EXCEPT !.step = "save", !.rec = Filled(named, Prf(k.id, WALLET_SALT))]
  <2>1. k.id \in Nat /\ WALLET_SALT \in Nat
    BY DEF VaultTypeOK, Passkeys, WALLET_SALT
  <2>2. named \in Records
    BY <1>1, <2>1, RecordsFilled
  <2>3. Filled(named, Prf(k.id, WALLET_SALT)) \in Records
    BY <2>1, <2>2, RecordsFilled
  <2>4. next \in Jobs
    BY <1>1, <2>3 DEF Jobs
  <2>5. Advances(j, next) /\ passkeys' \subseteq Passkeys /\ born' \in Nat
    BY <1>1, <1>5 DEF Chosen, VaultTypeOK
  <2> HIDE DEF next
  <2> QED BY <2>4, <2>5, AdvancesTyped
<1>6. ASSUME PromptRefused(j) \/ RevealRefused(j) PROVE VaultTypeOK'
  <2>1. JobFails(j) /\ passkeys' \subseteq Passkeys /\ born' \in Nat
    BY <1>1, <1>6 DEF PromptRefused, RevealRefused, VaultTypeOK
  <2> QED BY <2>1, FailsTyped
<1>7. ASSUME Save(j) PROVE VaultTypeOK'
  <2> DEFINE done == IF Mounted(j) THEN [sheets[j.tab] EXCEPT !.busy = FALSE] ELSE sheets[j.tab]
  <2>1. done \in Sheets
    BY <1>1 DEF VaultTypeOK, Sheets
  <2>2. OnJoin(done) \in Sheets
    BY <2>1, SheetsMade
  <2>3. sheets' \in [Tabs -> Sheets]
    BY <1>7, <2>1, <2>2 DEF Save, VaultTypeOK
  <2>4. joined' \in [Tabs -> Keys]
    BY <1>1, <1>7 DEF Save, VaultTypeOK, Records
  <2> QED BY <1>1, <1>7, <2>3, <2>4 DEF Save, VaultTypeOK
<1>8. ASSUME Revealed(j) PROVE VaultTypeOK'
  <2>1. OpensTo(j.rec, j.typed) \in Keys
    BY <1>1, OpensToKey
  <2>2. sheets' \in [Tabs -> Sheets]
    BY <1>8, <2>1 DEF Revealed, VaultTypeOK, Sheets
  <2> QED BY <1>8, <2>2 DEF Revealed, VaultTypeOK
<1> QED BY <1>2, <1>3, <1>4, <1>5, <1>6, <1>7, <1>8 DEF JobStep

(* So does what a tab does without a job. *)
LEMMA TabStepTyped ==
  ASSUME VaultTypeOK, NEW t \in Tabs,
         \/ OpenSheet(t) \/ CloseSheet(t) \/ AskForget(t) \/ KeepIt(t) \/ Forget(t)
         \/ Disconnect(t) \/ PickLocal(t) \/ PickExtension(t) \/ StorageEvent(t) \/ Reload(t)
  PROVE  VaultTypeOK'
<1>1. sheets[t] \in Sheets /\ sheets[t].opens \in Nat /\ record.address \in Keys
  BY DEF VaultTypeOK, Sheets, Records
<1>2. /\ Closed(sheets[t]) \in Sheets /\ OnJoin(sheets[t]) \in Sheets
      /\ Body(sheets[t].opens + 1) \in Sheets
  BY <1>1, SheetsMade
<1>3. NoRecord \in Records /\ NoKey \in Keys /\ Outside \in Keys
  BY KeysMade, RecordsMade
<1>4. CASE OpenSheet(t) \/ CloseSheet(t)
  BY <1>2, <1>4 DEF OpenSheet, CloseSheet, VaultTypeOK
<1>5. CASE AskForget(t) \/ KeepIt(t)
  <2>0. \A b \in BOOLEAN : [sheets[t] EXCEPT !.confirmForget = b] \in Sheets
    BY <1>1 DEF Sheets
  <2>1. sheets' \in [Tabs -> Sheets]
    BY <1>5, <2>0 DEF AskForget, KeepIt, VaultTypeOK
  <2> QED BY <1>5, <2>1 DEF AskForget, KeepIt, VaultTypeOK
<1>6. CASE Forget(t)
  BY <1>2, <1>3, <1>6 DEF Forget, VaultTypeOK
<1>7. CASE Disconnect(t)
  BY <1>3, <1>7 DEF Disconnect, VaultTypeOK
<1>8. CASE PickLocal(t) \/ PickExtension(t)
  BY <1>1, <1>2, <1>3, <1>8 DEF PickLocal, PickExtension, VaultTypeOK
<1>9. CASE StorageEvent(t) \/ Reload(t)
  BY <1>1, <1>2, <1>9 DEF StorageEvent, Reload, VaultTypeOK
<1> QED BY <1>4, <1>5, <1>6, <1>7, <1>8, <1>9

(* Signing in keeps the types. *)
LEMMA SignInTyped ==
  ASSUME VaultTypeOK, NEW t \in Tabs, SignIn(t)
  PROVE  VaultTypeOK'
<1> DEFINE j == Job(t, "signin", "choose", Deriving, 0)
<1>1. j \in Jobs
  BY RecordsMade DEF Job, Jobs, VaultTypeOK, Sheets
<1>2. Started(j) /\ born' \in Nat
  BY DEF SignIn, VaultTypeOK
<1> HIDE DEF j
<1> QED BY <1>1, <1>2, StartedTyped

(* So does asking to see the key. *)
LEMMA RevealTyped ==
  ASSUME VaultTypeOK, NEW t \in Tabs, NEW p \in Passwords \cup {0}, PressReveal(t, p)
  PROVE  VaultTypeOK'
<1> DEFINE j == Job(t, "reveal", "open", record, p)
<1>1. p \in Nat
  BY VaultAssumption
<1>2. j \in Jobs
  BY <1>1 DEF Job, Jobs, VaultTypeOK, Sheets
<1>3. Started(j) /\ born' \in Nat
  BY DEF PressReveal, VaultTypeOK
<1> HIDE DEF j
<1> QED BY <1>2, <1>3, StartedTyped

(* Every step keeps the types. *)
LEMMA VaultTyped == VaultTypeOK /\ [WVNext]_wvVars => VaultTypeOK'
<1> SUFFICES ASSUME VaultTypeOK, [WVNext]_wvVars PROVE VaultTypeOK'
  OBVIOUS
<1>1. CASE UNCHANGED wvVars
  BY <1>1 DEF wvVars, VaultTypeOK
<1>2. ASSUME NEW j \in jobs, JobStep(j) PROVE VaultTypeOK'
  BY <1>2, JobStepTyped
<1>3. ASSUME NEW t \in Tabs, NEW does \in {"create", "import"},
             (\E p \in Passwords : SubmitPassword(t, does, p)) \/ SubmitPasskey(t, does)
      PROVE  VaultTypeOK'
  BY <1>3, SubmitTyped
<1>4. ASSUME NEW t \in Tabs, SignIn(t) PROVE VaultTypeOK'
  BY <1>4, SignInTyped
<1>5. ASSUME NEW t \in Tabs, NEW p \in Passwords \cup {0}, PressReveal(t, p) PROVE VaultTypeOK'
  BY <1>5, RevealTyped
<1>6. ASSUME NEW t \in Tabs,
         \/ OpenSheet(t) \/ CloseSheet(t) \/ AskForget(t) \/ KeepIt(t) \/ Forget(t)
         \/ Disconnect(t) \/ PickLocal(t) \/ PickExtension(t) \/ StorageEvent(t) \/ Reload(t)
      PROVE  VaultTypeOK'
  BY <1>6, TabStepTyped
<1> QED BY <1>1, <1>2, <1>3, <1>4, <1>5, <1>6 DEF WVNext
-----------------------------------------------------------------------------
(* What opens still opens when there are more passkeys. *)
LEMMA OpensStill ==
  ASSUME NEW rec, NEW keys, NEW more, keys \subseteq more
  PROVE  /\ PasskeyMade(rec, keys) => PasskeyMade(rec, more)
         /\ Opens(rec, keys) => Opens(rec, more)
BY DEF PasskeyMade, Opens

(* What a step has to show for OpensInv. *)
LEMMA StepOpens ==
  ASSUME OpensInv, passkeys \subseteq passkeys',
         record' \in {record, NoRecord} \/ Opens(record', passkeys'),
         \A j \in jobs' : j \in jobs \/ JobReady(j, passkeys')
  PROVE  OpensInv'
<1>1. ASSUME NEW j \in jobs PROVE JobReady(j, passkeys')
  <2>1. JobReady(j, passkeys)
    BY DEF OpensInv
  <2> QED BY <2>1, OpensStill DEF JobReady
<1>2. ASSUME record' = record PROVE record' = NoRecord \/ Opens(record', passkeys')
  BY <1>2, OpensStill DEF OpensInv
<1> QED BY <1>1, <1>2 DEF OpensInv

(* What fills a record whose passkey is there makes it open. *)
LEMMA FilledOpens ==
  ASSUME NEW rec \in Records, NEW keys, PasskeyMade(rec, keys),
         rec.kind = "passkey" \/ (rec.kind = "passkey-derived" /\ rec.salt = WALLET_SALT)
  PROVE  Opens(Filled(rec, Prf(rec.cred, rec.salt)), keys)
<1> DEFINE filled == Filled(rec, Prf(rec.cred, rec.salt))
<1>1. CASE rec.kind = "passkey"
  <2>1. /\ filled.kind = "passkey" /\ filled.cred = rec.cred /\ filled.salt = rec.salt
        /\ filled.seal = Prf(rec.cred, rec.salt)
    BY <1>1 DEF Filled, Records
  <2>2. PasskeyMade(filled, keys)
    BY <1>1, <2>1 DEF PasskeyMade, Tag
  <2> QED BY <2>1, <2>2 DEF Opens
<1>2. CASE rec.kind = "passkey-derived" /\ rec.salt = WALLET_SALT
  <2>1. /\ filled.kind = "passkey-derived" /\ filled.cred = rec.cred /\ filled.salt = WALLET_SALT
        /\ filled.address = DeriveWalletKey(Prf(rec.cred, WALLET_SALT))
    BY <1>2 DEF Filled, Records
  <2>2. PasskeyMade(filled, keys)
    BY <1>2, <2>1 DEF PasskeyMade, Tag
  <2> QED BY <2>1, <2>2 DEF Opens
<1> QED BY <1>1, <1>2

(* Every step of a job keeps what will open. *)
LEMMA JobStepOpens ==
  ASSUME VaultTypeOK, OpensInv, NEW j \in jobs, JobStep(j)
  PROVE  OpensInv'
<1>1. j \in Jobs /\ j.rec \in Records /\ born \in Nat /\ JobReady(j, passkeys)
  BY DEF VaultTypeOK, Jobs, OpensInv
<1>2. ASSUME NEW early \in BOOLEAN, Registered(j, early) PROVE OpensInv'
  <2> DEFINE named == [j.rec EXCEPT !.cred = born + 1]
             next == [j EXCEPT !.step = IF early THEN "save" ELSE "assert",
                               !.rec = IF early THEN Filled(named, Prf(born + 1, named.salt)) ELSE named]
  <2>1. /\ j.step = "register" /\ Advances(j, next)
        /\ passkeys' = passkeys \cup {[id |-> born + 1, tag |-> Tag(j.rec), prf |-> TRUE]}
    BY <1>2 DEF Registered
  <2>2. /\ named \in Records /\ named.cred = born + 1 /\ named.kind = j.rec.kind
        /\ named.salt = j.rec.salt
    BY <1>1, RecordsFilled DEF Records
  <2>3. named.kind = "passkey" \/ (named.kind = "passkey-derived" /\ named.salt = WALLET_SALT)
    BY <1>1, <2>1, <2>2 DEF JobReady
  <2>4. /\ next.step = IF early THEN "save" ELSE "assert"
        /\ next.rec = IF early THEN Filled(named, Prf(born + 1, named.salt)) ELSE named
    BY <1>1 DEF Jobs
  <2> HIDE DEF named, next
  <2>5. PasskeyMade(named, passkeys')
    <3>1. [id |-> born + 1, tag |-> Tag(j.rec), prf |-> TRUE] \in passkeys'
      BY <2>1
    <3> QED BY <2>2, <3>1 DEF PasskeyMade, Tag
  <2>6. Opens(Filled(named, Prf(born + 1, named.salt)), passkeys')
    BY <2>2, <2>3, <2>5, FilledOpens
  <2>7. JobReady(next, passkeys')
    BY <2>3, <2>4, <2>5, <2>6 DEF JobReady
  <2>8. jobs' = (jobs \ {j}) \cup {next} /\ record' = record
    BY <2>1 DEF Advances
  <2> QED BY <2>1, <2>7, <2>8, StepOpens
<1>3. ASSUME RegisteredWithoutPrf(j) \/ PromptRefused(j) \/ RevealRefused(j) PROVE OpensInv'
  <2>1. passkeys \subseteq passkeys' /\ record' = record /\ jobs' \subseteq jobs
    BY <1>3 DEF RegisteredWithoutPrf, PromptRefused, RevealRefused, JobFails
  <2> QED BY <2>1, StepOpens
<1>4. ASSUME Asserted(j) PROVE OpensInv'
  <2> DEFINE next == [j EXCEPT !.step = "save", !.rec = Filled(@, Prf(j.rec.cred, j.rec.salt))]
  <2>1. j.step = "assert" /\ Advances(j, next) /\ passkeys' = passkeys
    BY <1>4 DEF Asserted
  <2>2. next.step = "save" /\ next.rec = Filled(j.rec, Prf(j.rec.cred, j.rec.salt))
    BY <1>1 DEF Jobs
  <2> HIDE DEF next
  <2>3. Opens(next.rec, passkeys)
    BY <1>1, <2>1, <2>2, FilledOpens DEF JobReady
  <2>4. JobReady(next, passkeys')
    BY <2>1, <2>2, <2>3 DEF JobReady
  <2>5. jobs' = (jobs \ {j}) \cup {next} /\ record' = record
    BY <2>1 DEF Advances
  <2> QED BY <2>1, <2>4, <2>5, StepOpens
<1>5. ASSUME NEW k \in passkeys, Chosen(j, k) PROVE OpensInv'
  <2> DEFINE named == [j.rec EXCEPT !.cred = k.id]
             next == [j EXCEPT !.step = "save", !.rec = Filled(named, Prf(k.id, WALLET_SALT))]
  <2>1. /\ j.step = "choose" /\ Advances(j, next) /\ passkeys' = passkeys
        /\ k.prf /\ k.tag # HANDLE_WRAP
    BY <1>5 DEF Chosen
  <2>2. k.id \in Nat /\ k.tag = HANDLE_WALLET
    BY <2>1 DEF VaultTypeOK, Passkeys
  <2>3. /\ named \in Records /\ named.cred = k.id /\ named.kind = "passkey-derived"
        /\ named.salt = WALLET_SALT
    BY <1>1, <2>1, <2>2, RecordsFilled DEF JobReady, Deriving, Record
  <2>4. next.step = "save" /\ next.rec = Filled(named, Prf(k.id, WALLET_SALT))
    BY <1>1 DEF Jobs
  <2> HIDE DEF named, next
  <2>5. PasskeyMade(named, passkeys)
    BY <2>1, <2>2, <2>3 DEF PasskeyMade, Tag
  <2>6. Opens(next.rec, passkeys)
    BY <2>3, <2>4, <2>5, FilledOpens
  <2>7. JobReady(next, passkeys')
    BY <2>1, <2>4, <2>6 DEF JobReady
  <2>8. jobs' = (jobs \ {j}) \cup {next} /\ record' = record
    BY <2>1 DEF Advances
  <2> QED BY <2>1, <2>7, <2>8, StepOpens
<1>6. ASSUME Save(j) PROVE OpensInv'
  <2>1. passkeys' = passkeys /\ record' = j.rec /\ jobs' \subseteq jobs /\ Opens(j.rec, passkeys)
    BY <1>1, <1>6 DEF Save, JobReady
  <2> QED BY <2>1, StepOpens
<1>7. ASSUME Revealed(j) PROVE OpensInv'
  <2>1. passkeys' = passkeys /\ record' = record /\ jobs' \subseteq jobs
    BY <1>7 DEF Revealed
  <2> QED BY <2>1, StepOpens
<1> QED BY <1>2, <1>3, <1>4, <1>5, <1>6, <1>7 DEF JobStep

(* Every step keeps OpensInv. *)
LEMMA VaultOpens == VaultTypeOK /\ OpensInv /\ [WVNext]_wvVars => OpensInv'
<1> SUFFICES ASSUME VaultTypeOK, OpensInv, [WVNext]_wvVars PROVE OpensInv'
  OBVIOUS
<1>1. CASE UNCHANGED wvVars
  BY <1>1, StepOpens DEF wvVars
<1>2. ASSUME NEW j \in jobs, JobStep(j) PROVE OpensInv'
  BY <1>2, JobStepOpens
<1>3. ASSUME NEW j, Started(j), passkeys' = passkeys, JobReady(j, passkeys') PROVE OpensInv'
  <2>1. jobs' = jobs \cup {j} /\ record' = record
    BY <1>3 DEF Started
  <2> QED BY <1>3, <2>1, StepOpens
<1>4. ASSUME NEW t \in Tabs, NEW does \in {"create", "import"}, NEW p \in Passwords,
             SubmitPassword(t, does, p)
      PROVE  OpensInv'
  <2> DEFINE key == IF does = "import" THEN Brought ELSE KeyOf("random", born + 1, 0)
             j == Job(t, does, "save", PasswordRecord(key, p), 0)
  <2>1. Started(j) /\ passkeys' = passkeys
    BY <1>4 DEF SubmitPassword, Started
  <2>2. JobReady(j, passkeys')
    BY DEF JobReady, Job, Opens, PasswordRecord, Record
  <2> HIDE DEF j
  <2> QED BY <1>3, <2>1, <2>2
<1>5. ASSUME NEW t \in Tabs, NEW does \in {"create", "import"}, SubmitPasskey(t, does)
      PROVE  OpensInv'
  <2> DEFINE j == Job(t, does, "register", IF does = "import" THEN Wrapping(Brought) ELSE Deriving, 0)
  <2>1. Started(j) /\ passkeys' = passkeys
    BY <1>5 DEF SubmitPasskey, Started
  <2>2. JobReady(j, passkeys')
    BY DEF JobReady, Job, Wrapping, Deriving, Record
  <2> HIDE DEF j
  <2> QED BY <1>3, <2>1, <2>2
<1>6. ASSUME NEW t \in Tabs, SignIn(t) PROVE OpensInv'
  <2> DEFINE j == Job(t, "signin", "choose", Deriving, 0)
  <2>1. Started(j) /\ passkeys' = passkeys
    BY <1>6 DEF SignIn, Started
  <2>2. JobReady(j, passkeys')
    BY DEF JobReady, Job
  <2> HIDE DEF j
  <2> QED BY <1>3, <2>1, <2>2
<1>7. ASSUME NEW t \in Tabs, NEW p \in Passwords \cup {0}, PressReveal(t, p) PROVE OpensInv'
  <2> DEFINE j == Job(t, "reveal", "open", record, p)
  <2>1. Started(j) /\ passkeys' = passkeys
    BY <1>7 DEF PressReveal, Started
  <2>2. jobs' = jobs \cup {j} /\ record' = record
    BY <2>1 DEF Started
  <2>3. j.step = "open"
    BY DEF Job
  <2> HIDE DEF j
  <2>4. \A i \in jobs' : i \in jobs \/ JobReady(i, passkeys')
    BY <2>2, <2>3 DEF JobReady
  <2> QED BY <2>1, <2>2, <2>4, StepOpens
<1>8. ASSUME NEW t \in Tabs,
         \/ OpenSheet(t) \/ CloseSheet(t) \/ AskForget(t) \/ KeepIt(t) \/ Forget(t)
         \/ Disconnect(t) \/ PickLocal(t) \/ PickExtension(t) \/ StorageEvent(t) \/ Reload(t)
      PROVE  OpensInv'
  <2>1. passkeys' = passkeys /\ record' \in {record, NoRecord} /\ jobs' \subseteq jobs
    BY <1>8 DEF OpenSheet, CloseSheet, AskForget, KeepIt, Forget, Disconnect, PickLocal,
                PickExtension, StorageEvent, Reload
  <2> QED BY <2>1, StepOpens
<1> QED BY <1>1, <1>2, <1>4, <1>5, <1>6, <1>7, <1>8 DEF WVNext

-----------------------------------------------------------------------------
(* What a step has to show for HeardInv, when it saves nothing. *)
LEMMA StepHeard ==
  ASSUME VaultTypeOK, HeardInv, stores' = stores, record' \in {record, NoRecord},
         \A t \in Tabs : \/ heard'[t] = heard[t] /\ views'[t] = views[t]
                         \/ heard'[t] = stores /\ views'[t] = record',
         \A j \in jobs' :
            \/ \E i \in jobs : j.began = i.began /\ (j.step # "open" => i.step # "open")
            \/ j.began <= stores /\ (j.step # "open" /\ j.began = stores => record' = NoRecord),
         "unasked" \notin lost'
  PROVE  HeardInv'
<1>1. stores \in Nat /\ \A t \in Tabs : heard[t] <= stores
  BY DEF HeardInv, VaultTypeOK
<1>2. ASSUME NEW t \in Tabs
      PROVE  heard'[t] <= stores /\ (heard'[t] = stores => views'[t] = record' \/ record' = NoRecord)
  BY <1>1 DEF HeardInv
<1>3. ASSUME NEW j \in jobs'
      PROVE  j.began <= stores /\ (j.step # "open" /\ j.began = stores => record' = NoRecord)
  BY DEF HeardInv
<1> QED BY <1>2, <1>3 DEF HeardInv

(* A job begun in a tab that knows the record keeps HeardInv. *)
LEMMA StartedHeard ==
  ASSUME VaultTypeOK, HeardInv, NEW j, Started(j), j.began <= stores,
         j.step # "open" /\ j.began = stores => record = NoRecord
  PROVE  HeardInv'
<1>1. /\ stores' = stores /\ record' = record /\ heard' = heard /\ views' = views
      /\ jobs' = jobs \cup {j} /\ lost' = lost
  BY DEF Started
<1> QED BY ONLY VaultTypeOK, HeardInv, <1>1, j.began <= stores,
         j.step # "open" /\ j.began = stores => record = NoRecord, StepHeard DEF HeardInv

(* A save keeps HeardInv: it writes over what its tab never heard of, at most. *)
LEMMA SaveHeard ==
  ASSUME VaultTypeOK, HeardInv, NEW j \in jobs, Save(j)
  PROVE  HeardInv'
<1>1. /\ j.step = "save" /\ record' = j.rec /\ stores' = stores + 1 /\ lost' = Replaces(j)
      /\ jobs' = jobs \ {j} /\ views' = [views EXCEPT ![j.tab] = j.rec]
      /\ heard' = [heard EXCEPT ![j.tab] = stores + 1]
  BY DEF Save
<1>2. j \in Jobs /\ j.tab \in Tabs /\ j.began \in Nat /\ stores \in Nat
  BY DEF VaultTypeOK, Jobs
<1>3. ASSUME NEW t \in Tabs
      PROVE  heard'[t] <= stores' /\ (heard'[t] = stores' => views'[t] = record')
  <2>1. CASE t = j.tab
    BY <1>1, <1>2, <2>1 DEF VaultTypeOK
  <2>2. CASE t # j.tab
    <3>1. heard'[t] = heard[t] /\ heard[t] <= stores /\ heard[t] \in Nat
      BY <1>1, <2>2 DEF VaultTypeOK, HeardInv
    <3> QED BY <1>1, <1>2, <3>1
  <2> QED BY <2>1, <2>2
<1>4. ASSUME NEW i \in jobs' PROVE i.began <= stores /\ i.began \in Nat
  BY <1>1 DEF HeardInv, VaultTypeOK, Jobs
<1>5. SoleCopy(record) => j.began < stores
  <2>1. j.began <= stores /\ (j.began = stores => record = NoRecord)
    BY <1>1 DEF HeardInv
  <2>2. ~SoleCopy(NoRecord)
    BY DEF SoleCopy, NoRecord, NoKey, Record, KeyOf
  <2> QED BY <1>2, <2>1, <2>2
<1>6. "unasked" \notin lost'
  BY <1>1, <1>5 DEF Replaces, HeardInv
<1>7. ASSUME NEW i \in jobs' PROVE i.began <= stores' /\ i.began # stores'
  BY <1>1, <1>2, <1>4
<1> QED BY <1>3, <1>6, <1>7 DEF HeardInv

(* Every step keeps HeardInv. *)
LEMMA VaultHeard == VaultTypeOK /\ HeardInv /\ [WVNext]_wvVars => HeardInv'
<1> SUFFICES ASSUME VaultTypeOK, HeardInv, [WVNext]_wvVars PROVE HeardInv'
  OBVIOUS
<1>1. CASE UNCHANGED wvVars
  BY <1>1 DEF wvVars, HeardInv
<1>2. ASSUME NEW j \in jobs, JobStep(j) PROVE HeardInv'
  <2>1. CASE Save(j)
    BY <2>1, SaveHeard
  <2>2. ASSUME /\ stores' = stores /\ record' = record /\ heard' = heard /\ views' = views /\ lost' = lost
               /\ \A n \in jobs' : \E i \in jobs : n.began = i.began /\ (n.step # "open" => i.step # "open")
        PROVE  HeardInv'
    BY <2>2, StepHeard DEF HeardInv
  <2>3. ASSUME NEW next, Advances(j, next), next.began = j.began, j.step # "open" PROVE HeardInv'
    BY <2>2, <2>3 DEF Advances
  <2>4. j \in Jobs
    BY DEF VaultTypeOK
  <2>5. ASSUME NEW early \in BOOLEAN, Registered(j, early) PROVE HeardInv'
    <3> DEFINE named == [j.rec EXCEPT !.cred = born + 1]
               next == [j EXCEPT !.step = IF early THEN "save" ELSE "assert",
                                 !.rec = IF early THEN Filled(named, Prf(born + 1, named.salt)) ELSE named]
    <3>1. Advances(j, next) /\ j.step = "register" /\ next.began = j.began
      BY <2>4, <2>5 DEF Registered, Jobs
    <3> HIDE DEF next
    <3> QED BY <2>3, <3>1
  <2>6. ASSUME Asserted(j) PROVE HeardInv'
    <3> DEFINE next == [j EXCEPT !.step = "save", !.rec = Filled(@, Prf(j.rec.cred, j.rec.salt))]
    <3>1. Advances(j, next) /\ j.step = "assert" /\ next.began = j.began
      BY <2>4, <2>6 DEF Asserted, Jobs
    <3> HIDE DEF next
    <3> QED BY <2>3, <3>1
  <2>7. ASSUME NEW k \in passkeys, Chosen(j, k) PROVE HeardInv'
    <3> DEFINE named == [j.rec EXCEPT !.cred = k.id]
               next == [j EXCEPT !.step = "save", !.rec = Filled(named, Prf(k.id, WALLET_SALT))]
    <3>1. Advances(j, next) /\ j.step = "choose" /\ next.began = j.began
      BY <2>4, <2>7 DEF Chosen, Jobs
    <3> HIDE DEF next
    <3> QED BY <2>3, <3>1
  <2>8. CASE RegisteredWithoutPrf(j) \/ PromptRefused(j) \/ RevealRefused(j) \/ Revealed(j)
    BY <2>2, <2>8 DEF RegisteredWithoutPrf, PromptRefused, RevealRefused, Revealed, JobFails
  <2> QED BY <1>2, <2>1, <2>5, <2>6, <2>7, <2>8 DEF JobStep
<1>3. ASSUME NEW t \in Tabs PROVE heard[t] <= stores /\ (heard[t] = stores /\ views[t] = NoRecord => record = NoRecord)
  BY DEF HeardInv
<1>4. ASSUME NEW t \in Tabs, NEW does, NEW step, NEW rec, NEW typed,
             Started(Job(t, does, step, rec, typed)), step = "open" \/ WalletForm(t)
      PROVE  HeardInv'
  <2> DEFINE j == Job(t, does, step, rec, typed)
  <2>1. j.began = heard[t] /\ j.step = step
    BY DEF Job
  <2>2. j.began <= stores /\ (j.step # "open" /\ j.began = stores => record = NoRecord)
    BY <1>3, <1>4, <2>1 DEF WalletForm
  <2>3. Started(j)
    BY <1>4
  <2> HIDE DEF j
  <2> QED BY <2>2, <2>3, StartedHeard
<1>5. ASSUME NEW t \in Tabs, NEW does \in {"create", "import"},
             (\E p \in Passwords : SubmitPassword(t, does, p)) \/ SubmitPasskey(t, does)
      PROVE  HeardInv'
  BY <1>4, <1>5 DEF SubmitPassword, SubmitPasskey
<1>6. ASSUME NEW t \in Tabs, SignIn(t) PROVE HeardInv'
  BY <1>4, <1>6 DEF SignIn
<1>7. ASSUME NEW t \in Tabs, NEW p \in Passwords \cup {0}, PressReveal(t, p) PROVE HeardInv'
  BY <1>4, <1>7 DEF PressReveal
<1>8. ASSUME NEW t \in Tabs,
         \/ OpenSheet(t) \/ CloseSheet(t) \/ AskForget(t) \/ KeepIt(t) \/ Forget(t)
         \/ Disconnect(t) \/ PickLocal(t) \/ PickExtension(t) \/ StorageEvent(t) \/ Reload(t)
      PROVE  HeardInv'
  <2>1. stores' = stores /\ record' \in {record, NoRecord} /\ jobs' \subseteq jobs
    BY <1>8 DEF OpenSheet, CloseSheet, AskForget, KeepIt, Forget, Disconnect, PickLocal,
                PickExtension, StorageEvent, Reload
  <2>2. "unasked" \notin lost'
    BY <1>8 DEF OpenSheet, CloseSheet, AskForget, KeepIt, Forget, Disconnect, PickLocal,
                PickExtension, StorageEvent, Reload, HeardInv
  <2>3. ASSUME NEW u \in Tabs
        PROVE  \/ heard'[u] = heard[u] /\ views'[u] = views[u]
               \/ heard'[u] = stores /\ views'[u] = record'
    BY <1>8 DEF OpenSheet, CloseSheet, AskForget, KeepIt, Forget, Disconnect, PickLocal,
                PickExtension, StorageEvent, Reload, VaultTypeOK
  <2> QED BY <2>1, <2>2, <2>3, StepHeard
<1> QED BY <1>1, <1>2, <1>5, <1>6, <1>7, <1>8 DEF WVNext

(* The inductive invariant of the browser wallet, for any number of tabs,   *)
(* passwords, passkeys and records saved.                                   *)
THEOREM VaultInvariance == WVSpec => []VaultInv
<1>1. WVInit => VaultInv
  <2> SUFFICES ASSUME WVInit PROVE VaultInv
    OBVIOUS
  <2>1. /\ NoRecord \in Records /\ NoKey \in Keys
        /\ Closed(Body(0)) \in Sheets
    BY KeysMade, RecordsMade, SheetsMade
  <2>2. passkeys \subseteq Passkeys
    BY DEF WVInit, Passkeys
  <2>3. VaultTypeOK
    BY <2>1, <2>2 DEF WVInit, VaultTypeOK
  <2>4. OpensInv /\ HeardInv
    BY <2>1 DEF WVInit, OpensInv, HeardInv
  <2> QED BY <2>3, <2>4 DEF VaultInv
<1>2. VaultInv /\ [WVNext]_wvVars => VaultInv'
  BY VaultTyped, VaultOpens, VaultHeard DEF VaultInv
<1> QED BY <1>1, <1>2, PTL DEF WVSpec

(* The wallet of this browser is there and opens until its owner forgets    *)
(* it: save, unlockLocalWallet and signInWalletPasskey, through every       *)
(* interleaving of tabs, prompts, reloads and jobs left behind.             *)
THEOREM WalletStays == WVSpec => []WalletKept
<1>1. ASSUME VaultInv, record # NoRecord PROVE RecordOpens
  <2>1. Opens(record, passkeys) /\ record \in Records
    BY <1>1 DEF VaultInv, OpensInv, VaultTypeOK
  <2>2. CASE record.kind = "password"
    <3>1. PICK p \in Passwords : record.seal = KeyOf("password", p, 0)
      BY <2>1, <2>2 DEF Opens
    <3>2. OpensTo(record, p) = record.address
      BY <2>2, <3>1 DEF OpensTo
    <3> QED BY <2>2, <3>2 DEF RecordOpens
  <2>3. ASSUME IsPasskeyKind(record)
        PROVE  Prompted(record) = Prf(record.cred, record.salt) /\ Prompted(record) # NoKey
    BY <2>1, <2>3 DEF Opens, PasskeyMade, Prompted, IsPasskeyKind, Prf, NoKey, KeyOf
  <2>4. CASE record.kind = "passkey"
    <3>1. OpensTo(record, 0) = record.address
      BY <2>1, <2>3, <2>4 DEF OpensTo, Opens, IsPasskeyKind
    <3> QED BY <2>4, <3>1 DEF RecordOpens
  <2>5. CASE record.kind = "passkey-derived"
    <3>1. OpensTo(record, 0) = record.address
      BY <2>1, <2>3, <2>5 DEF OpensTo, Opens, IsPasskeyKind
    <3>2. PICK k \in passkeys : k.id = record.cred /\ k.tag = HANDLE_WALLET
      BY <2>1, <2>5 DEF Opens, PasskeyMade, Tag
    <3>3. DeriveWalletKey(Prf(k.id, WALLET_SALT)) = record.address
      BY <2>1, <2>5, <3>2 DEF Opens
    <3> QED BY <2>5, <3>1, <3>2, <3>3 DEF RecordOpens
  <2> QED BY <2>1, <2>2, <2>4, <2>5 DEF Opens
<1>2. VaultInv => WalletKept
  BY <1>1 DEF WalletKept, RecordOpens, SoleCopyKept, VaultInv, HeardInv
<1> QED BY <1>2, VaultInvariance, PTL

-----------------------------------------------------------------------------
(***************************************************************************)
(* Files a token names (VerifiedFiles).  FilesInv says what a visit that   *)
(* reads waits for: its own attempt, or, before it has tried again,        *)
(* another visit's; and, as long as nothing was lost, that no gateway the  *)
(* attempt has gone past has the file.                                     *)
(***************************************************************************)
Visits == [n : Nat, at : {Away, "reads", "again", "shows", "failed"}, tries : Nat, bytes : Serves]
Attempts == [by : Nat, source : Nat]

FilesTypeOK ==
  /\ hosts \in [DOMAIN Gateways -> Serves]
  /\ cdn \in {"named", "nothing"} /\ verified \in {"none", "pending", "named"}
  /\ visit \in Visits /\ attempt \in Attempts /\ troubles \in Nat

AttemptInv ==
  /\ verified = "pending" <=> attempt.by # 0
  /\ attempt.by # 0 => attempt.source \in 1..(Len(Gateways) + 1)
  /\ visit.at # Away => visit.n # 0
  /\ visit.at = "reads" => attempt.by # 0 /\ (visit.tries > 0 => attempt.by = visit.n)
  /\ visit.at = "again" => attempt.by = 0
  /\ visit.at = "shows" => visit.bytes = "named"

PassedInv ==
  troubles = 0 /\ attempt.by # 0 =>
    \A g \in DOMAIN hosts : g + 1 < attempt.source => hosts[g] # "named"

FilesInv == FilesTypeOK /\ AttemptInv /\ PassedInv /\ LeavingHarmsNoOther

(* A visit that asks keeps the invariant, if it is a new one, or has an     *)
(* attempt of its own by now.                                               *)
LEMMA ReadsKeep ==
  ASSUME FilesInv, NEW n \in Nat \ {0}, NEW tries \in Nat, Reads(n, tries),
         tries = 0 \/ attempt.by = 0, UNCHANGED <<hosts, ours, cdn, troubles>>
  PROVE  FilesInv'
<1>0. DOMAIN Gateways = 1..Len(Gateways) /\ Len(Gateways) \in Nat
  BY FilesAssumption
<1>1. CASE verified \notin {"none", "pending"}
  <2>1. /\ visit' = [n |-> n, at |-> "shows", tries |-> tries, bytes |-> verified]
        /\ verified' = verified /\ attempt' = attempt /\ verified = "named"
    BY <1>1 DEF Reads, FilesInv, FilesTypeOK
  <2>2. visit' \in Visits /\ visit'.at = "shows" /\ visit'.bytes = "named" /\ visit'.n = n
    BY <2>1 DEF Visits, Serves
  <2> QED BY <2>1, <2>2 DEF FilesInv, FilesTypeOK, AttemptInv, PassedInv, LeavingHarmsNoOther, ToSeeHosts, Away
<1>2. CASE verified \in {"none", "pending"}
  <2>1. visit' = [n |-> n, at |-> "reads", tries |-> tries, bytes |-> "nothing"]
    BY <1>2 DEF Reads
  <2>2. visit' \in Visits /\ visit'.at = "reads" /\ visit'.n = n /\ visit'.tries = tries
    BY <2>1 DEF Visits, Serves
  <2>3. CASE verified = "pending"
    <3>1. verified' = verified /\ attempt' = attempt
      BY <2>3 DEF Reads
    <3> QED BY <2>2, <2>3, <3>1 DEF FilesInv, FilesTypeOK, AttemptInv, PassedInv, LeavingHarmsNoOther, ToSeeHosts, Away
  <2>4. CASE verified = "none"
    <3>1. verified' = "pending" /\ attempt' = [by |-> n, source |-> 1]
      BY <2>4 DEF Reads
    <3>2. attempt' \in Attempts /\ attempt'.by = n /\ attempt'.source = 1
      BY <3>1 DEF Attempts
    <3>3. PassedInv'
      BY <1>0, <3>2 DEF PassedInv, FilesInv, FilesTypeOK
    <3>4. FilesTypeOK'
      BY <2>2, <3>1, <3>2 DEF FilesInv, FilesTypeOK
    <3>5. AttemptInv'
      BY <1>0, <2>2, <3>1, <3>2 DEF AttemptInv, Away
    <3>6. LeavingHarmsNoOther'
      BY <2>2 DEF LeavingHarmsNoOther
    <3> QED BY <3>3, <3>4, <3>5, <3>6 DEF FilesInv
  <2> QED BY <1>2, <2>3, <2>4
<1> QED BY <1>1, <1>2

(* A failed attempt keeps it, if it was another visit's, or the chain of    *)
(* gateways has come to its end.                                            *)
LEMMA FailureKeeps ==
  ASSUME FilesInv, attempt.by # 0, AttemptFails, troubles' \in Nat, hosts' = hosts,
         cdn' \in {"named", "nothing"},
         \/ visit.at = "reads" => visit.tries < Retries
         \/ troubles' = 0 => "named" \notin ToSeeHosts,
         troubles' = 0 => troubles = 0
  PROVE  FilesInv'
<1>1. visit \in Visits /\ visit.tries \in Nat
  BY DEF FilesInv, FilesTypeOK, Visits
<1>2. verified' = "none" /\ attempt' = NoAttempt /\ attempt' \in Attempts /\ attempt'.by = 0
  BY DEF AttemptFails, NoAttempt, Attempts
<1>3. /\ visit' \in Visits /\ visit'.n = visit.n
      /\ visit.at = "reads" => /\ visit'.at \in {"again", "failed"}
                               /\ visit.tries < Retries => visit'.at = "again"
      /\ visit.at # "reads" => visit' = visit
  BY <1>1 DEF AttemptFails, AfterFailure, Visits
<1>4. FilesTypeOK'
  BY <1>2, <1>3 DEF FilesInv, FilesTypeOK
<1>5. AttemptInv'
  BY <1>2, <1>3 DEF FilesInv, AttemptInv, Away
<1>6. PassedInv'
  BY <1>2 DEF PassedInv
<1>7. LeavingHarmsNoOther'
  BY <1>3 DEF FilesInv, FilesTypeOK, LeavingHarmsNoOther, ToSeeHosts
<1> QED BY <1>4, <1>5, <1>6, <1>7 DEF FilesInv

(* What the page's own domain answers with is the file, or nothing.         *)
LEMMA ServedIsNamed ==
  ASSUME FilesInv
  PROVE  Served \in {"named", "nothing"}
BY DEF FilesInv, FilesTypeOK, Served, BytesMatch

LEMMA HearsKeeps ==
  ASSUME FilesInv, Hears
  PROVE  FilesInv'
<1>0. /\ Len(Gateways) \in Nat /\ DOMAIN Gateways = 1..Len(Gateways)
      /\ Len(Sources) = Len(Gateways) + 1
  BY FilesAssumption DEF Sources
<1>1. PICK failing \in BOOLEAN :
        /\ troubles' = troubles + (IF failing THEN 1 ELSE 0)
        /\ LET own == attempt.source = 1
               bytes == IF failing THEN "nothing" ELSE IF own THEN Served ELSE hosts[attempt.source - 1]
           IN  /\ cdn' = IF own /\ bytes # "nothing" THEN bytes ELSE cdn
               /\ IF BytesMatch(bytes)
                  THEN /\ verified' = bytes /\ attempt' = NoAttempt
                       /\ visit' = IF visit.at = "reads" THEN [visit EXCEPT !.at = "shows", !.bytes = bytes] ELSE visit
                  ELSE IF attempt.source < Len(Sources)
                  THEN attempt' = [attempt EXCEPT !.source = @ + 1] /\ UNCHANGED <<verified, visit>>
                  ELSE AttemptFails
  BY DEF Hears
<1> DEFINE own == attempt.source = 1
           bytes == IF failing THEN "nothing" ELSE IF own THEN Served ELSE hosts[attempt.source - 1]
<1>2. /\ attempt.by # 0 /\ visit.at # Away /\ visit.n = attempt.by /\ hosts' = hosts
      /\ attempt \in Attempts /\ attempt.by \in Nat /\ attempt.source \in Nat
      /\ attempt.source \in 1..(Len(Gateways) + 1) /\ visit \in Visits /\ troubles \in Nat
      /\ hosts \in [DOMAIN Gateways -> Serves]
  BY DEF Hears, Aborted, FilesInv, FilesTypeOK, AttemptInv, Attempts
<1>3. /\ own => bytes \in {"named", "nothing"}
      /\ troubles' \in Nat /\ (troubles' = 0 => ~failing /\ troubles = 0)
  BY <1>1, <1>2, ServedIsNamed
<1>4. cdn' = IF own /\ bytes # "nothing" THEN bytes ELSE cdn
  BY <1>1
<1>5. cdn' \in {"named", "nothing"}
  BY <1>3, <1>4 DEF FilesInv, FilesTypeOK
<1>6. troubles' = 0 /\ ~own /\ ~BytesMatch(bytes) => hosts[attempt.source - 1] # "named"
  BY <1>3 DEF BytesMatch
<1>7. troubles' = 0 /\ ~BytesMatch(bytes) =>
        \A g \in DOMAIN hosts : g + 1 < attempt.source + 1 => hosts[g] # "named"
  <2> SUFFICES ASSUME troubles' = 0, ~BytesMatch(bytes), NEW g \in DOMAIN hosts, g + 1 < attempt.source + 1
               PROVE  hosts[g] # "named"
    OBVIOUS
  <2>1. g \in Nat /\ g >= 1
    BY <1>0, <1>2
  <2> HIDE DEF own, bytes
  <2>2. CASE g + 1 < attempt.source
    BY <1>2, <1>3, <2>2 DEF FilesInv, PassedInv
  <2>3. CASE ~(g + 1 < attempt.source)
    <3>1. g = attempt.source - 1 /\ attempt.source # 1
      BY <1>2, <2>1, <2>3
    <3> QED BY <1>6, <3>1 DEF own
  <2> QED BY <2>2, <2>3
<1>8. CASE BytesMatch(bytes)
  <2>1. /\ bytes = "named" /\ verified' = "named" /\ attempt' = NoAttempt
        /\ visit' = IF visit.at = "reads" THEN [visit EXCEPT !.at = "shows", !.bytes = bytes] ELSE visit
    BY <1>1, <1>8 DEF BytesMatch
  <2> HIDE DEF bytes, own
  <2>2. /\ attempt' \in Attempts /\ attempt'.by = 0 /\ visit' \in Visits /\ visit'.n = visit.n
        /\ visit.at = "reads" => visit'.at = "shows" /\ visit'.bytes = "named"
        /\ visit.at # "reads" => visit' = visit
    BY <1>2, <2>1 DEF NoAttempt, Attempts, Visits, Serves
  <2>3. FilesTypeOK'
    BY <1>2, <1>3, <1>5, <2>1, <2>2 DEF FilesTypeOK
  <2>4. AttemptInv' /\ PassedInv'
    BY <2>1, <2>2 DEF FilesInv, AttemptInv, PassedInv, Away
  <2>5. LeavingHarmsNoOther'
    BY <1>2, <1>3, <2>2 DEF FilesInv, LeavingHarmsNoOther, ToSeeHosts
  <2> QED BY <2>3, <2>4, <2>5 DEF FilesInv
<1>9. CASE ~BytesMatch(bytes) /\ attempt.source < Len(Sources)
  <2>1. attempt' = [attempt EXCEPT !.source = @ + 1] /\ verified' = verified /\ visit' = visit
    BY <1>1, <1>9
  <2> HIDE DEF bytes, own
  <2>2. attempt' \in Attempts /\ attempt'.by = attempt.by /\ attempt'.source = attempt.source + 1
    BY <1>2, <2>1 DEF Attempts
  <2>3. FilesTypeOK'
    BY <1>2, <1>3, <1>5, <2>1, <2>2 DEF FilesInv, FilesTypeOK
  <2>4. AttemptInv'
    BY <1>0, <1>2, <1>9, <2>1, <2>2 DEF FilesInv, AttemptInv
  <2>5. PassedInv'
    BY <1>2, <1>7, <1>9, <2>2 DEF PassedInv
  <2>6. LeavingHarmsNoOther'
    BY <1>2, <1>3, <2>1 DEF FilesInv, LeavingHarmsNoOther, ToSeeHosts
  <2> QED BY <2>3, <2>4, <2>5, <2>6 DEF FilesInv
<1>10. CASE ~BytesMatch(bytes) /\ ~(attempt.source < Len(Sources))
  <2>1. AttemptFails
    BY <1>1, <1>10
  <2> HIDE DEF bytes, own
  <2>2. attempt.source = Len(Gateways) + 1
    BY <1>0, <1>2, <1>10
  <2>3. troubles' = 0 => "named" \notin ToSeeHosts
    <3>1. \A g \in DOMAIN hosts : g + 1 < attempt.source + 1
      BY <1>0, <1>2, <2>2
    <3> QED BY <1>7, <1>10, <3>1 DEF ToSeeHosts
  <2> QED BY <1>2, <1>3, <1>5, <2>1, <2>3, FailureKeeps
<1> QED BY <1>8, <1>9, <1>10

(* The inductive invariant of a file's readers, for any gateways and number *)
(* of visits, losses and retries.                                           *)
THEOREM FilesInvariance == FSpec => []FilesInv
<1>1. FInit => FilesInv
  BY DEF FInit, FilesInv, FilesTypeOK, AttemptInv, PassedInv, LeavingHarmsNoOther, NoAttempt,
         Attempts, Visits, Serves, Away
<1>2. FilesInv /\ [FNext]_fVars => FilesInv'
  <2> SUFFICES ASSUME FilesInv, [FNext]_fVars PROVE FilesInv'
    OBVIOUS
  <2>1. CASE UNCHANGED fVars
    BY <2>1 DEF fVars, FilesInv, FilesTypeOK, AttemptInv, PassedInv, LeavingHarmsNoOther, ToSeeHosts
  <2>2. visit \in Visits /\ visit.n \in Nat /\ visit.tries \in Nat
    BY DEF FilesInv, FilesTypeOK, Visits
  <2>3. CASE Arrives
    <3>1. visit.n + 1 \in Nat \ {0} /\ 0 \in Nat
      BY <2>2
    <3> QED BY <2>3, <3>1, ReadsKeep DEF Arrives
  <2>4. CASE Leaves
    <3>1. visit' = [visit EXCEPT !.at = Away] /\ UNCHANGED <<hosts, ours, cdn, verified, attempt, troubles>>
      BY <2>4 DEF Leaves
    <3>2. visit' \in Visits /\ visit'.at = "away"
      BY <2>2, <3>1 DEF Visits, Away
    <3> QED BY <3>1, <3>2 DEF FilesInv, FilesTypeOK, AttemptInv, PassedInv, LeavingHarmsNoOther, Away
  <2>5. CASE Retried
    <3>1. /\ visit.n \in Nat \ {0} /\ visit.tries + 1 \in Nat /\ attempt.by = 0
      BY <2>2, <2>5 DEF Retried, FilesInv, AttemptInv, Away
    <3> QED BY <2>5, <3>1, ReadsKeep DEF Retried
  <2>6. CASE Hears
    BY <2>6, HearsKeeps
  <2>7. CASE AttemptEnds
    <3>1. /\ attempt.by # 0 /\ Aborted /\ AttemptFails
          /\ UNCHANGED <<hosts, ours, cdn, troubles>>
      BY <2>7 DEF AttemptEnds
    <3>2. visit.at = "reads" => visit.tries < Retries
      BY <2>2, <3>1, FilesAssumption DEF Aborted, FilesInv, AttemptInv, Away
    <3>3. troubles' \in Nat /\ cdn' \in {"named", "nothing"}
      BY <3>1 DEF FilesInv, FilesTypeOK
    <3> QED BY <3>1, <3>2, <3>3, FailureKeeps
  <2>8. CASE Remembers
    <3>1. verified = "none" /\ verified' = "named" /\ UNCHANGED <<hosts, ours, cdn, attempt, visit, troubles>>
      BY <2>8 DEF Remembers, BytesMatch
    <3> QED BY <3>1 DEF FilesInv, FilesTypeOK, AttemptInv, PassedInv, LeavingHarmsNoOther, ToSeeHosts
  <2>9. CASE HostChanges
    <3>1. /\ troubles' = troubles + 1 /\ UNCHANGED <<ours, cdn, verified, attempt, visit>>
          /\ \E g \in DOMAIN hosts, s \in Serves : hosts' = [hosts EXCEPT ![g] = s]
      BY <2>9 DEF HostChanges
    <3>2. troubles' \in Nat /\ troubles' > 0 /\ hosts' \in [DOMAIN Gateways -> Serves]
      BY <3>1 DEF FilesInv, FilesTypeOK
    <3> QED BY <3>1, <3>2 DEF FilesInv, FilesTypeOK, AttemptInv, PassedInv, LeavingHarmsNoOther
  <2> QED BY <2>1, <2>3, <2>4, <2>5, <2>6, <2>7, <2>8, <2>9 DEF FNext
<1> QED BY <1>1, <1>2, PTL DEF FSpec

(* Who shares an attempt gets the named bytes or a real failure: what       *)
(* fetchVerified keeps, shows and lets the CDN keep is what the address     *)
(* names, and a visit left with another's aborted attempt tries again.      *)
THEOREM ReadsEnd == FSpec => []ReadsEndWell
<1>1. FilesInv => ReadsEndWell
  BY DEF FilesInv, FilesTypeOK, AttemptInv, ReadsEndWell, ShownIsNamed
<1> QED BY <1>1, FilesInvariance, PTL

-----------------------------------------------------------------------------
(* Creating a launch: what is pinned for a save stays while a token may     *)
(* come to name it, and once one does.                                      *)
-----------------------------------------------------------------------------
TypedDetails == Details \union {Nothing}
ChosenPictures == Pictures \union {Nothing}
SaveRequests ==
  [at : {"image", "file", "yes", "no", "undo"}, details : TypedDetails,
   picture : ChosenPictures, ids : SUBSET Nat]

SavesTypeOK ==
  /\ details \in TypedDetails /\ picture \in ChosenPictures
  /\ saves \in Seq(SaveRequests)
  /\ time \in Nat
  /\ DOMAIN sweep = {"at", "inUse", "orphans"} /\ sweep.at \in {"rests", "read", "removes"}
  /\ sweep.orphans \subseteq 0 .. 2 * Len(saves)
  /\ \A q \in pins : q.id \in 0 .. 2 * Len(saves) /\ q.born \in Nat

(* Nothing is pinned, or listed for removal, under a number still to be     *)
(* used, and a save undoes its own pins only.                               *)
NumbersOwn ==
  \A i \in DOMAIN saves :
    /\ saves[i].ids \subseteq {2 * i - 1, 2 * i}
    /\ saves[i].at = "image" =>
         /\ saves[i].picture # Nothing /\ 2 * i - 1 \notin sweep.orphans
         /\ \A q \in pins : q.id # 2 * i - 1
    /\ saves[i].at \in {"image", "file"} =>
         2 * i \notin sweep.orphans /\ \A q \in pins : q.id # 2 * i

NumberedOnce == \A q, r \in pins : q.id = r.id => q = r

(* The pins of save i, none before t and none about to be removed.          *)
ImagePinned(i, t) ==
  \E q \in pins : /\ q.id = 2 * i - 1 /\ q.id \notin sweep.orphans /\ q.born >= t
                  /\ q.cid = Image(saves[i].picture)
FilePinned(i, t) ==
  \E q \in pins : /\ q.id = 2 * i /\ q.id \notin sweep.orphans /\ q.born >= t
                  /\ q.cid = File(saves[i].details, saves[i].picture) /\ q.names = saves[i].picture
AllPinned(i, t) == (saves[i].picture # Nothing => ImagePinned(i, t)) /\ FilePinned(i, t)

(* A save of these details was answered and its pins are in place.          *)
Secure(d, p, t) ==
  \E i \in DOMAIN saves :
    /\ saves[i].at = "yes" /\ saves[i].details = d /\ saves[i].picture = p
    /\ AllPinned(i, t)

Named(d, p, uri) == uri = IF d = Nothing /\ p = Nothing THEN <<Nothing>> ELSE File(d, p)
Some(d, p) == d # Nothing \/ p # Nothing

SavedOK ==
  \A d \in TypedDetails, p \in ChosenPictures :
    saved.of = Key(d, p) =>
      /\ saved.uri = File(d, p) /\ saved.since \in Nat
      /\ time <= saved.since + DAY => Secure(d, p, saved.since)

SavingOK ==
  press.at = "saving" =>
    /\ saves # <<>>
    /\ press.held.details = saves[This].details /\ press.held.picture = saves[This].picture
    /\ Some(press.held.details, press.held.picture)
    /\ saves[This].at = "file" /\ saves[This].picture # Nothing => ImagePinned(This, time)
    /\ saves[This].at = "yes" => AllPinned(This, time)

PromptOK ==
  press.at = "prompt" =>
    /\ press.since \in Nat
    /\ Named(press.held.details, press.held.picture, press.uri)
    /\ Some(press.held.details, press.held.picture) /\ time <= press.since + DAY =>
         Secure(press.held.details, press.held.picture, press.since)

LaunchesOK ==
  \A l \in launches :
    /\ l.landed \in 0 .. time /\ l.since \in Nat
    /\ Named(l.details, l.picture, l.uri)
    /\ Some(l.details, l.picture) /\ l.version \in LaunchpadsRead /\ l.landed <= l.since + DAY =>
         Secure(l.details, l.picture, l.since)

(* Between the two reads no time passes: a token the first one missed has   *)
(* only just landed.                                                        *)
SweepOK ==
  sweep.at = "read" =>
    \A l \in launches : l.version \in LaunchpadsRead => l.uri \in sweep.inUse \/ l.landed = time

DetailsInv ==
  /\ SavesTypeOK /\ NumbersOwn /\ NumberedOnce /\ SavedOK /\ SavingOK /\ PromptOK /\ LaunchesOK /\ SweepOK

-----------------------------------------------------------------------------
(* The addresses of files and pictures, and what was typed, tell them apart. *)
LEMMA AddressesApart ==
  ASSUME NEW d, NEW p
  PROVE  /\ File(d, p) # <<Nothing>> /\ NoSaved.of # Key(d, p)
         /\ \A e, q : Key(d, p) = Key(e, q) => d = e /\ p = q
<1>1. Len(File(d, p)) = 3 /\ Len(<<Nothing>>) = 1 /\ Len(Key(d, p)) = 2 /\ Len(<<>>) = 0
  BY DEF File, Key
<1>2. \A e, q : Key(d, p) = Key(e, q) => d = e /\ p = q
  BY DEF Key
<1> QED BY <1>1, <1>2 DEF NoSaved

LEMMA LeastIn ==
  ASSUME NEW N, N \subseteq Nat, N # {}
  PROVE  Min(N) \in N
BY HasFirst DEF Min

LEMMA SavesTyped ==
  ASSUME SavesTypeOK
  PROVE  /\ Len(saves) \in Nat /\ DOMAIN saves = 1 .. Len(saves)
         /\ \A i \in DOMAIN saves : saves[i] \in SaveRequests /\ i \in Nat /\ i >= 1 /\ i <= Len(saves)
         /\ DAY \in Nat
BY CreateAssumption DEF SavesTypeOK

(* Pins in place stay so when those of the answered saves are left alone.   *)
LeavesAlone(i) ==
  /\ i \in DOMAIN saves' /\ saves'[i].details = saves[i].details /\ saves'[i].picture = saves[i].picture
  /\ \A q \in pins : q.id \in {2 * i - 1, 2 * i} /\ q.id \notin sweep.orphans =>
       q \in pins' /\ q.id \notin sweep'.orphans

LEMMA PinnedStays ==
  ASSUME NEW i \in DOMAIN saves, NEW t, LeavesAlone(i)
  PROVE  /\ ImagePinned(i, t) => ImagePinned(i, t)'
         /\ FilePinned(i, t) => FilePinned(i, t)'
         /\ AllPinned(i, t) => AllPinned(i, t)'
BY DEF LeavesAlone, ImagePinned, FilePinned, AllPinned

Steady == \A i \in DOMAIN saves : saves[i].at = "yes" => LeavesAlone(i) /\ saves'[i].at = "yes"

LEMMA SecureStays ==
  ASSUME Steady, NEW d, NEW p, NEW t, Secure(d, p, t)
  PROVE  Secure(d, p, t)'
<1>1. PICK i \in DOMAIN saves : /\ saves[i].at = "yes" /\ saves[i].details = d /\ saves[i].picture = p
                                /\ AllPinned(i, t)
  BY DEF Secure
<1>2. LeavesAlone(i) /\ saves'[i].at = "yes"
  BY <1>1 DEF Steady
<1>3. AllPinned(i, t)'
  BY <1>1, <1>2, PinnedStays
<1> QED BY <1>1, <1>2, <1>3 DEF Secure, LeavesAlone

(* What is said of the details saved, of the press and of the tokens stays  *)
(* true as time passes, the pins being left alone.                          *)
LEMMA SavedStays ==
  ASSUME SavesTypeOK, SavedOK, Steady, saved' = saved, time' \in Nat, time' >= time
  PROVE  SavedOK'
<1> SUFFICES ASSUME NEW d \in TypedDetails, NEW p \in ChosenPictures, saved.of = Key(d, p)
             PROVE  /\ saved.uri = File(d, p) /\ saved.since \in Nat
                    /\ time' <= saved.since + DAY => Secure(d, p, saved.since)'
  BY DEF SavedOK
<1>1. /\ saved.uri = File(d, p) /\ saved.since \in Nat
      /\ time <= saved.since + DAY => Secure(d, p, saved.since)
  BY DEF SavedOK
<1>2. time' <= saved.since + DAY => time <= saved.since + DAY
  BY <1>1, SavesTyped DEF SavesTypeOK
<1> QED BY <1>1, <1>2, SecureStays

LEMMA PromptStays ==
  ASSUME SavesTypeOK, PromptOK, Steady, press' = press, time' \in Nat, time' >= time
  PROVE  PromptOK'
<1> SUFFICES ASSUME press.at = "prompt"
             PROVE  /\ press.since \in Nat
                    /\ Named(press.held.details, press.held.picture, press.uri)
                    /\ Some(press.held.details, press.held.picture) /\ time' <= press.since + DAY =>
                         Secure(press.held.details, press.held.picture, press.since)'
  BY DEF PromptOK, Named, Some
<1>1. time' <= press.since + DAY => time <= press.since + DAY
  BY SavesTyped DEF SavesTypeOK, PromptOK
<1> QED BY <1>1, SecureStays DEF PromptOK

LEMMA LaunchesStay ==
  ASSUME SavesTypeOK, LaunchesOK, Steady, launches' = launches, time' \in Nat, time' >= time
  PROVE  LaunchesOK'
<1> SUFFICES ASSUME NEW l \in launches
             PROVE  /\ l.landed \in 0 .. time' /\ l.since \in Nat
                    /\ Named(l.details, l.picture, l.uri)
                    /\ Some(l.details, l.picture) /\ l.version \in LaunchpadsRead
                         /\ l.landed <= l.since + DAY => Secure(l.details, l.picture, l.since)'
  BY DEF LaunchesOK, Named, Some
<1>1. /\ l.landed \in 0 .. time /\ l.since \in Nat
      /\ Named(l.details, l.picture, l.uri)
      /\ Some(l.details, l.picture) /\ l.version \in LaunchpadsRead
           /\ l.landed <= l.since + DAY => Secure(l.details, l.picture, l.since)
  BY DEF LaunchesOK
<1>2. l.landed \in 0 .. time'
  BY <1>1 DEF SavesTypeOK
<1> QED BY <1>1, <1>2, SecureStays

LEMMA SavingStays ==
  ASSUME SavesTypeOK, SavingOK, press' = press, time' = time,
         press.at = "saving" => This' = This /\ LeavesAlone(This) /\ saves'[This].at = saves[This].at
  PROVE  SavingOK'
<1> SUFFICES ASSUME press.at = "saving"
             PROVE  /\ saves' # <<>>
                    /\ press.held.details = saves'[This].details /\ press.held.picture = saves'[This].picture
                    /\ Some(press.held.details, press.held.picture)
                    /\ saves'[This].at = "file" /\ saves'[This].picture # Nothing => ImagePinned(This, time)'
                    /\ saves'[This].at = "yes" => AllPinned(This, time)'
  BY DEF SavingOK, Some
<1>1. This \in DOMAIN saves /\ This \in DOMAIN saves'
  BY SavesTyped DEF SavingOK, This, SavesTypeOK, LeavesAlone
<1>2. /\ ImagePinned(This, time) => ImagePinned(This, time)'
      /\ AllPinned(This, time) => AllPinned(This, time)'
  BY <1>1, PinnedStays
<1> QED BY <1>1, <1>2 DEF SavingOK, LeavesAlone

(* Steps that touch no pin, save, token or clean-up: typing, what the probe *)
(* answers, and a press that comes to nothing.                              *)
LEMMA TypingKeeps ==
  ASSUME DetailsInv, UNCHANGED <<saved, saves, pins, launches, sweep, time>>,
         press' = press \/ press'.at = "idle",
         details' \in TypedDetails, picture' \in ChosenPictures
  PROVE  DetailsInv'
<1>1. SavesTypeOK' /\ NumbersOwn' /\ NumberedOnce' /\ SweepOK'
  BY DEF DetailsInv, SavesTypeOK, NumbersOwn, NumberedOnce, SweepOK
<1>2. /\ Steady /\ \A i \in DOMAIN saves : LeavesAlone(i)
      /\ time' \in Nat /\ time' >= time
  BY DEF Steady, LeavesAlone, DetailsInv, SavesTypeOK
<1>3. SavedOK' /\ LaunchesOK'
  BY <1>2, SavedStays, LaunchesStay DEF DetailsInv
<1>4. CASE press' = press
  <2>1. press.at = "saving" => This' = This /\ LeavesAlone(This) /\ saves'[This].at = saves[This].at
    BY <1>2, SavesTyped DEF DetailsInv, SavesTypeOK, SavingOK, This
  <2> QED BY <1>1, <1>2, <1>3, <1>4, <2>1, PromptStays, SavingStays DEF DetailsInv
<1>5. CASE press'.at = "idle"
  BY <1>1, <1>3, <1>5 DEF DetailsInv, PromptOK, SavingOK
<1> QED BY <1>4, <1>5

LEMMA SubmitKeeps ==
  ASSUME DetailsInv, Submit
  PROVE  DetailsInv'
<1> DEFINE held == [goes |-> Planned, details |-> details, picture |-> picture,
                    own |-> AskedAbout(plan) = <<>> \/ answered = AskedAbout(plan)]
           full == recent >= UPLOADS_PER_WINDOW
           request == [at |-> IF full THEN "no" ELSE IF picture = Nothing THEN "file" ELSE "image",
                       details |-> details, picture |-> picture, ids |-> {}]
<1>1. /\ press.at = "idle"
      /\ \/ /\ ~WantsDetails /\ saves' = saves
            /\ press' = [at |-> "prompt", held |-> held, uri |-> <<Nothing>>, since |-> time]
         \/ /\ WantsDetails /\ saved.of = Key(details, picture) /\ saves' = saves
            /\ press' = [at |-> "prompt", held |-> held, uri |-> saved.uri, since |-> saved.since]
         \/ /\ WantsDetails /\ saves' = Append(saves, request)
            /\ press' = [at |-> "saving", held |-> held]
      /\ UNCHANGED <<details, picture, saved, pins, launches, sweep, time>>
  BY DEF Submit, typedVars, chainVars
<1>2. held.details = details /\ held.picture = picture
  OBVIOUS
<1>3. request \in SaveRequests /\ request.details = details /\ request.picture = picture
      /\ request.ids = {} /\ request.at # "yes" /\ (request.at = "image" => picture # Nothing)
      /\ (request.at = "file" => picture = Nothing)
  BY DEF SaveRequests, DetailsInv, SavesTypeOK
<1> HIDE DEF held, request, full
<1>4. SavesTypeOK /\ NumbersOwn /\ time \in Nat /\ details \in TypedDetails /\ picture \in ChosenPictures
  BY DEF DetailsInv, SavesTypeOK
<1>5. CASE saves' = saves
  <2>1. press'.at = "prompt"
    BY <1>1, <1>5, <1>4, SavesTyped DEF SavesTypeOK
  <2>2. /\ Steady /\ time' \in Nat /\ time' >= time /\ SavesTypeOK' /\ NumbersOwn' /\ NumberedOnce' /\ SweepOK'
    BY <1>1, <1>5 DEF Steady, LeavesAlone, DetailsInv, SavesTypeOK, NumbersOwn, NumberedOnce, SweepOK
  <2>3. SavedOK' /\ LaunchesOK' /\ SavingOK'
    BY <1>1, <2>1, <2>2, SavedStays, LaunchesStay DEF DetailsInv, SavingOK
  <2>4. PromptOK'
    <3>1. CASE ~WantsDetails
      BY <1>1, <1>2, <1>4, <1>5, <2>1, <3>1 DEF PromptOK, WantsDetails, Some, Named
    <3>2. CASE WantsDetails
      <4>1. /\ saved.of = Key(details, picture)
            /\ press' = [at |-> "prompt", held |-> held, uri |-> saved.uri, since |-> saved.since]
        BY <1>1, <2>1, <3>2
      <4>2. /\ saved.uri = File(details, picture) /\ saved.since \in Nat
            /\ time' <= saved.since + DAY => Secure(details, picture, saved.since)'
        BY <1>1, <1>4, <2>3, <4>1 DEF SavedOK
      <4>3. press'.held = held /\ press'.uri = saved.uri /\ press'.since = saved.since
        BY <4>1
      <4> QED BY <1>1, <1>2, <3>2, <4>2, <4>3 DEF PromptOK, WantsDetails, Some, Named
    <3> QED BY <3>1, <3>2
  <2> QED BY <2>2, <2>3, <2>4 DEF DetailsInv
<1>6. CASE saves' = Append(saves, request) /\ press' = [at |-> "saving", held |-> held] /\ WantsDetails
  <2>1. /\ saves' \in Seq(SaveRequests) /\ Len(saves') = Len(saves) + 1 /\ Len(saves) \in Nat
        /\ saves'[Len(saves) + 1] = request
        /\ DOMAIN saves = 1 .. Len(saves) /\ DOMAIN saves' = 1 .. Len(saves) + 1
        /\ \A i \in 1 .. Len(saves) : saves'[i] = saves[i]
    BY <1>3, <1>4, <1>6 DEF SavesTypeOK
  <2>2. Steady /\ time' \in Nat /\ time' >= time /\ SweepOK' /\ NumberedOnce'
    BY <1>1, <1>4, <2>1 DEF Steady, LeavesAlone, DetailsInv, SweepOK, NumberedOnce
  <2>3. SavesTypeOK'
    <3>1. \A n \in 0 .. 2 * Len(saves) : n \in 0 .. 2 * Len(saves')
      BY <2>1
    <3> QED BY <1>1, <1>4, <2>1, <3>1 DEF SavesTypeOK
  <2>4. NumbersOwn'
    <3> SUFFICES ASSUME NEW i \in DOMAIN saves'
        PROVE  /\ saves'[i].ids \subseteq {2 * i - 1, 2 * i}
               /\ saves'[i].at = "image" =>
                    /\ saves'[i].picture # Nothing /\ 2 * i - 1 \notin sweep.orphans
                    /\ \A q \in pins : q.id # 2 * i - 1
               /\ saves'[i].at \in {"image", "file"} =>
                    2 * i \notin sweep.orphans /\ \A q \in pins : q.id # 2 * i
      BY <1>1 DEF NumbersOwn
    <3>1. CASE i \in DOMAIN saves
      BY <1>4, <2>1, <3>1 DEF NumbersOwn
    <3>2. CASE i = Len(saves) + 1
      <4>1. 2 * i - 1 > 2 * Len(saves) /\ 2 * i > 2 * Len(saves)
        BY <2>1, <3>2
      <4>2. \A n \in 0 .. 2 * Len(saves) : n # 2 * i - 1 /\ n # 2 * i
        BY <2>1, <3>2
      <4>3. sweep.orphans \subseteq 0 .. 2 * Len(saves) /\ \A q \in pins : q.id \in 0 .. 2 * Len(saves)
        BY <1>4 DEF SavesTypeOK
      <4>4. saves'[i] = request
        BY <2>1, <3>2
      <4> QED BY <1>3, <4>2, <4>3, <4>4
    <3> QED BY <2>1, <3>1, <3>2
  <2>5. SavedOK' /\ LaunchesOK'
    BY <1>1, <1>4, <2>2, SavedStays, LaunchesStay DEF DetailsInv
  <2>6. PromptOK' /\ SavingOK'
    <3>1. This' = Len(saves) + 1 /\ saves'[This'] = request /\ saves' # <<>> /\ press'.at = "saving"
          /\ press'.held = held
      BY <1>6, <2>1 DEF This
    <3> QED BY <1>2, <1>3, <1>6, <3>1 DEF PromptOK, SavingOK, WantsDetails, Some
  <2> QED BY <2>2, <2>3, <2>4, <2>5, <2>6 DEF DetailsInv
<1> QED BY <1>1, <1>5, <1>6

LEMMA DetailsSavedKeeps ==
  ASSUME DetailsInv, DetailsSaved
  PROVE  DetailsInv'
<1>0. PICK d, p : d = press.held.details /\ p = press.held.picture
  OBVIOUS
<1>t. PICK now : now = time
  OBVIOUS
<1>1. /\ press.at = "saving" /\ saves[This].at = "yes"
      /\ saved' = [of |-> Key(d, p), uri |-> File(d, p), since |-> now]
      /\ press' = [at |-> "prompt", held |-> press.held, uri |-> File(d, p), since |-> now]
      /\ UNCHANGED <<details, picture, saves, pins, launches, sweep, time>>
  BY <1>0, <1>t DEF DetailsSaved, typedVars, chainVars, pinVars
<1>2. This \in DOMAIN saves /\ saves[This].details = d /\ saves[This].picture = p /\ Some(d, p)
      /\ AllPinned(This, now) /\ now \in Nat
  BY <1>0, <1>t, <1>1, SavesTyped DEF DetailsInv, SavesTypeOK, SavingOK, This
<1>3. Secure(d, p, now)
  BY <1>1, <1>2 DEF Secure
<1>4. Steady /\ time' \in Nat /\ time' >= time /\ SavesTypeOK' /\ NumbersOwn' /\ NumberedOnce' /\ SweepOK'
  BY <1>1 DEF Steady, LeavesAlone, DetailsInv, SavesTypeOK, NumbersOwn, NumberedOnce, SweepOK
<1>5. LaunchesOK' /\ Secure(d, p, now)'
  BY <1>1, <1>3, <1>4, LaunchesStay, SecureStays DEF DetailsInv
<1>6. SavedOK'
  <2> SUFFICES ASSUME NEW e \in TypedDetails, NEW q \in ChosenPictures, saved'.of = Key(e, q)
               PROVE  /\ saved'.uri = File(e, q) /\ saved'.since \in Nat
                      /\ time' <= saved'.since + DAY => Secure(e, q, saved.since)'
    BY DEF SavedOK
  <2>1. e = d /\ q = p
    BY <1>1, AddressesApart
  <2>2. saved'.uri = File(d, p) /\ saved'.since = now
    BY <1>1
  <2> QED BY <1>2, <1>5, <2>1, <2>2
<1>7. PromptOK' /\ SavingOK'
  <2>1. press'.at = "prompt" /\ press'.held = press.held /\ press'.uri = File(d, p) /\ press'.since = now
    BY <1>1
  <2> QED BY <1>0, <1>1, <1>2, <1>5, <2>1 DEF PromptOK, SavingOK, Named, Some
<1> QED BY <1>4, <1>5, <1>6, <1>7 DEF DetailsInv

LEMMA CreatesKeeps ==
  ASSUME DetailsInv, Creates
  PROVE  DetailsInv'
<1> DEFINE goes == press.held.goes
           token == [version |-> scene.version, details |-> press.held.details, picture |-> press.held.picture,
                     uri |-> press.uri, since |-> press.since, landed |-> time,
                     own |-> press.held.own, strands |-> Strands(goes.plugin, goes.data, Chain)]
<1>1. /\ press.at = "prompt"
      /\ \/ launches' = launches \cup {token} /\ press' = [at |-> "done"]
         \/ press' = Idle /\ UNCHANGED launches
      /\ UNCHANGED <<details, picture, saved, saves, pins, sweep, time>>
  BY DEF Creates, typedVars, pinVars
<1>2. /\ token.details = press.held.details /\ token.picture = press.held.picture
      /\ token.uri = press.uri /\ token.since = press.since /\ token.landed = time
  OBVIOUS
<1> HIDE DEF goes, token
<1>3. CASE press' = Idle /\ UNCHANGED launches
  <2>1. press'.at = "idle"
    BY <1>3 DEF Idle
  <2> QED BY <1>1, <1>3, <2>1, TypingKeeps DEF DetailsInv, SavesTypeOK
<1>4. CASE launches' = launches \cup {token} /\ press' = [at |-> "done"]
  <2>1. Steady /\ time' \in Nat /\ time' >= time /\ SavesTypeOK' /\ NumbersOwn' /\ NumberedOnce' /\ press'.at = "done"
    BY <1>1, <1>4 DEF Steady, LeavesAlone, DetailsInv, SavesTypeOK, NumbersOwn, NumberedOnce
  <2>2. SavedOK' /\ PromptOK' /\ SavingOK'
    BY <1>1, <2>1, SavedStays DEF DetailsInv, PromptOK, SavingOK
  <2>3. SweepOK'
    BY <1>1, <1>2, <1>4 DEF DetailsInv, SweepOK
  <2>4. LaunchesOK'
    <3> SUFFICES ASSUME NEW l, l \in launches'
                 PROVE  /\ l.landed \in 0 .. time /\ l.since \in Nat
                        /\ Named(l.details, l.picture, l.uri)
                        /\ Some(l.details, l.picture) /\ l.version \in LaunchpadsRead
                             /\ l.landed <= l.since + DAY => Secure(l.details, l.picture, l.since)'
      BY <1>1 DEF LaunchesOK, Named, Some
    <3>1. CASE l \in launches
      <4>1. PICK d, p, t : d = l.details /\ p = l.picture /\ t = l.since
        OBVIOUS
      <4>2. /\ l.landed \in 0 .. time /\ t \in Nat /\ Named(d, p, l.uri)
            /\ Some(d, p) /\ l.version \in LaunchpadsRead /\ l.landed <= t + DAY => Secure(d, p, t)
        BY <3>1, <4>1 DEF DetailsInv, LaunchesOK
      <4>3. Secure(d, p, t) => Secure(d, p, t)'
        BY <2>1, SecureStays
      <4> QED BY <4>1, <4>2, <4>3
    <3>2. CASE l = token
      <4>0. PICK d, p, t : d = press.held.details /\ p = press.held.picture /\ t = press.since
        OBVIOUS
      <4>1. /\ t \in Nat /\ Named(d, p, press.uri)
            /\ Some(d, p) /\ time <= t + DAY => Secure(d, p, t)'
        BY <1>1, <2>1, <4>0, SecureStays DEF DetailsInv, PromptOK
      <4>2. time \in 0 .. time
        BY DEF DetailsInv, SavesTypeOK
      <4> QED BY <1>2, <3>2, <4>0, <4>1, <4>2
    <3> QED BY <1>4, <3>1, <3>2
  <2> QED BY <2>1, <2>2, <2>3, <2>4 DEF DetailsInv
<1> QED BY <1>1, <1>3, <1>4

-----------------------------------------------------------------------------
(* The service pins for save i and goes on to `next`, the answer naming the *)
(* pin or not, or fails before anything was pinned.                         *)
ServiceStep(i, next) ==
  /\ saves[i].at \in {"image", "file"}
  /\ \/ pins' = pins \cup {Pin(i)}
     \/ pins' = pins /\ next = "undo"
  /\ \E told \in {{}, {Id(i)}} :
       saves' = [saves EXCEPT ![i].at = next, ![i].ids = @ \cup told]
  /\ next = "undo" \/ next = IF saves[i].at = "image" THEN "file" ELSE "yes"
  /\ UNCHANGED <<details, picture, saved, press, launches, sweep, time>>

LEMMA ServiceKeeps ==
  ASSUME DetailsInv, NEW i \in DOMAIN saves, NEW next, ServiceStep(i, next)
  PROVE  DetailsInv'
<1>0. /\ SavesTypeOK /\ NumbersOwn /\ Len(saves) \in Nat /\ i \in 1 .. Len(saves) /\ i \in Nat
      /\ saves[i] \in SaveRequests /\ time \in Nat /\ DOMAIN saves = 1 .. Len(saves)
      /\ saves \in Seq(SaveRequests)
  BY SavesTyped DEF DetailsInv, SavesTypeOK
<1>1. /\ Id(i) = (IF saves[i].at = "image" THEN 2 * i - 1 ELSE 2 * i)
      /\ Id(i) \in 0 .. 2 * Len(saves) /\ Id(i) \in {2 * i - 1, 2 * i}
  BY <1>0 DEF Id
<1>2. PICK told \in {{}, {Id(i)}} : saves' = [saves EXCEPT ![i].at = next, ![i].ids = @ \cup told]
  BY DEF ServiceStep
<1>3. next \in {"undo", "file", "yes"} /\ told \in SUBSET Nat /\ told \subseteq {2 * i - 1, 2 * i}
      /\ saves[i].at \in {"image", "file"}
  BY <1>1 DEF ServiceStep
<1>4. /\ saves' \in Seq(SaveRequests) /\ Len(saves') = Len(saves) /\ DOMAIN saves' = DOMAIN saves
      /\ saves'[i].at = next /\ saves'[i].ids = saves[i].ids \cup told
      /\ saves'[i].details = saves[i].details /\ saves'[i].picture = saves[i].picture
      /\ \A j \in DOMAIN saves : j # i => saves'[j] = saves[j]
  <2>1. [saves[i] EXCEPT !.at = next, !.ids = @ \cup told] \in SaveRequests
    BY <1>0, <1>3 DEF SaveRequests
  <2>2. saves' = [saves EXCEPT ![i] = [saves[i] EXCEPT !.at = next, !.ids = @ \cup told]]
    BY <1>2
  <2>3. DOMAIN saves[i] = {"at", "details", "picture", "ids"}
    BY <1>0 DEF SaveRequests
  <2> QED BY <1>0, <2>1, <2>2, <2>3
<1>5. /\ Pin(i).id = Id(i) /\ Pin(i).born = time /\ time \in Nat
      /\ Pin(i).cid = (IF saves[i].at = "image" THEN Image(saves[i].picture)
                       ELSE File(saves[i].details, saves[i].picture))
      /\ Pin(i).names = (IF saves[i].at = "image" THEN Nothing ELSE saves[i].picture)
  BY <1>0 DEF Pin
<1>6. /\ \/ pins' = pins \cup {Pin(i)}
         \/ pins' = pins /\ next = "undo"
      /\ next = "undo" \/ next = IF saves[i].at = "image" THEN "file" ELSE "yes"
      /\ UNCHANGED <<details, picture, saved, press, launches, sweep, time>>
  BY DEF ServiceStep
<1>7. Id(i) \notin sweep.orphans
  BY <1>0, <1>1, <1>3 DEF NumbersOwn
<1>8. \A j \in DOMAIN saves : LeavesAlone(j)
  BY <1>4, <1>6 DEF LeavesAlone
<1>9. Steady /\ time' \in Nat /\ time' >= time
  BY <1>0, <1>3, <1>4, <1>6, <1>8 DEF Steady
<1>10. SavesTypeOK'
  <2>1. \A q \in pins' : q.id \in 0 .. 2 * Len(saves) /\ q.born \in Nat
    BY <1>0, <1>1, <1>5, <1>6 DEF SavesTypeOK
  <2> QED BY <1>0, <1>4, <1>6, <2>1 DEF SavesTypeOK
<1>11. NumbersOwn'
  <2> SUFFICES ASSUME NEW j \in DOMAIN saves
      PROVE  /\ saves'[j].ids \subseteq {2 * j - 1, 2 * j}
             /\ saves'[j].at = "image" =>
                  /\ saves'[j].picture # Nothing /\ 2 * j - 1 \notin sweep.orphans
                  /\ \A q \in pins' : q.id # 2 * j - 1
             /\ saves'[j].at \in {"image", "file"} =>
                  2 * j \notin sweep.orphans /\ \A q \in pins' : q.id # 2 * j
    BY <1>4, <1>6 DEF NumbersOwn
  <2>1. /\ saves[j].ids \subseteq {2 * j - 1, 2 * j}
        /\ saves[j].at = "image" =>
             /\ saves[j].picture # Nothing /\ 2 * j - 1 \notin sweep.orphans
             /\ \A q \in pins : q.id # 2 * j - 1
        /\ saves[j].at \in {"image", "file"} =>
             2 * j \notin sweep.orphans /\ \A q \in pins : q.id # 2 * j
    BY <1>0 DEF NumbersOwn
  <2>2. j \in Nat
    BY <1>0
  <2>3. CASE j = i
    <3>1. saves'[i].at = "file" => saves[i].at = "image" /\ Pin(i).id = 2 * i - 1
      BY <1>1, <1>4, <1>5, <1>6
    <3>2. saves'[i].at # "image"
      BY <1>3, <1>4
    <3>3. 2 * i - 1 # 2 * i
      BY <1>0
    <3> QED BY <1>3, <1>4, <1>6, <2>1, <2>3, <3>1, <3>2, <3>3
  <2>4. CASE j # i
    <3>1. Id(i) # 2 * j - 1 /\ Id(i) # 2 * j
      BY <1>0, <1>1, <2>2, <2>4
    <3> QED BY <1>4, <1>5, <1>6, <2>1, <2>4, <3>1
  <2> QED BY <2>3, <2>4
<1>12. SavedOK' /\ PromptOK' /\ LaunchesOK'
  BY <1>0, <1>6, <1>9, SavedStays, PromptStays, LaunchesStay DEF DetailsInv
<1>13. SweepOK' /\ NumberedOnce'
  <2>1. \A q \in pins : q.id # Pin(i).id
    BY <1>0, <1>1, <1>3, <1>5 DEF NumbersOwn
  <2> QED BY <1>6, <2>1 DEF DetailsInv, SweepOK, NumberedOnce
<1>14. SavingOK'
  <2>1. CASE press.at # "saving"
    BY <1>6, <2>1 DEF SavingOK
  <2>2. CASE press.at = "saving"
    <3>1. /\ saves # <<>> /\ This \in DOMAIN saves /\ This' = This /\ saves' # <<>>
          /\ press.held.details = saves[This].details /\ press.held.picture = saves[This].picture
          /\ Some(press.held.details, press.held.picture)
          /\ saves[This].at = "file" /\ saves[This].picture # Nothing => ImagePinned(This, time)
          /\ saves[This].at = "yes" => AllPinned(This, time)
      BY <1>0, <1>4, <2>2 DEF DetailsInv, SavingOK, This
    <3>2. CASE This # i
      BY <1>0, <1>4, <1>6, <1>8, <3>1, <3>2, SavingStays DEF DetailsInv
    <3>3. CASE This = i
      <4>1. saves'[i].at = "file" => ImagePinned(i, time)'
        <5> SUFFICES ASSUME saves'[i].at = "file" PROVE ImagePinned(i, time)'
          OBVIOUS
        <5>1. saves[i].at = "image" /\ Pin(i) \in pins'
          BY <1>3, <1>4, <1>6
        <5>2. Pin(i).id = 2 * i - 1 /\ Pin(i).cid = Image(saves[i].picture) /\ Pin(i).born >= time
          BY <1>1, <1>5, <5>1
        <5> QED BY <1>4, <1>5, <1>6, <1>7, <5>1, <5>2 DEF ImagePinned
      <4>2. saves'[i].at = "yes" => AllPinned(i, time)'
        <5> SUFFICES ASSUME saves'[i].at = "yes" PROVE AllPinned(i, time)'
          OBVIOUS
        <5>1. saves[i].at = "file" /\ Pin(i) \in pins'
          BY <1>3, <1>4, <1>6
        <5>2. /\ Pin(i).id = 2 * i /\ Pin(i).cid = File(saves[i].details, saves[i].picture)
              /\ Pin(i).names = saves[i].picture /\ Pin(i).born >= time
          BY <1>1, <1>5, <5>1
        <5>3. FilePinned(i, time)'
          BY <1>4, <1>5, <1>6, <1>7, <5>1, <5>2 DEF FilePinned
        <5>4. saves[i].picture # Nothing => ImagePinned(i, time)
          BY <3>1, <3>3, <5>1
        <5>5. ImagePinned(i, time) => ImagePinned(i, time)'
          <6>1. PICK now : now = time
            OBVIOUS
          <6>2. ImagePinned(i, now) => ImagePinned(i, now)'
            BY <1>0, <1>8, PinnedStays
          <6> QED BY <1>6, <6>1, <6>2
        <5> QED BY <1>4, <5>3, <5>4, <5>5 DEF AllPinned
      <4> QED BY <1>4, <1>6, <3>1, <3>3, <4>1, <4>2 DEF SavingOK, Some
    <3> QED BY <3>2, <3>3
  <2> QED BY <2>1, <2>2
<1> QED BY <1>10, <1>11, <1>12, <1>13, <1>14 DEF DetailsInv

LEMMA UndoesKeeps ==
  ASSUME DetailsInv, NEW i \in DOMAIN saves, Undoes(i)
  PROVE  DetailsInv'
<1>0. /\ SavesTypeOK /\ NumbersOwn /\ Len(saves) \in Nat /\ i \in 1 .. Len(saves) /\ i \in Nat
      /\ saves[i] \in SaveRequests /\ time \in Nat /\ DOMAIN saves = 1 .. Len(saves)
      /\ saves \in Seq(SaveRequests)
  BY SavesTyped DEF DetailsInv, SavesTypeOK
<1>1. /\ saves[i].at = "undo" /\ saves' = [saves EXCEPT ![i].at = "no"]
      /\ \E left \in SUBSET saves[i].ids : pins' = {p \in pins : p.id \in saves[i].ids => p.id \in left}
      /\ UNCHANGED <<details, picture, saved, press, launches, sweep, time>>
  BY DEF Undoes, typedVars, chainVars
<1>2. /\ pins' \subseteq pins
      /\ \A q \in pins : q.id \notin saves[i].ids => q \in pins'
  BY <1>1
<1>3. /\ saves' \in Seq(SaveRequests) /\ Len(saves') = Len(saves) /\ DOMAIN saves' = DOMAIN saves
      /\ saves'[i].at = "no" /\ saves'[i].ids = saves[i].ids
      /\ saves'[i].details = saves[i].details /\ saves'[i].picture = saves[i].picture
      /\ \A j \in DOMAIN saves : j # i => saves'[j] = saves[j]
  <2>1. [saves[i] EXCEPT !.at = "no"] \in SaveRequests
    BY <1>0 DEF SaveRequests
  <2>2. saves' = [saves EXCEPT ![i] = [saves[i] EXCEPT !.at = "no"]]
    BY <1>1
  <2>3. DOMAIN saves[i] = {"at", "details", "picture", "ids"}
    BY <1>0 DEF SaveRequests
  <2> QED BY <1>0, <2>1, <2>2, <2>3
<1>4. \A j \in DOMAIN saves : j # i => LeavesAlone(j)
  <2> SUFFICES ASSUME NEW j \in DOMAIN saves, j # i, NEW q \in pins, q.id \in {2 * j - 1, 2 * j}
               PROVE  q \in pins'
    BY <1>1, <1>3 DEF LeavesAlone
  <2>1. saves[i].ids \subseteq {2 * i - 1, 2 * i} /\ j \in Nat
    BY <1>0 DEF NumbersOwn
  <2>2. q.id # 2 * i - 1 /\ q.id # 2 * i
    BY <1>0, <2>1
  <2> QED BY <1>2, <2>1, <2>2
<1>5. Steady /\ time' \in Nat /\ time' >= time
  BY <1>0, <1>1, <1>3, <1>4 DEF Steady
<1>6. SavesTypeOK' /\ NumbersOwn' /\ NumberedOnce' /\ SweepOK'
  <2>1. SavesTypeOK'
    BY <1>0, <1>1, <1>2, <1>3 DEF SavesTypeOK
  <2>2. NumbersOwn'
    BY <1>0, <1>1, <1>2, <1>3 DEF NumbersOwn
  <2>3. NumberedOnce' /\ SweepOK'
    BY <1>1, <1>2 DEF DetailsInv, NumberedOnce, SweepOK
  <2> QED BY <2>1, <2>2, <2>3
<1>7. SavedOK' /\ PromptOK' /\ LaunchesOK'
  BY <1>0, <1>1, <1>5, SavedStays, PromptStays, LaunchesStay DEF DetailsInv
<1>8. SavingOK'
  <2>1. CASE press.at = "saving" /\ This = i
    <3>1. This' = i /\ saves' # <<>>
      BY <1>0, <1>3, <2>1 DEF This
    <3> QED BY <1>1, <1>3, <2>1, <3>1 DEF DetailsInv, SavingOK, Some
  <2>2. CASE press.at = "saving" /\ This # i
    <3>1. This \in DOMAIN saves /\ This' = This
      BY <1>0, <1>3, <2>2 DEF DetailsInv, SavingOK, This
    <3> QED BY <1>0, <1>1, <1>3, <1>4, <2>2, <3>1, SavingStays DEF DetailsInv
  <2>3. CASE press.at # "saving"
    BY <1>1, <2>3 DEF SavingOK
  <2> QED BY <2>1, <2>2, <2>3
<1> QED BY <1>6, <1>7, <1>8 DEF DetailsInv

-----------------------------------------------------------------------------
(* What the clean-up lists is more than a day old, and neither the file of  *)
(* a token it read nor the picture such a file names.                       *)
LEMMA ListsSpare ==
  ASSUME DetailsInv, SweepLists, NEW i \in DOMAIN saves, NEW t \in Nat
  PROVE  /\ time <= t + DAY => /\ ImagePinned(i, t) => ImagePinned(i, t)'
                               /\ AllPinned(i, t) => AllPinned(i, t)'
         /\ File(saves[i].details, saves[i].picture) \in sweep.inUse =>
              (AllPinned(i, t) => AllPinned(i, t)')
<1>1. /\ sweep'.orphans = Orphans(sweep.inUse) /\ saves' = saves /\ pins' = pins
  BY DEF SweepLists, pinVars, DetailsInv, SavesTypeOK
<1>2. time \in Nat /\ DAY \in Nat /\ NumberedOnce /\ \A q \in pins : q.born \in Nat
  BY SavesTyped DEF DetailsInv, SavesTypeOK
<1>3. ASSUME NEW q \in pins, q.id \in sweep'.orphans
      PROVE  q.born < time - DAY /\ q.cid \notin sweep.inUse \cup ImagesInUse(sweep.inUse)
  BY <1>1, <1>2, <1>3 DEF Orphans, NumberedOnce
<1>4. time <= t + DAY => \A q \in pins : q.born >= t => q.id \notin sweep'.orphans
  BY <1>2, <1>3
<1>5. time <= t + DAY => /\ ImagePinned(i, t) => ImagePinned(i, t)'
                         /\ FilePinned(i, t) => FilePinned(i, t)'
  BY <1>1, <1>4 DEF ImagePinned, FilePinned
<1>6. ASSUME File(saves[i].details, saves[i].picture) \in sweep.inUse, AllPinned(i, t)
      PROVE  AllPinned(i, t)'
  <2>1. PICK f \in pins : /\ f.id = 2 * i /\ f.born >= t
                          /\ f.cid = File(saves[i].details, saves[i].picture) /\ f.names = saves[i].picture
    BY <1>6 DEF AllPinned, FilePinned
  <2>2. f.id \notin sweep'.orphans
    BY <1>3, <1>6, <2>1
  <2>3. FilePinned(i, t)'
    BY <1>1, <2>1, <2>2 DEF FilePinned
  <2>4. ASSUME saves[i].picture # Nothing PROVE ImagePinned(i, t)'
    <3>1. PICK q \in pins : q.id = 2 * i - 1 /\ q.born >= t /\ q.cid = Image(saves[i].picture)
      BY <1>6, <2>4 DEF AllPinned, ImagePinned
    <3>2. q.cid \in ImagesInUse(sweep.inUse)
      BY <1>6, <2>1, <2>4, <3>1 DEF ImagesInUse
    <3>3. q.id \notin sweep'.orphans
      BY <1>3, <3>2
    <3> QED BY <1>1, <3>1, <3>3 DEF ImagePinned
  <2> QED BY <1>1, <2>3, <2>4 DEF AllPinned
<1> QED BY <1>1, <1>5, <1>6 DEF AllPinned

LEMMA SweepListsKeeps ==
  ASSUME DetailsInv, SweepLists
  PROVE  DetailsInv'
<1>1. /\ sweep.at = "read" /\ sweep' = [sweep EXCEPT !.at = "removes", !.orphans = Orphans(sweep.inUse)]
      /\ UNCHANGED <<details, picture, saved, press, saves, pins, launches, time>>
  BY DEF SweepLists, typedVars, pinVars, chainVars
<1>2. /\ SavesTypeOK /\ NumbersOwn /\ NumberedOnce /\ time \in Nat /\ DAY \in Nat
      /\ \A q \in pins : q.id \in 0 .. 2 * Len(saves)
  BY SavesTyped DEF DetailsInv, SavesTypeOK
<1>3. /\ DOMAIN sweep' = {"at", "inUse", "orphans"} /\ sweep'.at = "removes"
      /\ sweep'.orphans = Orphans(sweep.inUse)
  BY <1>1, <1>2 DEF SavesTypeOK
<1>4. \A n \in sweep'.orphans : \E q \in pins : q.id = n
  BY <1>3 DEF Orphans
<1>5. SavesTypeOK' /\ NumberedOnce' /\ SweepOK'
  BY <1>1, <1>2, <1>3, <1>4 DEF SavesTypeOK, NumberedOnce, SweepOK
<1>6. NumbersOwn'
  BY <1>1, <1>2, <1>4 DEF NumbersOwn
<1>7. ASSUME NEW d, NEW p, NEW t \in Nat, Secure(d, p, t),
             time <= t + DAY \/ File(d, p) \in sweep.inUse
      PROVE  Secure(d, p, t)'
  <2>1. PICK i \in DOMAIN saves : /\ saves[i].at = "yes" /\ saves[i].details = d /\ saves[i].picture = p
                                  /\ AllPinned(i, t)
    BY <1>7 DEF Secure
  <2>2. AllPinned(i, t)'
    BY <1>7, <2>1, ListsSpare
  <2> QED BY <1>1, <2>1, <2>2 DEF Secure
<1>8. SavedOK' /\ PromptOK'
  <2>1. SavedOK'
    <3> SUFFICES ASSUME NEW d \in TypedDetails, NEW p \in ChosenPictures, saved.of = Key(d, p)
                 PROVE  /\ saved.uri = File(d, p) /\ saved.since \in Nat
                        /\ time <= saved.since + DAY => Secure(d, p, saved.since)'
      BY <1>1 DEF SavedOK
    <3>1. PICK t : t = saved.since
      OBVIOUS
    <3>2. saved.uri = File(d, p) /\ t \in Nat /\ (time <= t + DAY => Secure(d, p, t))
      BY <3>1 DEF DetailsInv, SavedOK
    <3>3. time <= t + DAY => Secure(d, p, t)'
      BY <1>7, <3>2
    <3> QED BY <1>1, <3>1, <3>2, <3>3
  <2>2. PromptOK'
    <3> SUFFICES ASSUME press.at = "prompt"
                 PROVE  /\ press.since \in Nat
                        /\ Named(press.held.details, press.held.picture, press.uri)
                        /\ Some(press.held.details, press.held.picture) /\ time <= press.since + DAY =>
                             Secure(press.held.details, press.held.picture, press.since)'
      BY <1>1 DEF PromptOK, Named, Some
    <3>1. PICK d, p, t : d = press.held.details /\ p = press.held.picture /\ t = press.since
      OBVIOUS
    <3>2. /\ t \in Nat /\ Named(d, p, press.uri)
          /\ Some(d, p) /\ time <= t + DAY => Secure(d, p, t)
      BY <3>1 DEF DetailsInv, PromptOK
    <3>3. Some(d, p) /\ time <= t + DAY => Secure(d, p, t)'
      BY <1>7, <3>2
    <3> QED BY <1>1, <3>1, <3>2, <3>3
  <2> QED BY <2>1, <2>2
<1>9. SavingOK'
  <2> SUFFICES ASSUME press.at = "saving"
               PROVE  SavingOK'
    BY <1>1 DEF SavingOK
  <2>1. PICK i, t : i = This /\ t = time
    OBVIOUS
  <2>2. /\ saves # <<>> /\ i \in DOMAIN saves /\ t \in Nat /\ time <= t + DAY
        /\ press.held.details = saves[i].details /\ press.held.picture = saves[i].picture
        /\ Some(press.held.details, press.held.picture)
        /\ saves[i].at = "file" /\ saves[i].picture # Nothing => ImagePinned(i, t)
        /\ saves[i].at = "yes" => AllPinned(i, t)
    BY <1>2, <2>1, SavesTyped DEF DetailsInv, SavesTypeOK, SavingOK, This
  <2>3. /\ saves[i].at = "file" /\ saves[i].picture # Nothing => ImagePinned(i, t)'
        /\ saves[i].at = "yes" => AllPinned(i, t)'
    BY <2>2, ListsSpare
  <2>4. i = This' /\ t = time'
    BY <1>1, <2>1 DEF This
  <2> QED BY <1>1, <2>2, <2>3, <2>4 DEF SavingOK, Some
<1>10. LaunchesOK'
  <2> SUFFICES ASSUME NEW l \in launches
               PROVE  /\ l.landed \in 0 .. time /\ l.since \in Nat
                      /\ Named(l.details, l.picture, l.uri)
                      /\ Some(l.details, l.picture) /\ l.version \in LaunchpadsRead
                           /\ l.landed <= l.since + DAY => Secure(l.details, l.picture, l.since)'
    BY <1>1 DEF LaunchesOK, Named, Some
  <2>1. PICK d, p, t : d = l.details /\ p = l.picture /\ t = l.since
    OBVIOUS
  <2>2. /\ l.landed \in 0 .. time /\ t \in Nat /\ Named(d, p, l.uri)
        /\ Some(d, p) /\ l.version \in LaunchpadsRead /\ l.landed <= t + DAY => Secure(d, p, t)
    BY <2>1 DEF DetailsInv, LaunchesOK
  <2>3. ASSUME Some(d, p), l.version \in LaunchpadsRead, l.landed <= t + DAY
        PROVE  Secure(d, p, t)'
    <3>1. l.uri \in sweep.inUse \/ l.landed = time
      BY <1>1, <2>3 DEF DetailsInv, SweepOK
    <3>2. l.uri = File(d, p)
      BY <2>2, <2>3 DEF Named, Some
    <3> QED BY <1>7, <2>2, <2>3, <3>1, <3>2
  <2> QED BY <2>1, <2>2, <2>3
<1> QED BY <1>5, <1>6, <1>8, <1>9, <1>10 DEF DetailsInv

(* The other steps of the clean-up leave what it did not list alone.        *)
LEMMA SweepKeeps ==
  ASSUME DetailsInv, UNCHANGED <<details, picture, saved, press, saves, launches, time>>,
         DOMAIN sweep' = {"at", "inUse", "orphans"}, sweep'.at \in {"rests", "read", "removes"},
         sweep'.orphans \subseteq sweep.orphans, pins' \subseteq pins,
         \A q \in pins : q.id \notin sweep.orphans => q \in pins',
         sweep'.at = "read" => \A l \in launches : l.version \in LaunchpadsRead => l.uri \in sweep'.inUse
  PROVE  DetailsInv'
<1>1. SavesTypeOK' /\ NumbersOwn' /\ NumberedOnce' /\ SweepOK'
  BY DEF DetailsInv, SavesTypeOK, NumbersOwn, NumberedOnce, SweepOK
<1>2. /\ Steady /\ \A i \in DOMAIN saves : LeavesAlone(i)
      /\ time' \in Nat /\ time' >= time
  BY DEF Steady, LeavesAlone, DetailsInv, SavesTypeOK
<1>3. SavedOK' /\ LaunchesOK' /\ PromptOK'
  BY <1>2, SavedStays, LaunchesStay, PromptStays DEF DetailsInv
<1>4. press.at = "saving" => This' = This /\ LeavesAlone(This) /\ saves'[This].at = saves[This].at
  BY <1>2, SavesTyped DEF DetailsInv, SavesTypeOK, SavingOK, This
<1> QED BY <1>1, <1>3, <1>4, SavingStays DEF DetailsInv

LEMMA PassesKeeps ==
  ASSUME DetailsInv, Passes
  PROVE  DetailsInv'
<1>1. /\ sweep.at # "read" /\ press.at # "saving" /\ time' = time + 1
      /\ UNCHANGED <<details, picture, saved, press, saves, pins, launches, sweep>>
  BY DEF Passes, typedVars, chainVars
<1>2. /\ Steady /\ time' \in Nat /\ time' >= time /\ SavesTypeOK' /\ NumbersOwn' /\ NumberedOnce'
      /\ SweepOK' /\ SavingOK'
  BY <1>1 DEF Steady, LeavesAlone, DetailsInv, SavesTypeOK, NumbersOwn, NumberedOnce, SweepOK, SavingOK
<1> QED BY <1>1, <1>2, SavedStays, LaunchesStay, PromptStays DEF DetailsInv

(* The inductive invariant of a launch's details.  Whatever the form, the   *)
(* service, the wallet and the clean-up do, and in what order, the pins of  *)
(* an answered save are in place for a day, and for good once a token the   *)
(* clean-up reads names them.                                               *)
THEOREM DetailsInvariance == CSpec => []DetailsInv
<1>1. CInit => DetailsInv
  <2> SUFFICES ASSUME CInit PROVE DetailsInv
    OBVIOUS
  <2>1. SavesTypeOK
    BY DEF CInit, SavesTypeOK, TypedDetails, ChosenPictures, Resting
  <2>2. NumbersOwn /\ NumberedOnce /\ SavingOK /\ PromptOK /\ LaunchesOK /\ SweepOK
    BY DEF CInit, NumbersOwn, NumberedOnce, SavingOK, PromptOK, LaunchesOK, SweepOK, Resting, Idle
  <2>3. SavedOK
    BY AddressesApart DEF CInit, SavedOK
  <2> QED BY <2>1, <2>2, <2>3 DEF DetailsInv
<1>2. DetailsInv /\ [CNext]_cVars => DetailsInv'
  <2> SUFFICES ASSUME DetailsInv, [CNext]_cVars PROVE DetailsInv'
    OBVIOUS
  <2>0. details \in TypedDetails /\ picture \in ChosenPictures
    BY DEF DetailsInv, SavesTypeOK
  <2>1. CASE UNCHANGED cVars
    BY <2>0, <2>1, TypingKeeps DEF cVars, typedVars, pinVars, chainVars
  <2>2. CASE Choose \/ Configure
    BY <2>0, <2>2, TypingKeeps DEF Choose, Configure, pinVars, chainVars
  <2>3. CASE Describe
    BY <2>0, <2>3, TypingKeeps DEF Describe, Prepared, TypedDetails, ChosenPictures, pinVars, chainVars
  <2>4. CASE ProbeAnswers \/ ProbeFails \/ Wires
    BY <2>0, <2>4, TypingKeeps DEF ProbeAnswers, ProbeFails, Wires, typedVars, pinVars, chainVars
  <2>5. CASE Submit
    BY <2>5, SubmitKeeps
  <2>6. CASE DetailsSaved
    BY <2>6, DetailsSavedKeeps
  <2>7. CASE SaveFails \/ Turns
    BY <2>0, <2>7, TypingKeeps DEF SaveFails, Turns, Idle, typedVars, pinVars, chainVars
  <2>8. CASE Creates
    BY <2>8, CreatesKeeps
  <2>9. ASSUME NEW i \in DOMAIN saves, Pins(i) \/ PinFails(i) PROVE DetailsInv'
    <3>1. CASE Pins(i)
      <4> DEFINE next == IF saves[i].at = "image" THEN "file" ELSE "yes"
      <4>1. /\ saves[i].at \in {"image", "file"} /\ pins' = pins \cup {Pin(i)}
            /\ saves' = [saves EXCEPT ![i].ids = @ \cup {Id(i)},
                                      ![i].at = IF @ = "image" THEN "file" ELSE "yes"]
            /\ UNCHANGED <<details, picture, saved, press, launches, sweep, time>>
        BY <3>1 DEF Pins, typedVars, chainVars
      <4>2. saves[i] \in SaveRequests /\ saves \in Seq(SaveRequests)
        BY SavesTyped DEF DetailsInv, SavesTypeOK
      <4>3. [saves[i] EXCEPT !.ids = @ \cup {Id(i)}, !.at = IF @ = "image" THEN "file" ELSE "yes"]
              = [saves[i] EXCEPT !.at = next, !.ids = @ \cup {Id(i)}]
        BY <4>2 DEF SaveRequests
      <4>4. saves' = [saves EXCEPT ![i].at = next, ![i].ids = @ \cup {Id(i)}]
        BY <4>1, <4>2, <4>3
      <4>5. ServiceStep(i, next)
        <5>1. /\ saves[i].at \in {"image", "file"} /\ pins' = pins \cup {Pin(i)}
              /\ next = IF saves[i].at = "image" THEN "file" ELSE "yes"
              /\ UNCHANGED <<details, picture, saved, press, launches, sweep, time>>
          BY <4>1
        <5> HIDE DEF next
        <5> QED BY <4>4, <5>1 DEF ServiceStep
      <4> QED BY <4>5, ServiceKeeps
    <3>2. CASE PinFails(i)
      <4>1. /\ saves[i].at \in {"image", "file"}
            /\ UNCHANGED <<details, picture, saved, press, launches, sweep, time>>
        BY <3>2 DEF PinFails, typedVars, chainVars
      <4>2. CASE pins' = pins /\ saves' = [saves EXCEPT ![i].at = "undo"]
        <5>1. saves' = [saves EXCEPT ![i].at = "undo", ![i].ids = @ \cup {}]
          <6>1. /\ saves[i] \in SaveRequests /\ saves \in Seq(SaveRequests)
            BY SavesTyped DEF DetailsInv, SavesTypeOK
          <6>2. [saves[i] EXCEPT !.at = "undo"] = [saves[i] EXCEPT !.at = "undo", !.ids = @ \cup {}]
            BY <6>1 DEF SaveRequests
          <6> QED BY <4>2, <6>1, <6>2
        <5> QED BY <4>1, <4>2, <5>1, ServiceKeeps DEF ServiceStep
      <4>3. CASE pins' = pins \cup {Pin(i)}
                 /\ \E told \in {{}, {Id(i)}} : saves' = [saves EXCEPT ![i].at = "undo", ![i].ids = @ \cup told]
        BY <4>1, <4>3, ServiceKeeps DEF ServiceStep
      <4> QED BY <3>2, <4>2, <4>3 DEF PinFails
    <3> QED BY <2>9, <3>1, <3>2
  <2>10. ASSUME NEW i \in DOMAIN saves, Undoes(i) PROVE DetailsInv'
    BY <2>10, UndoesKeeps
  <2>11. CASE SweepReads
    <3>1. /\ sweep' = [at |-> "read", inUse |-> FilesInUse, orphans |-> {}]
          /\ UNCHANGED <<details, picture, saved, press, saves, pins, launches, time>>
      BY <2>11 DEF SweepReads, typedVars, pinVars, chainVars
    <3>2. \A l \in launches : l.version \in LaunchpadsRead => l.uri \in FilesInUse
      BY DEF FilesInUse
    <3> QED BY <3>1, <3>2, SweepKeeps
  <2>12. CASE SweepLists
    BY <2>12, SweepListsKeeps
  <2>13. CASE SweepRemoves
    <3> DEFINE id == Min(sweep.orphans)
    <3>1. /\ sweep.at = "removes" /\ sweep.orphans # {} /\ pins' = {p \in pins : p.id # id}
          /\ sweep' = [sweep EXCEPT !.orphans = @ \ {id}]
          /\ UNCHANGED <<details, picture, saved, press, saves, launches, time>>
      BY <2>13 DEF SweepRemoves, typedVars, chainVars
    <3>2. sweep.orphans \subseteq Nat /\ DOMAIN sweep = {"at", "inUse", "orphans"}
      BY SavesTyped DEF DetailsInv, SavesTypeOK
    <3>3. id \in sweep.orphans
      BY <3>1, <3>2, LeastIn
    <3> HIDE DEF id
    <3>4. /\ DOMAIN sweep' = DOMAIN sweep /\ sweep'.at = "removes"
          /\ sweep'.orphans = sweep.orphans \ {id}
      BY <3>1, <3>2
    <3> QED BY <3>1, <3>2, <3>3, <3>4, SweepKeeps
  <2>14. CASE SweepEnds
    <3>1. /\ sweep' = [at |-> "rests", inUse |-> {}, orphans |-> {}]
          /\ UNCHANGED <<details, picture, saved, press, saves, pins, launches, time>>
      BY <2>14 DEF SweepEnds, Resting, typedVars, pinVars, chainVars
    <3> QED BY <3>1, SweepKeeps
  <2>15. CASE Passes
    BY <2>15, PassesKeeps
  <2> QED BY <2>1, <2>2, <2>3, <2>4, <2>5, <2>6, <2>7, <2>8, <2>9, <2>10, <2>11, <2>12, <2>13, <2>14, <2>15
          DEF CNext
<1> QED BY <1>1, <1>2, PTL DEF CSpec

(* A token names what its creator typed, and a token the clean-up reads     *)
(* that was launched within a day of the save keeps its file and its        *)
(* picture, for any launchpads, texts, limits, losses and length of the day. *)
THEOREM DetailsStayKept == CSpec => []DetailsKept
<1>1. DetailsInv => DetailsKept
  <2> SUFFICES ASSUME DetailsInv, NEW l \in launches
      PROVE  /\ l.uri = IF l.details = Nothing /\ l.picture = Nothing THEN <<Nothing>>
                        ELSE File(l.details, l.picture)
             /\ l.version \in LaunchpadsRead /\ l.landed <= l.since + DAY => Kept(l)
    BY DEF DetailsKept, PointsAtWhatWasTyped, DetailsStay
  <2>1. Named(l.details, l.picture, l.uri)
    BY DEF DetailsInv, LaunchesOK
  <2>2. ASSUME l.version \in LaunchpadsRead, l.landed <= l.since + DAY, Some(l.details, l.picture)
        PROVE  Kept(l)
    <3>1. Secure(l.details, l.picture, l.since) /\ l.uri = File(l.details, l.picture)
      BY <2>1, <2>2 DEF DetailsInv, LaunchesOK, Named, Some
    <3> QED BY <3>1 DEF Kept, Secure, AllPinned, ImagePinned, FilePinned
  <2>3. ~Some(l.details, l.picture) => Kept(l)
    BY <2>1 DEF Kept, Named, Some
  <2> QED BY <2>1, <2>2, <2>3 DEF Named
<1> QED BY <1>1, DetailsInvariance, PTL
-----------------------------------------------------------------------------
(* What the launch form lets through is safe: the addresses asked about     *)
(* are all the plan's, so the answers cover every address fees are paid to. *)
-----------------------------------------------------------------------------
(* f lists the addresses among the first n texts of t, each once.           *)
Lists(f, t, n) ==
  f = [i \in 0..n |->
         IF i = 0 THEN <<>>
         ELSE IF IsAddress(t[i]) /\ t[i] \notin ToSet(f[i - 1]) THEN Append(f[i - 1], t[i])
         ELSE f[i - 1]]

LEMMA ListsExists ==
  ASSUME NEW t, NEW n \in Nat
  PROVE  \E f : Lists(f, t, n)
<1> DEFINE Longer(s, i) == IF IsAddress(t[i]) /\ t[i] \notin ToSet(s) THEN Append(s, t[i]) ELSE s
           Good == {m \in Nat : \E f : f = [i \in 0..m |-> IF i = 0 THEN <<>> ELSE Longer(f[i - 1], i)]}
<1> HIDE DEF Longer
<1>1. 0 \in Good
  <2> DEFINE f == [i \in 0..0 |-> <<>>]
  <2>1. f = [i \in 0..0 |-> IF i = 0 THEN <<>> ELSE Longer(f[i - 1], i)]
    OBVIOUS
  <2> HIDE DEF f
  <2> QED BY <2>1
<1>2. ASSUME NEW m \in Nat, m \in Good PROVE m + 1 \in Good
  <2>1. PICK f : f = [i \in 0..m |-> IF i = 0 THEN <<>> ELSE Longer(f[i - 1], i)]
    BY <1>2
  <2> DEFINE g == [i \in 0..(m + 1) |-> IF i = m + 1 THEN Longer(f[m], m + 1) ELSE f[i]]
  <2>2. \A i \in 0..m : f[i] = IF i = 0 THEN <<>> ELSE Longer(f[i - 1], i)
    BY <2>1
  <2>3. \A i \in 0..m : g[i] = f[i] /\ i # m + 1 /\ i \in 0..(m + 1)
    OBVIOUS
  <2>4. \A i \in 0..(m + 1) : g[i] = IF i = 0 THEN <<>> ELSE Longer(g[i - 1], i)
    <3> TAKE i \in 0..(m + 1)
    <3>1. CASE i = m + 1
      <4>1. g[i] = Longer(f[m], m + 1) /\ g[m] = f[m] /\ i - 1 = m /\ i # 0
        BY <2>3, <3>1
      <4> QED BY <3>1, <4>1
    <3>2. CASE i \in 1..m
      <4>1. i - 1 \in 0..m /\ i \in 0..m /\ i # 0
        BY <3>2
      <4> QED BY <2>2, <2>3, <4>1
    <3>3. CASE i = 0
      BY <2>2, <2>3, <3>3
    <3> QED BY <3>1, <3>2, <3>3
  <2>5. g = [i \in 0..(m + 1) |-> IF i = 0 THEN <<>> ELSE Longer(g[i - 1], i)]
    BY <2>4
  <2> HIDE DEF g
  <2> QED BY <2>5
<1> HIDE DEF Good
<1>3. n \in Good
  BY <1>1, <1>2, NatSteps
<1> QED BY <1>3 DEF Good, Lists, Longer

(* What Append adds is in the list, and nothing leaves it. *)
LEMMA AppendedIn ==
  ASSUME NEW S, NEW s \in Seq(S), NEW e \in S
  PROVE  Append(s, e) \in Seq(S) /\ ToSet(Append(s, e)) = ToSet(s) \cup {e}
<1>1. /\ Append(s, e) \in Seq(S) /\ Len(s) \in Nat /\ DOMAIN s = 1..Len(s)
      /\ DOMAIN Append(s, e) = 1..(Len(s) + 1)
      /\ \A i \in 1..Len(s) : Append(s, e)[i] = s[i]
      /\ Append(s, e)[Len(s) + 1] = e
  BY AppendProperties, LenProperties
<1> QED BY <1>1 DEF ToSet

(* Every address of a list of texts is listed. *)
LEMMA ListedAll ==
  ASSUME NEW S, NEW t \in Seq(S), NEW f, Lists(f, t, Len(t))
  PROVE  /\ f[Len(t)] \in Seq(S)
         /\ \A i \in DOMAIN t : IsAddress(t[i]) => t[i] \in ToSet(f[Len(t)])
<1> DEFINE n == Len(t)
           Good == {m \in Nat : m <= n => /\ f[m] \in Seq(S)
                                          /\ \A i \in 1..m : IsAddress(t[i]) => t[i] \in ToSet(f[m])}
<1>0. n \in Nat /\ DOMAIN t = 1..n /\ \A i \in 1..n : t[i] \in S
  BY LenProperties, ElementOfSeq
<1> HIDE DEF n
<1>1. \A i \in 0..n : f[i] = IF i = 0 THEN <<>>
                             ELSE IF IsAddress(t[i]) /\ t[i] \notin ToSet(f[i - 1]) THEN Append(f[i - 1], t[i])
                             ELSE f[i - 1]
  <2>1. f = [i \in 0..n |-> IF i = 0 THEN <<>>
                            ELSE IF IsAddress(t[i]) /\ t[i] \notin ToSet(f[i - 1]) THEN Append(f[i - 1], t[i])
                            ELSE f[i - 1]]
    BY DEF Lists, n
  <2> QED BY <2>1
<1>2. 0 \in Good
  <2>1. f[0] = <<>>
    BY <1>0, <1>1
  <2>2. 1..0 = {}
    OBVIOUS
  <2> QED BY <2>1, <2>2, EmptySeq
<1>3. ASSUME NEW m \in Nat, m \in Good PROVE m + 1 \in Good
  <2> SUFFICES ASSUME m + 1 <= n
      PROVE  /\ f[m + 1] \in Seq(S)
             /\ \A i \in 1..(m + 1) : IsAddress(t[i]) => t[i] \in ToSet(f[m + 1])
    OBVIOUS
  <2>1. /\ m <= n /\ m + 1 \in 0..n /\ m + 1 # 0 /\ (m + 1) - 1 = m /\ m + 1 \in 1..n
        /\ \A i \in 1..(m + 1) : i \in 1..m \/ i = m + 1
    BY <1>0
  <2>2. /\ f[m] \in Seq(S) /\ t[m + 1] \in S
        /\ \A i \in 1..m : IsAddress(t[i]) => t[i] \in ToSet(f[m])
    BY <1>0, <1>3, <2>1
  <2>3. f[m + 1] = IF IsAddress(t[m + 1]) /\ t[m + 1] \notin ToSet(f[m]) THEN Append(f[m], t[m + 1]) ELSE f[m]
    BY <1>1, <2>1
  <2>4. /\ Append(f[m], t[m + 1]) \in Seq(S)
        /\ ToSet(Append(f[m], t[m + 1])) = ToSet(f[m]) \cup {t[m + 1]}
    BY <2>2, AppendedIn
  <2> HIDE DEF Good
  <2> QED BY <2>1, <2>2, <2>3, <2>4
<1> HIDE DEF Good
<1>4. n \in Good
  BY <1>0, <1>2, <1>3, NatSteps
<1> QED BY <1>0, <1>4 DEF Good, n

(* The list of addresses asked about. *)
LEMMA AskedAll ==
  ASSUME NEW S, NEW p, PlanAddresses(p) \in Seq(S)
  PROVE  \A i \in DOMAIN PlanAddresses(p) :
           IsAddress(PlanAddresses(p)[i]) => PlanAddresses(p)[i] \in ToSet(AskedAbout(p))
<1> DEFINE t == PlanAddresses(p)
           f == CHOOSE g : Lists(g, t, Len(t))
<1>1. AskedAbout(p) = f[Len(t)]
  BY DEF AskedAbout, Lists
<1>2. Len(t) \in Nat
  BY LenProperties
<1> HIDE DEF t
<1>3. Lists(f, t, Len(t))
  BY <1>2, ListsExists
<1> HIDE DEF f
<1>4. t \in Seq(S)
  BY DEF t
<1> QED BY <1>1, <1>3, <1>4, ListedAll DEF t

(* f strings together the first lists of a sequence of lists.               *)
Strings(f, seqs) ==
  f = [i \in 1..Len(seqs) |-> IF i = 1 THEN seqs[i] ELSE f[i - 1] \o seqs[i]]

LEMMA StringsExists ==
  ASSUME NEW seqs, Len(seqs) \in Nat
  PROVE  \E f : Strings(f, seqs)
<1> DEFINE Joined(r, i) == r \o seqs[i]
           Good == {m \in Nat : \E f : f = [i \in 1..m |-> IF i = 1 THEN seqs[i] ELSE Joined(f[i - 1], i)]}
<1> HIDE DEF Joined
<1>1. 0 \in Good
  <2> DEFINE f == [i \in 1..0 |-> <<>>]
  <2>0. 1..0 = {}
    OBVIOUS
  <2>1. f = [i \in 1..0 |-> IF i = 1 THEN seqs[i] ELSE Joined(f[i - 1], i)]
    BY <2>0
  <2> HIDE DEF f
  <2> QED BY <2>1
<1>2. ASSUME NEW m \in Nat, m \in Good PROVE m + 1 \in Good
  <2>1. PICK f : f = [i \in 1..m |-> IF i = 1 THEN seqs[i] ELSE Joined(f[i - 1], i)]
    BY <1>2
  <2> DEFINE last == IF m + 1 = 1 THEN seqs[m + 1] ELSE Joined(f[m], m + 1)
             g == [i \in 1..(m + 1) |-> IF i = m + 1 THEN last ELSE f[i]]
  <2>2. \A i \in 1..m : f[i] = IF i = 1 THEN seqs[i] ELSE Joined(f[i - 1], i)
    BY <2>1
  <2>3. \A i \in 1..m : g[i] = f[i] /\ i # m + 1 /\ i \in 1..(m + 1)
    OBVIOUS
  <2>4. \A i \in 1..(m + 1) : g[i] = IF i = 1 THEN seqs[i] ELSE Joined(g[i - 1], i)
    <3> TAKE i \in 1..(m + 1)
    <3>1. CASE i = m + 1
      <4>1. g[i] = last /\ i - 1 = m
        BY <3>1
      <4>2. m # 0 => g[m] = f[m]
        BY <2>3
      <4>3. i = 1 <=> m = 0
        BY <3>1
      <4> HIDE DEF g
      <4> QED BY <3>1, <4>1, <4>2, <4>3
    <3>2. CASE i \in 1..m
      <4>1. i # 1 => i - 1 \in 1..m
        BY <3>2
      <4> HIDE DEF g, last
      <4> QED BY <2>2, <2>3, <3>2, <4>1
    <3> QED BY <3>1, <3>2
  <2>5. g = [i \in 1..(m + 1) |-> IF i = 1 THEN seqs[i] ELSE Joined(g[i - 1], i)]
    BY <2>4
  <2> HIDE DEF g
  <2> QED BY <2>5
<1> HIDE DEF Good
<1>3. Len(seqs) \in Good
  BY <1>1, <1>2, NatSteps
<1> QED BY <1>3 DEF Good, Strings, Joined

(* What is strung together holds what each part holds. *)
LEMMA JoinedIn ==
  ASSUME NEW S, NEW s \in Seq(S), NEW r \in Seq(S)
  PROVE  s \o r \in Seq(S) /\ ToSet(s \o r) = ToSet(s) \cup ToSet(r)
<1>1. /\ s \o r \in Seq(S) /\ Len(s) \in Nat /\ Len(r) \in Nat
      /\ DOMAIN s = 1..Len(s) /\ DOMAIN r = 1..Len(r)
      /\ DOMAIN (s \o r) = 1..(Len(s) + Len(r))
      /\ \A i \in 1..(Len(s) + Len(r)) :
           (s \o r)[i] = IF i <= Len(s) THEN s[i] ELSE r[i - Len(s)]
  BY ConcatProperties, LenProperties
<1>2. ToSet(s \o r) \subseteq ToSet(s) \cup ToSet(r)
  BY <1>1 DEF ToSet
<1>3. ToSet(s) \subseteq ToSet(s \o r)
  BY <1>1 DEF ToSet
<1>4. ASSUME NEW i \in 1..Len(r) PROVE r[i] \in ToSet(s \o r)
  <2>1. /\ Len(s) + i \in 1..(Len(s) + Len(r)) /\ (Len(s) + i) - Len(s) = i /\ ~(Len(s) + i <= Len(s))
    BY <1>1
  <2>2. (s \o r)[Len(s) + i] = r[i]
    BY <1>1, <2>1
  <2> QED BY <1>1, <2>1, <2>2 DEF ToSet
<1> QED BY <1>1, <1>2, <1>3, <1>4 DEF ToSet

LEMMA FlattenedAll ==
  ASSUME NEW S, NEW seqs \in Seq(Seq(S))
  PROVE  /\ FlattenSeq(seqs) \in Seq(S)
         /\ \A i \in DOMAIN seqs : ToSet(seqs[i]) \subseteq ToSet(FlattenSeq(seqs))
<1> DEFINE n == Len(seqs)
           f == CHOOSE g : Strings(g, seqs)
           Good == {m \in Nat : m \in 1..n => /\ f[m] \in Seq(S)
                                              /\ \A i \in 1..m : ToSet(seqs[i]) \subseteq ToSet(f[m])}
<1>0. n \in Nat /\ DOMAIN seqs = 1..n /\ \A i \in 1..n : seqs[i] \in Seq(S)
  BY LenProperties, ElementOfSeq
<1>1. FlattenSeq(seqs) = IF n = 0 THEN seqs ELSE f[n]
  BY DEF FlattenSeq, Strings
<1>2. Strings(f, seqs)
  BY <1>0, StringsExists
<1> HIDE DEF f, n
<1>3. \A i \in 1..n : f[i] = IF i = 1 THEN seqs[i] ELSE f[i - 1] \o seqs[i]
  <2>1. f = [i \in 1..n |-> IF i = 1 THEN seqs[i] ELSE f[i - 1] \o seqs[i]]
    BY <1>2 DEF Strings, n
  <2> QED BY <2>1
<1>4. 0 \in Good
  OBVIOUS
<1>5. ASSUME NEW m \in Nat, m \in Good PROVE m + 1 \in Good
  <2> SUFFICES ASSUME m + 1 \in 1..n
      PROVE  /\ f[m + 1] \in Seq(S)
             /\ \A i \in 1..(m + 1) : ToSet(seqs[i]) \subseteq ToSet(f[m + 1])
    OBVIOUS
  <2>1. seqs[m + 1] \in Seq(S)
    BY <1>0
  <2>2. CASE m = 0
    <3>1. f[m + 1] = seqs[m + 1] /\ \A i \in 1..(m + 1) : i = m + 1
      BY <1>3, <2>2
    <3> QED BY <2>1, <3>1
  <2>3. CASE m # 0
    <3>1. m \in 1..n /\ m + 1 # 1 /\ (m + 1) - 1 = m /\ \A i \in 1..(m + 1) : i \in 1..m \/ i = m + 1
      BY <1>0, <2>3
    <3>2. f[m] \in Seq(S) /\ \A i \in 1..m : ToSet(seqs[i]) \subseteq ToSet(f[m])
      BY <1>5, <3>1
    <3>3. f[m + 1] = f[m] \o seqs[m + 1]
      BY <1>3, <3>1
    <3>4. /\ f[m] \o seqs[m + 1] \in Seq(S)
          /\ ToSet(f[m] \o seqs[m + 1]) = ToSet(f[m]) \cup ToSet(seqs[m + 1])
      BY <2>1, <3>2, JoinedIn
    <3> HIDE DEF Good
    <3> QED BY <3>1, <3>2, <3>3, <3>4
  <2> QED BY <2>2, <2>3
<1> HIDE DEF Good
<1>6. n \in Good
  BY <1>0, <1>4, <1>5, NatSteps
<1>7. CASE n = 0
  <2>1. seqs = <<>>
    BY <1>7, EmptySeq DEF n
  <2>2. 1..0 = {}
    OBVIOUS
  <2> QED BY <1>0, <1>1, <1>7, <2>1, <2>2, EmptySeq
<1>8. CASE n # 0
  <2>1. n \in 1..n
    BY <1>0, <1>8
  <2> QED BY <1>0, <1>1, <1>6, <1>8, <2>1 DEF Good
<1> QED BY <1>7, <1>8

-----------------------------------------------------------------------------
(* Plans stay plans, whatever is edited. *)
Payees == [address : Fields, share : Nat]
Entries == [target : Targets(Fields), percent : Nat \cup {Unread}]
SimpleKinds == {"wallet", "custom", "split", "deepen", "buyback", "holders"}
Unstarted == [kind |-> Nothing]

PlansTypeOK ==
  /\ plan \in Plans(Fields)
  /\ drafts \in [{"wallet", "custom"} \cup Listed -> Plans(Fields) \cup {Unstarted}]

LEMMA EmptyIsTarget ==
  ASSUME NEW k \in SimpleKinds
  PROVE  EmptyTarget(k, Creator) \in Targets(Fields)
<1>1. <<[address |-> Creator, share |-> 1]>> \in Seq([address : Fields, share : Nat])
  <2>1. [address |-> Creator, share |-> 1] \in [address : Fields, share : Nat]
    BY DEF Fields
  <2> QED BY <2>1
<1>2. TOTAL_BPS \div 2 \in Nat
  <2>1. TOTAL_BPS \in Nat
    BY PlansAssumption
  <2> QED BY <2>1
<1>3. "" \in Fields
  BY DEF Fields
<1>4. CASE k \in {"wallet", "custom"}
  BY <1>3, <1>4 DEF EmptyTarget, Targets
<1>5. CASE k = "split"
  BY <1>1, <1>5 DEF EmptyTarget, Targets
<1>6. CASE k = "deepen"
  BY <1>2, <1>6 DEF EmptyTarget, Targets
<1>7. CASE k \in {"buyback", "holders"}
  BY <1>7 DEF EmptyTarget, Targets
<1> QED BY <1>4, <1>5, <1>6, <1>7 DEF SimpleKinds

LEMMA InitialIsPlan ==
  ASSUME NEW k \in {"wallet", "custom"} \cup Listed
  PROVE  InitialPlan(k, Creator) \in Plans(Fields)
<1> DEFINE second == CASE Available("buyback") -> "buyback"
                       [] ~Available("buyback") /\ Available("holders") -> "holders"
                       [] OTHER -> "custom"
           Half(x) == [target |-> EmptyTarget(x, Creator), percent |-> TOTAL_BPS \div 2]
<1>1. TOTAL_BPS \div 2 \in Nat
  <2>1. TOTAL_BPS \in Nat
    BY PlansAssumption
  <2> QED BY <2>1
<1>2. second \in SimpleKinds /\ "wallet" \in SimpleKinds
  BY DEF SimpleKinds
<1> HIDE DEF second
<1>3. Half("wallet") \in Entries /\ Half(second) \in Entries
  BY <1>1, <1>2, EmptyIsTarget DEF Entries
<1>4. InitialPlan(k, Creator) = IF k = "combo" THEN [kind |-> k, entries |-> <<Half("wallet"), Half(second)>>]
                                ELSE EmptyTarget(k, Creator)
  BY DEF InitialPlan, second
<1> HIDE DEF Half
<1>5. <<Half("wallet"), Half(second)>> \in Seq(Entries)
  BY <1>3
<1>6. CASE k = "combo"
  BY <1>4, <1>5, <1>6 DEF Plans, Entries
<1>7. CASE k # "combo"
  <2>1. k \in SimpleKinds
    BY <1>7 DEF SimpleKinds, Listed
  <2> QED BY <1>4, <1>7, <2>1, EmptyIsTarget DEF Plans
<1> QED BY <1>6, <1>7

LEMMA RemovedIn ==
  ASSUME NEW S, NEW s \in Seq(S), NEW i \in DOMAIN s
  PROVE  RemoveAt(s, i) \in Seq(S)
<1>1. Len(s) \in Nat /\ DOMAIN s = 1..Len(s) /\ \A j \in 1..Len(s) : s[j] \in S
  BY LenProperties, ElementOfSeq
<1>2. SubSeq(s, 1, i - 1) \in Seq(S)
  BY <1>1, SubSeqProperties
<1>3. SubSeq(s, i + 1, Len(s)) \in Seq(S)
  BY <1>1, SubSeqProperties
<1> QED BY <1>2, <1>3, ConcatProperties DEF RemoveAt

LEMMA ReplacedIn ==
  ASSUME NEW S, NEW s \in Seq(S), NEW i \in DOMAIN s, NEW x \in S
  PROVE  [s EXCEPT ![i] = x] \in Seq(S)
BY ExceptSeq

LEMMA PayeesStay ==
  ASSUME NEW payees \in Seq(Payees), NEW p \in PayeesEdited(payees)
  PROVE  p \in Seq(Payees)
<1>1. \A i \in DOMAIN payees : payees[i] \in Payees
  BY LenProperties, ElementOfSeq
<1>2. ASSUME NEW i \in DOMAIN payees, NEW x \in Texts, p = [payees EXCEPT ![i].address = x]
      PROVE  p \in Seq(Payees)
  <2>1. [payees[i] EXCEPT !.address = x] \in Payees
    BY <1>1 DEF Payees, Fields
  <2>2. p = [payees EXCEPT ![i] = [payees[i] EXCEPT !.address = x]]
    BY <1>2
  <2> QED BY <2>1, <2>2, ReplacedIn
<1>3. ASSUME NEW i \in DOMAIN payees, NEW n \in 0..MAX_SHARE, p = [payees EXCEPT ![i].share = n]
      PROVE  p \in Seq(Payees)
  <2>1. [payees[i] EXCEPT !.share = n] \in Payees
    BY <1>1, PlansAssumption DEF Payees
  <2>2. p = [payees EXCEPT ![i] = [payees[i] EXCEPT !.share = n]]
    BY <1>3
  <2> QED BY <2>1, <2>2, ReplacedIn
<1>4. Append(payees, [address |-> "", share |-> 1]) \in Seq(Payees)
  <2>1. [address |-> "", share |-> 1] \in Payees
    BY DEF Payees, Fields
  <2> QED BY <2>1, AppendProperties
<1>5. \A i \in DOMAIN payees : RemoveAt(payees, i) \in Seq(Payees)
  BY RemovedIn
<1>6. \/ \E i \in DOMAIN payees : \E x \in Texts : p = [payees EXCEPT ![i].address = x]
      \/ \E i \in DOMAIN payees : \E n \in 0..MAX_SHARE : p = [payees EXCEPT ![i].share = n]
      \/ p = Append(payees, [address |-> "", share |-> 1])
      \/ \E i \in DOMAIN payees : p = RemoveAt(payees, i)
  <2>1. ASSUME NEW i \in DOMAIN payees, p \in PayeeEdits(payees, i)
        PROVE  \/ \E x \in Texts : p = [payees EXCEPT ![i].address = x]
               \/ \E n \in 0..MAX_SHARE : p = [payees EXCEPT ![i].share = n]
               \/ p = RemoveAt(payees, i)
    BY <2>1, Zenon DEF PayeeEdits
  <2>2. \/ \E i \in DOMAIN payees : p \in PayeeEdits(payees, i)
        \/ p = Append(payees, [address |-> "", share |-> 1])
    BY DEF PayeesEdited
  <2> QED BY <2>1, <2>2, Zenon
<1> QED BY <1>2, <1>3, <1>4, <1>5, <1>6

LEMMA TargetsStay ==
  ASSUME NEW t \in Targets(Fields), NEW e \in TargetsEdited(t)
  PROVE  e \in Targets(Fields)
<1>1. CASE t.kind \in {"wallet", "custom"}
  <2>1. t \in [kind : {"wallet", "custom"}, address : Fields]
    BY <1>1 DEF Targets
  <2>2. PICK x \in Texts : e = [t EXCEPT !.address = x]
    BY <1>1 DEF TargetsEdited
  <2>3. e \in [kind : {"wallet", "custom"}, address : Fields]
    BY <2>1, <2>2 DEF Fields
  <2> QED BY <2>3 DEF Targets
<1>2. CASE t.kind = "split"
  <2>1. t \in [kind : {"split"}, payees : Seq(Payees)]
    BY <1>2 DEF Targets, Payees
  <2>2. PICK p \in PayeesEdited(t.payees) : e = [t EXCEPT !.payees = p]
    BY <1>2 DEF TargetsEdited
  <2>3. p \in Seq(Payees)
    BY <2>1, PayeesStay
  <2>4. e \in [kind : {"split"}, payees : Seq(Payees)]
    BY <2>1, <2>2, <2>3
  <2> QED BY <2>4 DEF Targets, Payees
<1>3. CASE t.kind = "deepen"
  <2>1. t \in [kind : {"deepen"}, burnShare : Nat \cup {Unread}]
    BY <1>3 DEF Targets
  <2>2. PICK n \in {Unread, 0, TOTAL_BPS + 1} : e = [t EXCEPT !.burnShare = n]
    BY <1>3 DEF TargetsEdited
  <2>3. n \in Nat \cup {Unread}
    <3>1. TOTAL_BPS \in Nat
      BY PlansAssumption
    <3> QED BY <2>2, <3>1
  <2>4. e \in [kind : {"deepen"}, burnShare : Nat \cup {Unread}]
    BY <2>1, <2>2, <2>3
  <2> QED BY <2>4 DEF Targets
<1> QED BY <1>1, <1>2, <1>3 DEF Targets, TargetsEdited

(* What is left to give away is a number. *)
LEMMA FoldIsSum ==
  ASSUME NEW entries
  PROVE  FoldSeq(LAMBDA e, sum : Max({e.percent, 0}) + sum, 0, entries)
           = SumOver(DOMAIN entries, [i \in DOMAIN entries |-> Max({entries[i].percent, 0})])
<1> DEFINE S == DOMAIN entries
           v == [i \in S |-> Max({entries[i].percent, 0})]
           F(f) == [s \in SUBSET S |-> IF s = {} THEN 0
                                       ELSE Max({entries[CHOOSE x \in s : TRUE].percent, 0})
                                              + f[s \ {CHOOSE x \in s : TRUE}]]
           A(f) == [s \in SUBSET S |-> IF s = {} THEN 0 ELSE v[Pick(s)] + f[s \ {Pick(s)}]]
<1>1. FoldSeq(LAMBDA e, sum : Max({e.percent, 0}) + sum, 0, entries) = (CHOOSE f : f = F(f))[S]
  BY DEF FoldSeq, FoldFunction, FoldFunctionOnSet, MapThenFoldSet
<1>2. SumOver(S, v) = (CHOOSE f : f = A(f))[S]
  BY SumIs DEF Adds
<1>3. \A f : F(f) = A(f)
  <2> TAKE f
  <2>1. \A s \in SUBSET S : s # {} => Pick(s) \in S /\ v[Pick(s)] = Max({entries[Pick(s)].percent, 0})
    BY PickIn
  <2> QED BY <2>1 DEF Pick
<1> HIDE DEF F, A
<1>4. (CHOOSE f : f = F(f)) = (CHOOSE f : f = A(f))
  BY <1>3
<1> QED BY <1>1, <1>2, <1>4

LEMMA GreaterIsOne == ASSUME NEW a \in Int, NEW b \in Int PROVE Max({a, b}) \in {a, b} /\ Max({a, b}) >= b
<1>1. \E x \in {a, b} : \A y \in {a, b} : x >= y
  BY a <= b \/ b <= a
<1> DEFINE m == CHOOSE x \in {a, b} : \A y \in {a, b} : x >= y
<1>2. m \in {a, b} /\ \A y \in {a, b} : m >= y
  BY <1>1
<1>3. Max({a, b}) = m
  BY DEF Max
<1> QED BY <1>2, <1>3

LEMMA RemainingNat ==
  ASSUME NEW entries \in Seq(Entries)
  PROVE  Remaining(entries) \in Nat
<1> DEFINE S == DOMAIN entries
           v == [i \in S |-> Max({entries[i].percent, 0})]
           n == SumOver(S, v)
<1>1. S = 1..Len(entries) /\ Len(entries) \in Nat /\ \A i \in S : entries[i] \in Entries
  BY LenProperties, ElementOfSeq
<1>2. IsFiniteSet(S)
  BY <1>1, FS_Interval
<1>3. \A i \in S : entries[i].percent \in Int
  BY <1>1 DEF Entries, Unread
<1>4. \A i \in S : v[i] \in Int
  <2> TAKE i \in S
  <2>1. Max({entries[i].percent, 0}) \in {entries[i].percent, 0}
    <3> DEFINE x == entries[i].percent
    <3>1. x \in Int /\ 0 \in Int
      BY <1>3
    <3> HIDE DEF x
    <3>2. Max({x, 0}) \in {x, 0}
      BY <3>1, GreaterIsOne
    <3> QED BY <3>2 DEF x
  <2>2. v[i] = Max({entries[i].percent, 0})
    OBVIOUS
  <2> HIDE DEF v
  <2> QED BY <1>3, <2>1, <2>2
<1> HIDE DEF v, S
<1>5. n \in Int
  BY <1>2, <1>4, SumInt
<1>6. Remaining(entries) = Max({0, TOTAL_BPS - n})
  BY FoldIsSum DEF Remaining, n, v, S
<1> HIDE DEF n
<1>7. TOTAL_BPS \in Nat
  BY PlansAssumption
<1>8. Max({TOTAL_BPS - n, 0}) \in {TOTAL_BPS - n, 0} /\ Max({TOTAL_BPS - n, 0}) >= 0
  BY <1>5, <1>7, GreaterIsOne
<1>9. {TOTAL_BPS - n, 0} = {0, TOTAL_BPS - n}
  OBVIOUS
<1> QED BY <1>5, <1>6, <1>7, <1>8, <1>9

LEMMA AddedKind == \A entries : AddKind(entries) \in SimpleKinds
<1> TAKE entries
<1> DEFINE free == {i \in DOMAIN EntryKinds :
                      Available(EntryKinds[i]) /\ EntryKinds[i] \notin UsedListed(entries)}
<1>1. DOMAIN EntryKinds = 1..6 /\ \A i \in 1..6 : EntryKinds[i] \in SimpleKinds
  BY DEF EntryKinds, SimpleKinds
<1>2. AddKind(entries) = IF free = {} THEN "custom" ELSE EntryKinds[Min(free)]
  BY DEF AddKind
<1>3. free \subseteq 1..6
  BY <1>1
<1> HIDE DEF free
<1>4. free # {} => Min(free) \in free
  <2> SUFFICES ASSUME free # {} PROVE Min(free) \in free
    OBVIOUS
  <2>0. free \subseteq Nat
    BY <1>3
  <2>1. \E x \in free : \A y \in free : x <= y
    BY <2>0, HasFirst
  <2> QED BY <2>1 DEF Min
<1> QED BY <1>1, <1>2, <1>3, <1>4 DEF SimpleKinds

LEMMA EntriesStay ==
  ASSUME NEW entries \in Seq(Entries), NEW e \in EntriesEdited(entries)
  PROVE  e \in Seq(Entries)
<1>1. \A i \in DOMAIN entries : entries[i] \in Entries
  BY LenProperties, ElementOfSeq
<1>2. ASSUME NEW i \in DOMAIN entries, NEW t \in Targets(Fields), e = [entries EXCEPT ![i].target = t]
      PROVE  e \in Seq(Entries)
  <2>1. [entries[i] EXCEPT !.target = t] \in Entries
    BY <1>1 DEF Entries
  <2>2. e = [entries EXCEPT ![i] = [entries[i] EXCEPT !.target = t]]
    BY <1>2
  <2> QED BY <2>1, <2>2, ReplacedIn
<1>3. ASSUME NEW i \in DOMAIN entries, NEW n \in Unread..TOTAL_BPS, e = [entries EXCEPT ![i].percent = n]
      PROVE  e \in Seq(Entries)
  <2>1. n \in Nat \cup {Unread}
    BY PlansAssumption DEF Unread
  <2>2. [entries[i] EXCEPT !.percent = n] \in Entries
    BY <1>1, <2>1 DEF Entries
  <2>3. e = [entries EXCEPT ![i] = [entries[i] EXCEPT !.percent = n]]
    BY <1>3
  <2> QED BY <2>2, <2>3, ReplacedIn
<1>4. \A i \in DOMAIN entries : \A t \in TargetsEdited(entries[i].target) : t \in Targets(Fields)
  <2> TAKE i \in DOMAIN entries
  <2>1. entries[i].target \in Targets(Fields)
    BY <1>1 DEF Entries
  <2> QED BY <2>1, TargetsStay
<1>5. \A i \in DOMAIN entries : \A k \in EntryChoices(entries, i) : EmptyTarget(k, Creator) \in Targets(Fields)
  <2> TAKE i \in DOMAIN entries
  <2> TAKE k \in EntryChoices(entries, i)
  <2>1. k \in SimpleKinds
    BY DEF EntryChoices, EntryKinds, ToSet, SimpleKinds
  <2> QED BY <2>1, EmptyIsTarget
<1>6. \A j \in DOMAIN entries : RemoveAt(entries, j) \in Seq(Entries)
  BY RemovedIn
<1>7. Append(entries, [target |-> EmptyTarget(AddKind(entries), Creator), percent |-> Remaining(entries)])
        \in Seq(Entries)
  <2>1. [target |-> EmptyTarget(AddKind(entries), Creator), percent |-> Remaining(entries)] \in Entries
    BY AddedKind, EmptyIsTarget, RemainingNat DEF Entries
  <2> QED BY <2>1, AppendProperties
<1>8. \/ \E i \in DOMAIN entries :
           \/ \E t \in TargetsEdited(entries[i].target) : e = [entries EXCEPT ![i].target = t]
           \/ \E k \in EntryChoices(entries, i) : e = [entries EXCEPT ![i].target = EmptyTarget(k, Creator)]
           \/ \E n \in Unread..TOTAL_BPS : e = [entries EXCEPT ![i].percent = n]
           \/ \E j \in {k \in {i} : Len(entries) > 1} : e = RemoveAt(entries, j)
      \/ e = Append(entries, [target |-> EmptyTarget(AddKind(entries), Creator), percent |-> Remaining(entries)])
  <2>1. ASSUME NEW i \in DOMAIN entries, e \in EntryEdits(entries, i)
        PROVE  \/ \E t \in TargetsEdited(entries[i].target) : e = [entries EXCEPT ![i].target = t]
               \/ \E k \in EntryChoices(entries, i) : e = [entries EXCEPT ![i].target = EmptyTarget(k, Creator)]
               \/ \E n \in Unread..TOTAL_BPS : e = [entries EXCEPT ![i].percent = n]
               \/ \E j \in {k \in {i} : Len(entries) > 1} : e = RemoveAt(entries, j)
    BY <2>1, Zenon DEF EntryEdits
  <2>2. \/ \E i \in DOMAIN entries : e \in EntryEdits(entries, i)
        \/ e = Append(entries, [target |-> EmptyTarget(AddKind(entries), Creator), percent |-> Remaining(entries)])
    BY DEF EntriesEdited
  <2> QED BY <2>1, <2>2, Zenon
<1> QED BY <1>2, <1>3, <1>4, <1>5, <1>6, <1>7, <1>8

-----------------------------------------------------------------------------
(* What the page knows of the addresses typed. *)
Typed == ToSet(PlanAddresses(plan))
Own == AskedAbout(plan) = <<>> \/ answered = AskedAbout(plan)

(* An address's answers say what the chain has there, or are awaited.       *)
ToldOf(a, facts) ==
  \/ a \in facts.unchecked
  \/ /\ a \in Chain.pools => a \in facts.pools
     /\ a \in Chain.tokens => a \in facts.tokens
     /\ a \in Chain.plugins => a \in facts.plugins

LEMMA TypedTexts ==
  ASSUME NEW t \in Targets(Fields)
  PROVE  TypedIn(t) \in Seq(Fields)
<1>1. CASE t.kind \in {"wallet", "custom"}
  <2>1. t.address \in Fields
    BY <1>1 DEF Targets
  <2>2. <<t.address>> \in Seq(Fields)
    BY <2>1
  <2> QED BY <1>1, <2>2 DEF TypedIn
<1>2. CASE t.kind = "split"
  <2>1. t.payees \in Seq(Payees)
    BY <1>2 DEF Targets, Payees
  <2>2. /\ DOMAIN t.payees = 1..Len(t.payees) /\ Len(t.payees) \in Nat
        /\ \A i \in 1..Len(t.payees) : t.payees[i] \in Payees
    BY <2>1, LenProperties, ElementOfSeq
  <2>3. \A i \in 1..Len(t.payees) : t.payees[i].address \in Fields
    BY <2>2 DEF Payees
  <2>4. [i \in 1..Len(t.payees) |-> t.payees[i].address] \in Seq(Fields)
    BY <2>2, <2>3
  <2>5. TypedIn(t) = [i \in DOMAIN t.payees |-> t.payees[i].address]
    BY <1>2 DEF TypedIn
  <2> QED BY <2>2, <2>4, <2>5
<1>3. CASE t.kind \notin {"wallet", "custom", "split"}
  <2>1. TypedIn(t) = <<>>
    BY <1>3 DEF TypedIn
  <2> QED BY <2>1
<1> QED BY <1>1, <1>2, <1>3

LEMMA PlanTexts ==
  ASSUME NEW p \in Plans(Fields)
  PROVE  /\ PlanAddresses(p) \in Seq(Fields)
         /\ p.kind = "combo" =>
              \A i \in DOMAIN p.entries : ToSet(TypedIn(p.entries[i].target)) \subseteq ToSet(PlanAddresses(p))
         /\ p.kind # "combo" => PlanAddresses(p) = TypedIn(p)
<1>1. CASE p.kind # "combo"
  <2>1. p \in Targets(Fields)
    BY <1>1 DEF Plans
  <2>2. PlanAddresses(p) = TypedIn(p)
    BY <1>1 DEF PlanAddresses
  <2> QED BY <1>1, <2>1, <2>2, TypedTexts
<1>2. CASE p.kind = "combo"
  <2>1. p.entries \in Seq(Entries)
    BY <1>2 DEF Plans, Targets, Entries
  <2>2. /\ DOMAIN p.entries = 1..Len(p.entries) /\ Len(p.entries) \in Nat
        /\ \A i \in 1..Len(p.entries) : p.entries[i] \in Entries
    BY <2>1, LenProperties, ElementOfSeq
  <2> DEFINE lists == [i \in DOMAIN p.entries |-> TypedIn(p.entries[i].target)]
  <2>3. \A i \in 1..Len(p.entries) : TypedIn(p.entries[i].target) \in Seq(Fields)
    <3> TAKE i \in 1..Len(p.entries)
    <3>1. p.entries[i].target \in Targets(Fields)
      BY <2>2 DEF Entries
    <3> QED BY <3>1, TypedTexts
  <2>4. lists \in Seq(Seq(Fields))
    BY <2>2, <2>3
  <2>5. PlanAddresses(p) = FlattenSeq(lists)
    BY <1>2 DEF PlanAddresses
  <2>6. \A i \in DOMAIN p.entries : lists[i] = TypedIn(p.entries[i].target)
    OBVIOUS
  <2>7. DOMAIN lists = DOMAIN p.entries
    OBVIOUS
  <2> HIDE DEF lists
  <2>8. FlattenSeq(lists) \in Seq(Fields) /\ \A i \in DOMAIN lists : ToSet(lists[i]) \subseteq ToSet(FlattenSeq(lists))
    BY <2>4, FlattenedAll
  <2> QED BY <1>2, <2>5, <2>6, <2>7, <2>8
<1> QED BY <1>1, <1>2

(* With the answers for the plan's own addresses, each was told of. *)
LEMMA FactsTell ==
  ASSUME PlansTypeOK, Own, NEW a \in Typed, IsAddress(a)
  PROVE  ToldOf(a, Facts)
<1> DEFINE asked == AskedAbout(plan)
           Saying(kind) == {asked[i] : i \in {j \in DOMAIN asked \cap DOMAIN answered : answered[j] \in kind}}
<1>1. PlanAddresses(plan) \in Seq(Fields)
  BY PlanTexts DEF PlansTypeOK
<1>2. a \in ToSet(asked)
  <2>1. PICK i \in DOMAIN PlanAddresses(plan) : a = PlanAddresses(plan)[i]
    BY DEF Typed, ToSet
  <2> QED BY <1>1, <2>1, AskedAll
<1>3. /\ Facts.plugins = Saying(Chain.plugins) /\ Facts.pools = Saying(Chain.pools)
      /\ Facts.tokens = Saying(Chain.tokens)
  BY DEF Facts
<1> HIDE DEF asked
<1>4. answered = asked
  <2>1. ToSet(<<>>) = {}
    BY DEF ToSet
  <2> QED BY <1>2, <2>1 DEF Own, asked
<1>5. PICK i \in DOMAIN asked : a = asked[i]
  BY <1>2 DEF ToSet
<1>6. \A kind : a \in kind => a \in Saying(kind)
  BY <1>4, <1>5
<1> HIDE DEF Saying
<1> QED BY <1>3, <1>6 DEF ToldOf

-----------------------------------------------------------------------------
(* What may be paid by plain transfer, by whom ever it is paid. *)
Misplaced == Barred \cup Chain.pools \cup Chain.tokens

LEMMA Payable ==
  ASSUME NEW a, NEW role, NEW facts, ToldOf(a, facts), ~Unpayable(a, role, facts)
  PROVE  /\ a \notin Misplaced \cup Suite
         /\ role = "payee" => a \notin Chain.plugins
BY DEF ToldOf, Unpayable, Misplaced

(* What a destination comes to on chain. *)
SafeTarget(g) ==
  /\ g.plugin \notin Misplaced
  /\ g.plugin = "combo" => "combo" \notin Suite
  /\ g.data.is \in {"empty", "split", "deepen"}
  /\ IF g.plugin \in Chain.plugins THEN OnLaunch(g.plugin, g.data, Chain) ELSE g.data.is = "empty"
  /\ g.data.is = "split" => ToSet(g.data.payees) \cap (Misplaced \cup Chain.plugins) = {}

LEMMA ChainIs ==
  /\ Chain.pools = {"pool"} /\ Chain.tokens = {"token"} /\ Chain.plugins = Suite \cup {"ownPlugin"}
  /\ Suite \subseteq Listed
BY PlansAssumption DEF Chain

LEMMA SplitIsSafe ==
  ASSUME NEW payees \in Seq(Payees), NEW facts, SplitReads(payees, facts), "split" \in Offered,
         \A i \in DOMAIN payees : IsAddress(payees[i].address) => ToldOf(payees[i].address, facts)
  PROVE  SafeTarget(Goes("split", SplitData([i \in DOMAIN payees |-> payees[i].address],
                                            [i \in DOMAIN payees |-> payees[i].share])))
<1> DEFINE names == [i \in DOMAIN payees |-> payees[i].address]
           shares == [i \in DOMAIN payees |-> payees[i].share]
           data == SplitData(names, shares)
<1>1. DOMAIN payees = 1..Len(payees) /\ Len(payees) \in Nat
  BY LenProperties
<1>2. \A i \in DOMAIN payees : /\ names[i] \notin Misplaced \cup Suite \cup Chain.plugins
                               /\ shares[i] > 0
  <2> TAKE i \in DOMAIN payees
  <2>1. IsAddress("") = FALSE
    BY DEF IsAddress
  <2>2. IsAddress(payees[i].address) /\ ~Unpayable(payees[i].address, "payee", facts) /\ ShareReads(payees[i].share)
    BY <2>1 DEF SplitReads, PayableAt, ReadAddress
  <2>3. payees[i].address \notin Misplaced \cup Suite \cup Chain.plugins
    BY <2>2, Payable
  <2>4. payees[i].share > 0
    BY <2>2, PlansAssumption DEF ShareReads
  <2> QED BY <2>3, <2>4
<1>3. Len(names) = Len(payees) /\ Len(shares) = Len(payees)
  BY <1>1
<1>4. IsInjective(names)
  BY DEF SplitReads, IsInjective
<1>5. Len(payees) \in 1..MAX_PAYEES
  BY DEF SplitReads
<1>6. DOMAIN names = DOMAIN payees
  OBVIOUS
<1> HIDE DEF names, shares
<1>7. data.is = "split" /\ data.payees = names /\ data.shares = shares
  BY DEF SplitData
<1>8. "split" \in Suite /\ "split" \in Chain.plugins
  BY ChainIs DEF Offered
<1>9. \A i \in DOMAIN names : Recipient(names[i], "split", Chain)
  BY <1>2, <1>6, <1>8 DEF Recipient, Misplaced, Barred
<1>10. SplitOnLaunch(data, Chain)
  BY <1>2, <1>3, <1>4, <1>5, <1>6, <1>7, <1>9 DEF SplitOnLaunch
<1>11. ToSet(names) \cap (Misplaced \cup Chain.plugins) = {}
  BY <1>2, <1>6 DEF ToSet
<1>12. "split" \notin Misplaced
  BY ChainIs DEF Misplaced, Barred
<1> DEFINE g == Goes("split", data)
<1>13. g.plugin = "split" /\ g.data = data
  BY DEF Goes
<1> HIDE DEF data, g
<1>14. SafeTarget(g)
  BY <1>7, <1>8, <1>10, <1>11, <1>12, <1>13 DEF SafeTarget, OnLaunch
<1> QED BY <1>14 DEF g, data, names, shares

LEMMA TargetIsSafe ==
  ASSUME NEW t \in Targets(Fields), NEW role \in {"plugin", "entry"}, NEW facts,
         \A a \in ToSet(TypedIn(t)) : IsAddress(a) => ToldOf(a, facts),
         PlanTarget(t, role, Creator, facts).ok
  PROVE  SafeTarget(PlanTarget(t, role, Creator, facts))
<1> DEFINE g == PlanTarget(t, role, Creator, facts)
           fallback == IF t.kind = "wallet" THEN Creator ELSE ""
<1>0. Blocked.ok = FALSE
  BY DEF Blocked
<1>1. CASE t.kind \in {"wallet", "custom"}
  <2> DEFINE a == ReadAddress(t.address, fallback)
  <2>1. PayableAt(t.address, fallback, role, facts) /\ g = Goes(a, Empty)
    BY <1>0, <1>1 DEF PlanTarget
  <2>2. IsAddress(a) /\ ~Unpayable(a, role, facts)
    BY <2>1 DEF PayableAt
  <2>3. a \notin Misplaced \cup Suite
    <3>1. CASE t.address = "" /\ t.kind = "wallet"
      <4>1. a = Creator
        BY <3>1 DEF ReadAddress
      <4> QED BY <4>1, CreateAssumption, ChainIs DEF Misplaced
    <3>2. CASE t.address # ""
      <4>1. a = t.address
        BY <3>2 DEF ReadAddress
      <4>2. a \in ToSet(TypedIn(t))
        <5>1. TypedIn(t) = <<t.address>>
          BY <1>1 DEF TypedIn
        <5>2. <<t.address>>[1] = t.address /\ 1 \in DOMAIN <<t.address>>
          OBVIOUS
        <5> QED BY <4>1, <5>1, <5>2 DEF ToSet
      <4> HIDE DEF a
      <4> QED BY <2>2, <4>2, Payable
    <3>3. CASE t.address = "" /\ t.kind = "custom"
      <4>1. a = ""
        BY <3>3 DEF ReadAddress
      <4> QED BY <2>2, <4>1 DEF IsAddress
    <3> QED BY <1>1, <3>1, <3>2, <3>3
  <2> HIDE DEF a, g
  <2>4. g.plugin = a /\ g.data.is = "empty"
    BY <2>1 DEF Goes, Empty
  <2>5. a \in Chain.plugins => OnLaunch(a, g.data, Chain)
    <3> SUFFICES ASSUME a \in Chain.plugins PROVE OnLaunch(a, g.data, Chain)
      OBVIOUS
    <3>1. a = "ownPlugin"
      BY <2>3, ChainIs
    <3> QED BY <2>4, <3>1 DEF OnLaunch
  <2>6. g.plugin = "combo" => "combo" \notin Suite
    BY <2>3, <2>4
  <2>7. SafeTarget(g)
    BY <2>3, <2>4, <2>5, <2>6 DEF SafeTarget
  <2> QED BY <2>7 DEF g
<1>2. CASE t.kind = "split"
  <2>1. t.payees \in Seq(Payees)
    BY <1>2 DEF Targets, Payees
  <2>2. /\ "split" \in Offered /\ SplitReads(t.payees, facts)
        /\ g = Goes("split", SplitData([i \in DOMAIN t.payees |-> t.payees[i].address],
                                       [i \in DOMAIN t.payees |-> t.payees[i].share]))
    BY <1>0, <1>2 DEF PlanTarget
  <2>3. \A i \in DOMAIN t.payees : t.payees[i].address \in ToSet(TypedIn(t))
    BY <1>2 DEF TypedIn, ToSet
  <2>4. \A i \in DOMAIN t.payees : IsAddress(t.payees[i].address) => ToldOf(t.payees[i].address, facts)
    BY <2>3
  <2> HIDE DEF g
  <2>5. SafeTarget(g)
    BY <2>1, <2>2, <2>4, SplitIsSafe
  <2> QED BY <2>5 DEF g
<1>3. CASE t.kind = "deepen"
  <2>1. t.burnShare \in Nat \cup {Unread}
    BY <1>3 DEF Targets
  <2>2. /\ "deepen" \in Offered /\ ReadPercent(t.burnShare, TOTAL_BPS)
        /\ g = Goes("deepen", BurnShareData(t.burnShare))
    BY <1>0, <1>3 DEF PlanTarget
  <2> HIDE DEF g
  <2>3. g.plugin = "deepen" /\ g.data.is = "deepen" /\ g.data.burnBps = t.burnShare
    BY <2>2 DEF Goes, BurnShareData
  <2>4. t.burnShare \in 0..TOTAL_BPS
    BY <2>1, <2>2, PlansAssumption DEF ReadPercent
  <2>5. "deepen" \in Chain.plugins /\ "deepen" \notin Misplaced
    BY <2>2, ChainIs DEF Offered, Misplaced, Barred
  <2>6. OnLaunch("deepen", g.data, Chain)
    BY <2>3, <2>4 DEF OnLaunch, DeepenOnLaunch
  <2>7. SafeTarget(g)
    BY <2>3, <2>5, <2>6 DEF SafeTarget
  <2> QED BY <2>7 DEF g
<1>4. CASE t.kind \in {"buyback", "holders"}
  <2>1. t.kind \in Offered /\ g = Goes(t.kind, Empty)
    BY <1>0, <1>4 DEF PlanTarget
  <2> HIDE DEF g
  <2>2. g.plugin = t.kind /\ g.data.is = "empty"
    BY <2>1 DEF Goes, Empty
  <2>3. t.kind \notin Misplaced
    BY <1>4, ChainIs DEF Misplaced, Barred
  <2>4. OnLaunch(t.kind, g.data, Chain)
    BY <1>4, <2>2 DEF OnLaunch
  <2>5. SafeTarget(g)
    BY <1>4, <2>2, <2>3, <2>4 DEF SafeTarget
  <2> QED BY <2>5 DEF g
<1>5. t.kind \in {"wallet", "custom", "split", "deepen", "buyback", "holders"}
  BY DEF Targets
<1> QED BY <1>1, <1>2, <1>3, <1>4, <1>5

-----------------------------------------------------------------------------
(* The whole plan. *)
Launches(g) == CreateTokenAccepts(g.plugin, g.data, Chain) /\ ~Strands(g.plugin, g.data, Chain)

LEMMA SafeLaunches ==
  ASSUME NEW g, SafeTarget(g)
  PROVE  Launches(g)
<1>1. g.plugin \notin {"zero", "launchpad", "usdc", "router", "pairFactory"} \cup Chain.pools \cup Chain.tokens
  BY DEF SafeTarget, Misplaced, Barred
<1>2. g.plugin \in Chain.plugins => g.plugin # "combo"
  BY ChainIs DEF SafeTarget
<1>3. CreateTokenAccepts(g.plugin, g.data, Chain)
  BY <1>1, <1>2 DEF CreateTokenAccepts, SafeTarget
<1>4. PaidPlainly(g.plugin, g.data, Chain) \cap (Misplaced \cup Chain.plugins) = {}
  <2>1. CASE g.plugin \notin Chain.plugins
    BY <2>1 DEF PaidPlainly, SafeTarget
  <2>2. CASE g.plugin \in Chain.plugins
    <3>1. CASE g.data.is = "split"
      BY <2>2, <3>1 DEF PaidPlainly, SafeTarget
    <3>2. CASE g.data.is # "split"
      <4>1. PaidPlainly(g.plugin, g.data, Chain) = {}
        BY <2>2, <3>2 DEF PaidPlainly, SafeTarget
      <4> QED BY <4>1
    <3> QED BY <3>1, <3>2
  <2> QED BY <2>1, <2>2
<1> QED BY <1>3, <1>4 DEF Launches, Strands, Misplaced

(* The shares of a Combo sum as its entries do. *)
LEMMA BpsSum ==
  ASSUME NEW entries
  PROVE  FoldSeq(+, 0, [i \in DOMAIN entries |-> entries[i].percent])
           = FoldSeq(LAMBDA e, sum : e.percent + sum, 0, entries)
<1> DEFINE S == DOMAIN entries
           v == [i \in S |-> entries[i].percent]
           F(f) == [s \in SUBSET S |-> IF s = {} THEN 0
                                       ELSE entries[CHOOSE x \in s : TRUE].percent + f[s \ {CHOOSE x \in s : TRUE}]]
           A(f) == [s \in SUBSET S |-> IF s = {} THEN 0
                                       ELSE v[CHOOSE x \in s : TRUE] + f[s \ {CHOOSE x \in s : TRUE}]]
<1>1. FoldSeq(LAMBDA e, sum : e.percent + sum, 0, entries) = (CHOOSE f : f = F(f))[S]
  BY DEF FoldSeq, FoldFunction, FoldFunctionOnSet, MapThenFoldSet
<1>2. FoldSeq(+, 0, v) = (CHOOSE f : f = A(f))[S]
  <2>1. DOMAIN v = S
    OBVIOUS
  <2> HIDE DEF v, S
  <2> QED BY <2>1 DEF FoldSeq, FoldFunction, FoldFunctionOnSet, MapThenFoldSet
<1>3. \A f : F(f) = A(f)
  <2> TAKE f
  <2>1. \A s \in SUBSET S : s # {} => Pick(s) \in S /\ v[Pick(s)] = entries[Pick(s)].percent
    BY PickIn
  <2> QED BY <2>1 DEF Pick
<1> HIDE DEF F, A
<1>4. (CHOOSE f : f = F(f)) = (CHOOSE f : f = A(f))
  BY <1>3
<1> QED BY <1>1, <1>2, <1>4

LEMMA ComboIsSafe ==
  ASSUME NEW entries \in Seq(Entries), NEW facts, PlanCombo(entries, Creator, facts).ok,
         \A i \in DOMAIN entries : \A a \in ToSet(TypedIn(entries[i].target)) : IsAddress(a) => ToldOf(a, facts)
  PROVE  Launches(PlanCombo(entries, Creator, facts))
<1> DEFINE g == PlanCombo(entries, Creator, facts)
           targets == [i \in DOMAIN entries |-> PlanTarget(entries[i].target, "entry", Creator, facts)]
           plugins == [i \in DOMAIN targets |-> targets[i].plugin]
           bps == [i \in DOMAIN entries |-> entries[i].percent]
           datas == [i \in DOMAIN targets |-> targets[i].data]
           data == ComboData(plugins, bps, datas)
<1>1. /\ "combo" \in Offered /\ Len(entries) \in 1..MAX_COMBO_ENTRIES
      /\ \A i \in DOMAIN targets : targets[i].ok
      /\ \A i, j \in DOMAIN targets : targets[i].plugin = targets[j].plugin => i = j
      /\ SharesFill(entries)
      /\ g = Goes("combo", data)
  <2>1. Blocked.ok = FALSE
    BY DEF Blocked
  <2> QED BY <2>1 DEF PlanCombo
<1>2. DOMAIN entries = 1..Len(entries) /\ Len(entries) \in Nat /\ \A i \in DOMAIN entries : entries[i] \in Entries
  BY LenProperties, ElementOfSeq
<1>3. \A i \in DOMAIN entries : SafeTarget(targets[i])
  <2> TAKE i \in DOMAIN entries
  <2>1. entries[i].target \in Targets(Fields)
    BY <1>2 DEF Entries
  <2>2. targets[i] = PlanTarget(entries[i].target, "entry", Creator, facts) /\ targets[i].ok
    BY <1>1
  <2> HIDE DEF targets
  <2> QED BY <2>1, <2>2, TargetIsSafe
<1>4. DOMAIN targets = DOMAIN entries /\ DOMAIN plugins = DOMAIN entries /\ DOMAIN bps = DOMAIN entries
      /\ DOMAIN datas = DOMAIN entries
  OBVIOUS
<1>5. \A i \in DOMAIN entries : /\ plugins[i] = targets[i].plugin /\ datas[i] = targets[i].data
                                /\ bps[i] = entries[i].percent
  OBVIOUS
<1>6. Len(plugins) = Len(entries) /\ Len(bps) = Len(entries) /\ Len(datas) = Len(entries)
  BY <1>2
<1>7. FoldSeq(+, 0, bps) = TOTAL_BPS /\ \A i \in DOMAIN entries : entries[i].percent > 0
  BY <1>1, BpsSum DEF SharesFill
<1> HIDE DEF targets, plugins, bps, datas
<1>8. IsInjective(plugins)
  BY <1>1, <1>4, <1>5 DEF IsInjective
<1>9. data.is = "combo" /\ data.targets = plugins /\ data.bps = bps /\ data.datas = datas
  BY DEF ComboData
<1>10. "combo" \in Suite /\ "combo" \in Chain.plugins
  BY <1>1, ChainIs DEF Offered
<1> HIDE DEF g, data
<1>11. g.plugin = "combo" /\ g.data = data
  BY <1>1 DEF Goes
<1>12. ASSUME NEW i \in DOMAIN plugins
       PROVE  /\ Recipient(plugins[i], "combo", Chain) /\ bps[i] > 0
              /\ IF plugins[i] \in Chain.plugins THEN OnLaunch(plugins[i], datas[i], Chain)
                 ELSE datas[i].is = "empty"
  <2>1. SafeTarget(targets[i])
    BY <1>3, <1>4
  <2>2. plugins[i] # "combo" /\ plugins[i] \notin Misplaced
    BY <1>4, <1>5, <1>10, <2>1 DEF SafeTarget
  <2>3. Recipient(plugins[i], "combo", Chain)
    BY <2>2 DEF Recipient, Misplaced, Barred
  <2> QED BY <1>4, <1>5, <1>7, <2>1, <2>3 DEF SafeTarget
<1>13. ComboOnLaunch(data, Chain)
  BY <1>1, <1>6, <1>7, <1>8, <1>9, <1>12 DEF ComboOnLaunch
<1>14. "combo" \notin Misplaced
  BY ChainIs DEF Misplaced, Barred
<1>15. CreateTokenAccepts(g.plugin, g.data, Chain)
  BY <1>10, <1>11, <1>13, <1>14 DEF CreateTokenAccepts, Misplaced, Barred
<1>16. PaidPlainly(g.plugin, g.data, Chain) \cap (Misplaced \cup Chain.plugins) = {}
  <2> DEFINE Paid(i) == IF datas[i].is = "split" THEN ToSet(datas[i].payees) ELSE {plugins[i]} \ Chain.plugins
  <2>1. PaidPlainly(g.plugin, g.data, Chain) = UNION {Paid(i) : i \in DOMAIN plugins}
    BY <1>9, <1>10, <1>11 DEF PaidPlainly
  <2>2. ASSUME NEW i \in DOMAIN plugins PROVE Paid(i) \cap (Misplaced \cup Chain.plugins) = {}
    <3>1. SafeTarget(targets[i])
      BY <1>3, <1>4
    <3> QED BY <1>4, <1>5, <3>1 DEF SafeTarget
  <2> HIDE DEF Paid
  <2> QED BY <2>1, <2>2
<1>17. Launches(g)
  BY <1>15, <1>16 DEF Launches, Strands, Misplaced
<1> QED BY <1>17 DEF g

(* What the form lets through with the answers for its own addresses is     *)
(* accepted on chain, and pays no contract by plain transfer.               *)
LEMMA PlannedIsSafe ==
  ASSUME PlansTypeOK, Own, Planned.ok
  PROVE  Launches(Planned)
<1>1. plan \in Plans(Fields)
  BY DEF PlansTypeOK
<1>2. \A a \in ToSet(PlanAddresses(plan)) : IsAddress(a) => ToldOf(a, Facts)
  BY FactsTell DEF Typed
<1>3. CASE plan.kind = "combo"
  <2>1. plan.entries \in Seq(Entries)
    BY <1>1, <1>3 DEF Plans, Targets, Entries
  <2>2. \A i \in DOMAIN plan.entries : \A a \in ToSet(TypedIn(plan.entries[i].target)) :
          IsAddress(a) => ToldOf(a, Facts)
    BY <1>1, <1>2, <1>3, PlanTexts
  <2>3. Planned = PlanCombo(plan.entries, Creator, Facts)
    BY <1>3 DEF Planned, PlanFeePlugin
  <2>4. PlanCombo(plan.entries, Creator, Facts).ok
    BY <2>3
  <2>5. Launches(PlanCombo(plan.entries, Creator, Facts))
    BY <2>1, <2>2, <2>4, ComboIsSafe
  <2> QED BY <2>3, <2>5
<1>4. CASE plan.kind # "combo"
  <2>1. plan \in Targets(Fields)
    BY <1>1, <1>4 DEF Plans
  <2>2. \A a \in ToSet(TypedIn(plan)) : IsAddress(a) => ToldOf(a, Facts)
    BY <1>1, <1>2, <1>4, PlanTexts
  <2>3. Planned = PlanTarget(plan, "plugin", Creator, Facts)
    BY <1>4 DEF Planned, PlanFeePlugin
  <2>4. PlanTarget(plan, "plugin", Creator, Facts).ok
    BY <2>3
  <2>5. SafeTarget(PlanTarget(plan, "plugin", Creator, Facts))
    BY <2>1, <2>2, <2>4, TargetIsSafe
  <2> QED BY <2>3, <2>5, SafeLaunches
<1> QED BY <1>3, <1>4

-----------------------------------------------------------------------------
(* A press under way that was made with the answers for its own addresses   *)
(* holds a plan that launches safely.                                       *)
PressSafe ==
  press.at \in {"saving", "prompt"} =>
    /\ press.held.own \in BOOLEAN
    /\ press.held.own => Launches(press.held.goes)

AllowedInv == PlansTypeOK /\ PressSafe /\ AllowedIsSafe

LEMMA PickerKeeps ==
  ASSUME PlansTypeOK, Choose \/ Configure
  PROVE  PlansTypeOK'
<1>0. plan \in Plans(Fields) /\ plan.kind \in {"wallet", "custom"} \cup Listed
  BY DEF PlansTypeOK, Plans, Targets, Listed
<1>1. CASE Choose
  <2>1. PICK kind \in {"wallet", "custom"} \cup Listed :
          /\ drafts' = [drafts EXCEPT ![plan.kind] = plan]
          /\ plan' = IF drafts[kind].kind = Nothing THEN InitialPlan(kind, Creator) ELSE drafts[kind]
    BY <1>1 DEF Choose
  <2>2. plan' \in Plans(Fields)
    <3>1. CASE drafts[kind].kind = Nothing
      BY <2>1, <3>1, InitialIsPlan
    <3>2. CASE drafts[kind].kind # Nothing
      <4>1. drafts[kind] \in Plans(Fields) \cup {Unstarted}
        BY DEF PlansTypeOK
      <4>2. Unstarted.kind = Nothing
        BY DEF Unstarted
      <4> QED BY <2>1, <3>2, <4>1, <4>2
    <3> QED BY <3>1, <3>2
  <2>3. drafts' \in [{"wallet", "custom"} \cup Listed -> Plans(Fields) \cup {Unstarted}]
    BY <1>0, <2>1 DEF PlansTypeOK
  <2> QED BY <2>2, <2>3 DEF PlansTypeOK
<1>2. CASE Configure
  <2>1. /\ plan' \in IF plan.kind = "combo" THEN {[plan EXCEPT !.entries = e] : e \in EntriesEdited(plan.entries)}
                     ELSE TargetsEdited(plan)
        /\ drafts' = drafts
    BY <1>2 DEF Configure
  <2>2. CASE plan.kind = "combo"
    <3>1. plan \in [kind : {"combo"}, entries : Seq(Entries)]
      BY <1>0, <2>2 DEF Plans, Targets, Entries
    <3>2. PICK e \in EntriesEdited(plan.entries) : plan' = [plan EXCEPT !.entries = e]
      BY <2>1, <2>2
    <3>3. e \in Seq(Entries)
      BY <3>1, EntriesStay
    <3>4. plan' \in [kind : {"combo"}, entries : Seq(Entries)]
      BY <3>1, <3>2, <3>3
    <3> QED BY <2>1, <3>4 DEF PlansTypeOK, Plans, Entries
  <2>3. CASE plan.kind # "combo"
    <3>1. plan \in Targets(Fields)
      BY <1>0, <2>3 DEF Plans
    <3>2. plan' \in TargetsEdited(plan)
      BY <2>1, <2>3
    <3>3. plan' \in Targets(Fields)
      BY <3>1, <3>2, TargetsStay
    <3> QED BY <2>1, <3>3 DEF PlansTypeOK, Plans
  <2> QED BY <2>2, <2>3
<1> QED BY <1>1, <1>2

LEMMA SubmitAllows ==
  ASSUME PlansTypeOK, Submit
  PROVE  PressSafe'
<1> DEFINE held == [goes |-> Planned, details |-> details, picture |-> picture,
                    own |-> AskedAbout(plan) = <<>> \/ answered = AskedAbout(plan)]
<1>1. /\ Planned.ok
      /\ \/ \E u, s : press' = [at |-> "prompt", held |-> held, uri |-> u, since |-> s]
         \/ press' = [at |-> "saving", held |-> held]
  BY DEF Submit
<1>2. held.own \in BOOLEAN /\ held.goes = Planned
  OBVIOUS
<1>3. held.own => Launches(Planned)
  <2>1. held.own => Own
    BY DEF Own
  <2> HIDE DEF held
  <2> QED BY <1>1, <2>1, PlannedIsSafe
<1> HIDE DEF held
<1>4. press'.held = held
  BY <1>1
<1>5. held.own => Launches(held.goes)
  BY <1>2, <1>3
<1> QED BY <1>2, <1>4, <1>5 DEF PressSafe, Launches

LEMMA CreatesAllows ==
  ASSUME AllowedInv, Creates
  PROVE  AllowedInv'
<1> DEFINE goes == press.held.goes
           token == [version |-> scene.version, details |-> press.held.details, picture |-> press.held.picture,
                     uri |-> press.uri, since |-> press.since, landed |-> time,
                     own |-> press.held.own, strands |-> Strands(goes.plugin, goes.data, Chain)]
<1>1. /\ press.at = "prompt" /\ UNCHANGED <<plan, drafts>>
      /\ \/ /\ CreateTokenAccepts(goes.plugin, goes.data, Chain)
            /\ launches' = launches \cup {token} /\ press' = [at |-> "done"] /\ refused' = refused
         \/ /\ ~CreateTokenAccepts(goes.plugin, goes.data, Chain)
            /\ refused' = refused \cup {press.held.own} /\ press' = Idle /\ launches' = launches
  BY DEF Creates, typedVars
<1>2. press.held.own \in BOOLEAN /\ (press.held.own => Launches(goes))
  BY <1>1 DEF AllowedInv, PressSafe
<1>3. PlansTypeOK'
  BY <1>1 DEF AllowedInv, PlansTypeOK
<1>4. PressSafe'
  BY <1>1 DEF PressSafe, Idle
<1>5. token.own => ~token.strands
  BY <1>2 DEF Launches
<1> HIDE DEF token, goes
<1>6. AllowedPlansLaunch'
  <2>1. TRUE \notin refused
    BY DEF AllowedInv, AllowedIsSafe, AllowedPlansLaunch
  <2>2. ~CreateTokenAccepts(goes.plugin, goes.data, Chain) => press.held.own = FALSE
    BY <1>2 DEF Launches
  <2>3. refused' = refused \/ refused' = refused \cup {FALSE}
    BY <1>1, <2>2
  <2> QED BY <2>1, <2>3 DEF AllowedPlansLaunch
<1>7. NoFeesStranded'
  <2>1. \A l \in launches : l.own => ~l.strands
    BY DEF AllowedInv, AllowedIsSafe, NoFeesStranded
  <2>2. \A l \in launches' : l \in launches \/ l = token
    BY <1>1
  <2> QED BY <1>5, <2>1, <2>2 DEF NoFeesStranded
<1> QED BY <1>3, <1>4, <1>6, <1>7 DEF AllowedInv, AllowedIsSafe

(* The inductive invariant of the plans: whatever is typed, the picker      *)
(* holds a plan, and a press holds one that launches safely if the answers  *)
(* it was made with were for the plan's own addresses.                      *)
THEOREM PlansInvariance == CSpec => []AllowedInv
<1>1. CInit => AllowedInv
  <2> SUFFICES ASSUME CInit PROVE AllowedInv
    OBVIOUS
  <2>1. plan \in Plans(Fields)
    BY CreateAssumption DEF CInit
  <2>2. drafts \in [{"wallet", "custom"} \cup Listed -> Plans(Fields) \cup {Unstarted}]
    BY DEF CInit, Unstarted
  <2>3. PressSafe /\ AllowedIsSafe
    BY DEF CInit, PressSafe, Idle, AllowedIsSafe, AllowedPlansLaunch, NoFeesStranded
  <2> QED BY <2>1, <2>2, <2>3 DEF AllowedInv, PlansTypeOK
<1>2. AllowedInv /\ [CNext]_cVars => AllowedInv'
  <2> SUFFICES ASSUME AllowedInv, [CNext]_cVars PROVE AllowedInv'
    OBVIOUS
  <2>1. ASSUME UNCHANGED <<plan, drafts, launches, refused>>,
               \/ press' = press \/ press' = Idle
               \/ press.at = "saving" /\ \E u, s : press' = [at |-> "prompt", held |-> press.held, uri |-> u, since |-> s]
        PROVE  AllowedInv'
    <3>1. PlansTypeOK' /\ AllowedIsSafe'
      BY <2>1 DEF AllowedInv, PlansTypeOK, AllowedIsSafe, AllowedPlansLaunch, NoFeesStranded
    <3>2. press'.at \in {"saving", "prompt"} => press.at \in {"saving", "prompt"} /\ press'.held = press.held
      BY <2>1 DEF Idle
    <3>3. PressSafe'
      BY <3>2 DEF AllowedInv, PressSafe, Launches
    <3> QED BY <3>1, <3>3 DEF AllowedInv
  <2>2. CASE UNCHANGED cVars
    BY <2>1, <2>2 DEF cVars, typedVars, chainVars
  <2>3. CASE Choose \/ Configure
    <3>1. PlansTypeOK'
      BY <2>3, PickerKeeps DEF AllowedInv
    <3>2. UNCHANGED <<press, launches, refused>>
      BY <2>3 DEF Choose, Configure, chainVars
    <3>3. PressSafe' /\ AllowedIsSafe'
      BY <3>2 DEF AllowedInv, PressSafe, Launches, AllowedIsSafe, AllowedPlansLaunch, NoFeesStranded
    <3> QED BY <3>1, <3>3 DEF AllowedInv
  <2>4. CASE Describe \/ ProbeAnswers \/ ProbeFails \/ Wires
    BY <2>1, <2>4 DEF Describe, ProbeAnswers, ProbeFails, Wires, typedVars, chainVars
  <2>5. CASE Submit
    <3>1. UNCHANGED <<plan, drafts, launches, refused>>
      BY <2>5 DEF Submit, typedVars, chainVars
    <3>2. PlansTypeOK' /\ AllowedIsSafe'
      BY <3>1 DEF AllowedInv, PlansTypeOK, AllowedIsSafe, AllowedPlansLaunch, NoFeesStranded
    <3> QED BY <2>5, <3>2, SubmitAllows DEF AllowedInv
  <2>6. CASE DetailsSaved
    <3>1. /\ UNCHANGED <<plan, drafts, launches, refused>> /\ press.at = "saving"
          /\ \E u, s : press' = [at |-> "prompt", held |-> press.held, uri |-> u, since |-> s]
      BY <2>6 DEF DetailsSaved, typedVars, chainVars
    <3> QED BY <2>1, <3>1
  <2>7. CASE SaveFails \/ Turns
    BY <2>1, <2>7 DEF SaveFails, Turns, typedVars, chainVars
  <2>8. CASE Creates
    BY <2>8, CreatesAllows
  <2>9. ASSUME NEW i \in DOMAIN saves, Pins(i) \/ PinFails(i) \/ Undoes(i) PROVE AllowedInv'
    BY <2>1, <2>9 DEF Pins, PinFails, Undoes, typedVars, chainVars
  <2>10. CASE SweepReads \/ SweepLists \/ SweepRemoves \/ SweepEnds \/ Passes
    BY <2>1, <2>10 DEF SweepReads, SweepLists, SweepRemoves, SweepEnds, Passes, typedVars, chainVars
  <2> QED BY <2>2, <2>3, <2>4, <2>5, <2>6, <2>7, <2>8, <2>9, <2>10 DEF CNext
<1> QED BY <1>1, <1>2, PTL DEF CSpec

(* For any texts, plugins, limits and shares: a launch the builder allows   *)
(* with the answers for its own addresses is not refused on chain, and pays *)
(* its fees to no contract that would keep them or let anyone take them.    *)
THEOREM AllowedStaySafe == CSpec => []AllowedIsSafe
<1>1. AllowedInv => AllowedIsSafe
  BY DEF AllowedInv
<1> QED BY <1>1, PlansInvariance, PTL
=============================================================================
