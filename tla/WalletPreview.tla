---------------------------- MODULE WalletPreview ----------------------------
(***************************************************************************)
(* The frontend's diagnostic previews: App prepares a heartbeat and a P2ID *)
(* consume request, hands each to the wallet at most once, for the user to *)
(* reject, and looks at the chain afterwards.                              *)
(*                                                                         *)
(* Every handler is an async function that works on the values of the      *)
(* render it was clicked in, while the wallet, the chain and the other     *)
(* handlers go on.  Only the flags busy and previewBusy keep them apart.   *)
(* As in HeirbeatVault, an operator placed right before one it could be    *)
(* mistaken for is a fault that no action uses.                            *)
(***************************************************************************)
EXTENDS Naturals, Sequences

CONSTANTS
  Accounts,   \* accounts of the wallet
  Owner,      \* the vault's owner
  NoAccount,  \* no wallet is connected
  MaxClicks,  \* bound of the buttons clicked
  MaxSwitches \* bound of the changes of account

ASSUME AccountAssumption == Owner \in Accounts /\ NoAccount \notin Accounts
ASSUME BoundAssumption == {MaxClicks, MaxSwitches} \subseteq Nat

Kinds == {"heirbeat", "p2id"}

VARIABLES
  terminal,  \* is the vault claimed and empty on chain
  published, \* preparations whose synthetic note somebody has put on chain
  account,   \* the account the wallet is connected with
  switches,  \* changes of account so far
  requests,  \* what the wallet has been asked
  app,       \* the state of App
  tasks      \* the handlers clicked, by number

vars == <<terminal, published, account, switches, requests, app, tasks>>

Connectable == Accounts \cup {NoAccount}

(* sender: the account the request was prepared for; clicked: the handler  *)
(* that asks, account and unseen: the wallet's account, and whether the    *)
(* note was not on chain, when it was clicked.                             *)
RequestType ==
  [kind : Kinds, sender : Connectable, clicked : Nat,
   account : Connectable, unseen : BOOLEAN, answered : BOOLEAN]

(* preparedHeartbeat by its sender, preparedP2id by its recipient and the  *)
(* preparation that built its note.                                        *)
P2idType == [to : Connectable, note : Nat]

(* walletPreview: by which click, the state of its result, has it note IDs *)
ShownType ==
  [clicked : Nat, kind : Kinds, notes : BOOLEAN,
   state : {"none", "preflight_failed", "awaiting", "id", "no_id"}]

(* client: the click that created it, 0 for null; snapshot: is there one;  *)
(* evidence: the walletPreview that previewVerification was made from,     *)
(* NothingShown for null.                                                  *)
AppType ==
  [client : Nat, snapshot : BOOLEAN, busy : BOOLEAN, previewBusy : BOOLEAN,
   heartbeat : Connectable, p2id : P2idType, attempted : SUBSET Kinds,
   shown : ShownType, evidence : ShownType]

Ops == Kinds \cup {"prepare", "verify", "init", "read"}

(* What a handler captured when it was clicked, and what it waits for.     *)
TaskType ==
  [op : Ops, stage : {"reading", "looking", "asking", "done"},
   account : Connectable, client : Nat, heartbeat : Connectable,
   p2id : P2idType, unseen : BOOLEAN, shown : ShownType]

NoP2id == [to |-> NoAccount, note |-> 0]
NothingShown ==
  [clicked |-> 0, kind |-> "heirbeat", notes |-> FALSE, state |-> "none"]

TypeOK ==
  /\ terminal \in BOOLEAN /\ published \subseteq 1..MaxClicks
  /\ account \in Connectable /\ switches \in 0..MaxSwitches
  /\ requests \in Seq(RequestType)
  /\ app \in AppType /\ (app.shown.state = "none" => app.shown = NothingShown)
  /\ tasks \in Seq(TaskType) /\ Len(tasks) <= MaxClicks

Init ==
  /\ terminal \in BOOLEAN /\ published = {}
  /\ account = NoAccount /\ switches = 0
  /\ requests = <<>> /\ tasks = <<>>
  /\ app = [client |-> 0, snapshot |-> FALSE, busy |-> FALSE,
            previewBusy |-> FALSE, heartbeat |-> NoAccount, p2id |-> NoP2id,
            attempted |-> {}, shown |-> NothingShown, evidence |-> NothingShown]

-----------------------------------------------------------------------------
(* The chain and the wallet.                                               *)

Claim ==
  /\ ~terminal /\ terminal' = TRUE
  /\ UNCHANGED <<published, account, switches, requests, app, tasks>>

(* Nobody can publish a note that has not been built.                      *)
Publish(i) ==
  /\ tasks[i].op = "prepare" /\ tasks[i].stage # "reading"
  /\ i \notin published /\ published' = published \cup {i}
  /\ UNCHANGED <<terminal, account, switches, requests, app, tasks>>

(* The user connects, disconnects or selects another account.              *)
SwitchAccount(a) ==
  /\ a # account /\ switches < MaxSwitches
  /\ account' = a /\ switches' = switches + 1
  /\ UNCHANGED <<terminal, published, requests, app, tasks>>

(* The user approves or rejects, or the wallet fails.                      *)
WalletAnswers(r) ==
  /\ ~requests[r].answered
  /\ requests' = [requests EXCEPT ![r].answered = TRUE]
  /\ UNCHANGED <<terminal, published, account, switches, app, tasks>>

-----------------------------------------------------------------------------
(* Clicks.  A handler first sees the state of the render it belongs to.    *)

NotOnChain(note) == note \notin published

Clicked(op) ==
  /\ Len(tasks) < MaxClicks
  /\ tasks' = Append(tasks, [op |-> op, stage |-> "reading",
       account |-> account, client |-> app.client,
       heartbeat |-> app.heartbeat, p2id |-> app.p2id,
       unseen |-> NotOnChain(app.p2id.note), shown |-> app.shown])
  /\ UNCHANGED <<terminal, published, account, switches, requests>>

Ready == app.client # 0 /\ app.snapshot /\ account # NoAccount

ClickPrepare ==
  /\ Ready /\ ~app.previewBusy /\ ~app.busy
  /\ app' = [app EXCEPT !.previewBusy = TRUE, !.heartbeat = NoAccount,
                        !.p2id = NoP2id, !.evidence = NothingShown]
  /\ Clicked("prepare")

CanStartUnattempted(kind) == kind \notin app.attempted
CanStartPreview(kind) ==
  kind \notin app.attempted /\ ~app.previewBusy /\ ~app.busy

Prepared(kind) ==
  CASE kind = "heirbeat" -> app.heartbeat # NoAccount
    [] kind = "p2id"     -> app.p2id.to = account

ClearResult ==
  [app EXCEPT !.previewBusy = TRUE, !.shown.state = "none",
              !.evidence = NothingShown]
StartPreview ==
  [app EXCEPT !.previewBusy = TRUE, !.shown = NothingShown,
              !.evidence = NothingShown]

ClickPreview(kind) ==
  /\ Ready /\ Prepared(kind) /\ CanStartPreview(kind)
  /\ app' = StartPreview
  /\ Clicked(kind)

StartVerifyUnflagged == [app EXCEPT !.evidence = NothingShown]
StartVerify == [app EXCEPT !.previewBusy = TRUE, !.evidence = NothingShown]

(* "Resync and inspect after wallet rejection"                             *)
ClickVerify ==
  /\ app.shown.state \notin {"none", "id"} /\ app.shown.notes
  /\ ~app.previewBusy
  /\ app' = StartVerify
  /\ Clicked("verify")

(* Connecting the client, and everything else that only reads, is kept     *)
(* apart by the other flag.                                                *)
ClickRun(op) ==
  /\ op = "read" => app.client # 0
  /\ ~app.busy
  /\ app' = [app EXCEPT !.busy = TRUE]
  /\ Clicked(op)

Click ==
  \/ ClickPrepare \/ ClickVerify
  \/ \E kind \in Kinds : ClickPreview(kind)
  \/ \E op \in {"init", "read"} : ClickRun(op)

-----------------------------------------------------------------------------
(* The handlers after an await.                                            *)

At(i, op, stage) == tasks[i].op = op /\ tasks[i].stage = stage

Advance(i, stage) ==
  /\ tasks' = [tasks EXCEPT ![i].stage = stage]
  /\ UNCHANGED <<terminal, published, account, switches>>

(* connectClient replaces the client and terminates the one it replaces;   *)
(* a handler that still waits for that one may wait forever.               *)
HasClient(i) == tasks[i].client = app.client

FinishInit(i) ==
  /\ At(i, "init", "reading") /\ Advance(i, "done")
  /\ app' = [app EXCEPT !.client = i, !.snapshot = FALSE, !.busy = FALSE]
  /\ UNCHANGED requests

FinishRead(i) ==
  /\ At(i, "read", "reading") /\ HasClient(i) /\ Advance(i, "done")
  /\ \E loaded \in {app.snapshot, TRUE} :
       app' = [app EXCEPT !.snapshot = loaded, !.busy = FALSE]
  /\ UNCHANGED requests

RunFails(i) ==
  /\ At(i, "init", "reading") \/ At(i, "read", "reading")
  /\ Advance(i, "done")
  /\ app' = [app EXCEPT !.busy = FALSE]
  /\ UNCHANGED requests

(* heartbeatPreviewSafety on a fresh snapshot.                             *)
TerminalOnly(a) == terminal
HeartbeatSafe(a) == terminal /\ a # Owner

(* latestTerminalSnapshot, and the heartbeat request if it is safe.        *)
PrepareHeartbeat(i) ==
  /\ At(i, "prepare", "reading") /\ HasClient(i)
  /\ Advance(i, "looking")
  /\ app' = [app EXCEPT !.snapshot = TRUE,
                        !.heartbeat = IF HeartbeatSafe(tasks[i].account)
                                      THEN tasks[i].account ELSE NoAccount]
  /\ UNCHANGED requests

(* The P2ID request, if the vault is terminal and its note not found.      *)
PrepareP2id(i) ==
  /\ At(i, "prepare", "looking") /\ terminal /\ NotOnChain(i)
  /\ Advance(i, "done")
  /\ app' = [app EXCEPT !.previewBusy = FALSE,
                        !.p2id = [to |-> tasks[i].account, note |-> i]]
  /\ UNCHANGED requests

PrepareEnds(i) ==
  /\ At(i, "prepare", "reading") \/ At(i, "prepare", "looking")
  /\ Advance(i, "done")
  /\ app' = [app EXCEPT !.previewBusy = FALSE]
  /\ UNCHANGED requests

Show(i, state, notes) ==
  [clicked |-> i, kind |-> tasks[i].op, notes |-> notes, state |-> state]

(* The safety checks are made again, with the account of the click.        *)
StillSafe(i) ==
  CASE tasks[i].op = "heirbeat" -> /\ HeartbeatSafe(tasks[i].account)
                                   /\ tasks[i].account = tasks[i].heartbeat
    [] tasks[i].op = "p2id"     -> /\ terminal
                                   /\ tasks[i].account = tasks[i].p2id.to

(* Nothing but the answer to a call is awaited between the check and the   *)
(* wallet call: the heartbeat follows its check, P2ID the lookup.          *)
CanAskAtOnce(i) ==
  \E kind \in Kinds : At(i, kind, "reading") /\ HasClient(i) /\ StillSafe(i)
CanAsk(i) ==
  \/ At(i, "heirbeat", "reading") /\ HasClient(i) /\ StillSafe(i)
  \/ At(i, "p2id", "looking") /\ NotOnChain(tasks[i].p2id.note)

CheckP2id(i) ==
  /\ At(i, "p2id", "reading") /\ HasClient(i) /\ StillSafe(i)
  /\ Advance(i, "looking")
  /\ app' = [app EXCEPT !.snapshot = TRUE]
  /\ UNCHANGED requests

AskWallet(i) ==
  /\ CanAsk(i)
  /\ Advance(i, "asking")
  /\ requests' = Append(requests,
       [kind |-> tasks[i].op, clicked |-> i, account |-> tasks[i].account,
        sender |-> IF tasks[i].op = "p2id" THEN tasks[i].p2id.to
                   ELSE tasks[i].heartbeat,
        unseen |-> tasks[i].unseen, answered |-> FALSE])
  /\ app' = [app EXCEPT !.snapshot = TRUE, !.attempted = @ \cup {tasks[i].op},
                        !.shown = Show(i, "awaiting", TRUE)]

(* A read, a check or a lookup fails, or the adapter lacks the request.    *)
PreflightFails(i) ==
  /\ tasks[i].op \in Kinds /\ tasks[i].stage \in {"reading", "looking"}
  /\ Advance(i, "done")
  /\ \E notes \in {FALSE, CanAsk(i)}, read \in {app.snapshot, HasClient(i)} :
       app' = [app EXCEPT !.previewBusy = FALSE, !.snapshot = read \/ @,
                          !.shown = Show(i, "preflight_failed", notes)]
  /\ UNCHANGED requests

(* The wallet's answer: a transaction ID, or none in any of several ways.  *)
Answered(i) ==
  \E r \in DOMAIN requests :
    requests[r].clicked = i /\ requests[r].answered

NeverInvoked(i, state) ==
  Show(i, IF state = "id" THEN "id" ELSE "preflight_failed", TRUE)
MapPreviewResult(i, state) == Show(i, state, TRUE)

ReceiveAnswer(i) ==
  /\ tasks[i].stage = "asking" /\ Answered(i)
  /\ Advance(i, "done")
  /\ \E state \in {"id", "no_id"} :
       app' = [app EXCEPT !.previewBusy = FALSE,
                          !.shown = MapPreviewResult(i, state)]
  /\ UNCHANGED requests

(* verifyPreviewAfterReject: publishes what it found out about the vault   *)
(* before it asks for the notes; the end of it if the vault cannot be read.*)
(* What it writes is about the walletPreview it captured when clicked.     *)
VerifyVault(i) ==
  /\ At(i, "verify", "reading") /\ Advance(i, "looking")
  /\ app' = [app EXCEPT !.snapshot = TRUE, !.evidence = tasks[i].shown]
  /\ UNCHANGED requests

FailBusy(i) ==
  [app EXCEPT !.evidence = tasks[i].shown]
FailVerification(i) ==
  [app EXCEPT !.evidence = tasks[i].shown, !.previewBusy = FALSE]

VerifyFails(i) ==
  /\ At(i, "verify", "reading") /\ Advance(i, "done")
  /\ app' = FailVerification(i)
  /\ UNCHANGED requests

VerifyNotes(i) ==
  /\ At(i, "verify", "looking") /\ Advance(i, "done")
  /\ app' = [app EXCEPT !.evidence = tasks[i].shown, !.previewBusy = FALSE]
  /\ UNCHANGED requests

Continue(i) ==
  \/ FinishInit(i) \/ FinishRead(i) \/ RunFails(i)
  \/ PrepareHeartbeat(i) \/ PrepareP2id(i) \/ PrepareEnds(i)
  \/ CheckP2id(i) \/ AskWallet(i) \/ PreflightFails(i) \/ ReceiveAnswer(i)
  \/ VerifyVault(i) \/ VerifyFails(i) \/ VerifyNotes(i)

Environment ==
  \/ Claim \/ (\E i \in DOMAIN tasks : Publish(i))
  \/ (\E a \in Connectable : SwitchAccount(a))
  \/ \E r \in DOMAIN requests : WalletAnswers(r)

Next == Environment \/ Click \/ \E i \in DOMAIN tasks : Continue(i)

Spec == Init /\ [][Next]_vars

(* A call over the network is answered or fails, unless the client it was  *)
(* made through has been terminated.  The user may leave the wallet open.  *)
Hung(i) ==
  /\ ~HasClient(i)
  /\ \/ tasks[i].op \in Kinds \cup {"read"} /\ tasks[i].stage = "reading"
     \/ tasks[i].op = "prepare" /\ tasks[i].stage # "done"

FairSpec ==
  Spec /\ \A i \in 1..MaxClicks :
            WF_vars(i \in DOMAIN tasks /\ ~Hung(i) /\ Continue(i))

-----------------------------------------------------------------------------
(* Properties.                                                             *)

(* The wallet is asked once for each kind of request, however the user     *)
(* clicks while handlers are waiting.                                      *)
OneRequestPerKind ==
  \A q, r \in DOMAIN requests : requests[q].kind = requests[r].kind => q = r

(* A request is only made of a claimed vault, so that the contract refuses *)
(* it if the user approves; for the account that was connected when it was *)
(* clicked, which is not the owner's for a heartbeat; and for a note that  *)
(* was not on chain then.                                                  *)
RequestsAreSafe ==
  \A r \in DOMAIN requests :
    /\ terminal
    /\ requests[r].sender = requests[r].account
    /\ requests[r].kind = "heirbeat" => requests[r].sender # Owner
    /\ requests[r].kind = "p2id" => requests[r].unseen

(* "Preflight failed before the wallet was called; no wallet request was   *)
(* made."                                                                  *)
NotInvokedMeansNoRequest ==
  app.shown.state = "preflight_failed" =>
    \A r \in DOMAIN requests : requests[r].kind # app.shown.kind

(* As long as the wallet has a request open, that is what App shows.       *)
OpenRequestIsShown ==
  \A r \in DOMAIN requests :
    ~requests[r].answered =>
      /\ app.shown.state = "awaiting"
      /\ app.shown.clicked = requests[r].clicked

(* The evidence on display, made from the walletPreview captured when the  *)
(* check was clicked and written after several awaits, is about the        *)
(* request now on display as it now is, which got no transaction ID.       *)
EvidenceMatchesRequest ==
  app.evidence # NothingShown =>
    app.evidence = app.shown /\ app.shown.state # "id"

(* The preview buttons work again, unless the wallet has still a request   *)
(* open or the client was replaced under a handler.                        *)
PreviewsEnd ==
  app.previewBusy ~>
    \/ ~app.previewBusy
    \/ \E r \in DOMAIN requests : ~requests[r].answered
    \/ \E i \in DOMAIN tasks : Hung(i)
=============================================================================
