------------------------- MODULE WalletPreview_proofs -------------------------
(***************************************************************************)
(* What the previews guarantee for any wallet, any number of clicks and    *)
(* any changes of account.                                                 *)
(*                                                                         *)
(* The argument is mutual exclusion: previewBusy is set before a handler   *)
(* first waits and cleared when it ends, so at most one of the handlers    *)
(* that touch the previews is under way (Exclusive), and what it has       *)
(* checked is still so when it goes on (TaskFacts).                        *)
(***************************************************************************)
EXTENDS WalletPreview, TLAPS

Active(i) ==
  tasks[i].op \in Kinds \cup {"prepare", "verify"} /\ tasks[i].stage # "done"

Exclusive ==
  \A i, j \in DOMAIN tasks : Active(i) /\ Active(j) => i = j

Flagged == \A i \in DOMAIN tasks : Active(i) => app.previewBusy

TaskFacts(i) ==
  /\ tasks[i].op \in Kinds /\ tasks[i].stage \in {"reading", "looking"} =>
       tasks[i].op \notin app.attempted
  /\ tasks[i].op \in Kinds /\ tasks[i].stage # "done" =>
       app.evidence = NothingShown
  /\ At(i, "p2id", "looking") =>
       terminal /\ tasks[i].account = tasks[i].p2id.to
  /\ tasks[i].stage = "asking" =>
       /\ tasks[i].op \in Kinds
       /\ app.shown.state = "awaiting" /\ app.shown.clicked = i
  /\ tasks[i].op = "verify" /\ tasks[i].stage # "done" =>
       tasks[i].shown = app.shown /\ app.shown.state # "id"
  /\ ~tasks[i].unseen => tasks[i].p2id.note \in published

RequestFacts(r) ==
  /\ requests[r].clicked \in DOMAIN tasks
  /\ tasks[requests[r].clicked].op = requests[r].kind
  /\ requests[r].kind \in app.attempted
  /\ ~requests[r].answered => tasks[requests[r].clicked].stage = "asking"

IInv ==
  /\ TypeOK /\ Exclusive /\ Flagged
  /\ \A i \in DOMAIN tasks : TaskFacts(i)
  /\ \A r \in DOMAIN requests : RequestFacts(r)
  /\ OneRequestPerKind /\ RequestsAreSafe
  /\ NotInvokedMeansNoRequest /\ EvidenceMatchesRequest

LEMMA InitHolds == Init => IInv
<1> SUFFICES ASSUME Init PROVE IInv OBVIOUS
<1>1. NoP2id \in P2idType /\ NothingShown \in ShownType
  BY DEF NoP2id, NothingShown, P2idType, ShownType, Connectable, Kinds
<1>2. /\ app \in AppType /\ app.shown = NothingShown
      /\ app.evidence = NothingShown
  BY <1>1 DEF Init, AppType, Connectable
<1>3. tasks \in Seq(TaskType) /\ Len(tasks) = 0 /\ DOMAIN tasks = {}
      /\ requests \in Seq(RequestType) /\ DOMAIN requests = {}
  BY DEF Init
<1>4. TypeOK
  BY <1>1, <1>2, <1>3, BoundAssumption DEF Init, TypeOK, Connectable
<1>5. NotInvokedMeansNoRequest /\ EvidenceMatchesRequest
  BY <1>2, <1>3 DEF NotInvokedMeansNoRequest, EvidenceMatchesRequest
<1> QED BY <1>3, <1>4, <1>5
  DEF IInv, Exclusive, Flagged, OneRequestPerKind, RequestsAreSafe

(* What every step may assume of a handler.                                *)
LEMMA AtHand ==
  ASSUME IInv, NEW i \in DOMAIN tasks
  PROVE  /\ tasks \in Seq(TaskType) /\ tasks[i] \in TaskType
         /\ DOMAIN tasks = 1..Len(tasks) /\ Len(tasks) \in Nat
         /\ i \in Nat \ {0}
         /\ tasks[i].account \in Connectable
         /\ tasks[i].heartbeat \in Connectable
         /\ tasks[i].p2id \in P2idType
         /\ tasks[i].p2id.to \in Connectable
         /\ tasks[i].unseen \in BOOLEAN
         /\ tasks[i].shown \in ShownType
         /\ tasks[i].op \in Ops
         /\ app \in AppType /\ app.shown \in ShownType
         /\ TaskFacts(i)
<1>1. tasks \in Seq(TaskType) /\ tasks[i] \in TaskType /\ app \in AppType
  BY DEF IInv, TypeOK
<1>2. tasks[i].p2id \in P2idType
  BY <1>1 DEF TaskType
<1> QED BY <1>1, <1>2 DEF IInv, TaskType, P2idType, AppType

(* Moving on changes the stage of one handler.                             *)
LEMMA Advanced ==
  ASSUME IInv, NEW i \in DOMAIN tasks,
         NEW stage \in {"looking", "asking", "done"}, Advance(i, stage)
  PROVE  /\ tasks' \in Seq(TaskType) /\ DOMAIN tasks' = DOMAIN tasks
         /\ Len(tasks') = Len(tasks)
         /\ tasks'[i].stage = stage /\ tasks'[i].op = tasks[i].op
         /\ tasks'[i].account = tasks[i].account
         /\ tasks'[i].p2id = tasks[i].p2id
         /\ tasks'[i].unseen = tasks[i].unseen
         /\ tasks'[i].shown = tasks[i].shown
         /\ \A j \in DOMAIN tasks \ {i} : tasks'[j] = tasks[j]
<1> DEFINE x == [tasks[i] EXCEPT !.stage = stage]
<1>1. tasks \in Seq(TaskType) /\ tasks[i] \in TaskType
  BY AtHand
<1>2. x \in TaskType /\ x.stage = stage /\ x.op = tasks[i].op
      /\ x.account = tasks[i].account /\ x.p2id = tasks[i].p2id
      /\ x.unseen = tasks[i].unseen /\ x.shown = tasks[i].shown
  BY <1>1 DEF TaskType
<1>3. tasks' = [tasks EXCEPT ![i] = x]
  BY DEF Advance
<1> HIDE DEF x
<1> QED BY <1>1, <1>2, <1>3

(* The operation of every handler stays, and at most one other than i is   *)
(* under way when i is.                                                    *)
LEMMA OthersAreDone ==
  ASSUME IInv, NEW i \in DOMAIN tasks, Active(i),
         NEW j \in DOMAIN tasks, j # i
  PROVE  /\ ~Active(j) /\ tasks[j].stage # "asking"
         /\ tasks[j].op \in Kinds \cup {"verify"} => tasks[j].stage = "done"
<1>1. ~Active(j)
  BY DEF IInv, Exclusive
<1>2. TaskFacts(j)
  BY DEF IInv
<1> QED BY <1>1, <1>2 DEF Active, TaskFacts

(* Nothing is open as long as no handler waits for it.                     *)
LEMMA NothingOpen ==
  ASSUME IInv, NEW i \in DOMAIN tasks, Active(i), tasks[i].stage # "asking"
  PROVE  \A r \in DOMAIN requests : requests[r].answered
<1> SUFFICES ASSUME NEW r \in DOMAIN requests, ~requests[r].answered
             PROVE  FALSE
  OBVIOUS
<1>1. requests[r].clicked \in DOMAIN tasks
      /\ tasks[requests[r].clicked].stage = "asking"
  BY DEF IInv, RequestFacts
<1> QED BY <1>1, OthersAreDone

-----------------------------------------------------------------------------
(* Steps of a handler that has the previews to itself.                     *)

LEMMA ActiveStep ==
  ASSUME IInv, NEW i \in DOMAIN tasks, Active(i),
         NEW stage \in {"looking", "done"}, Advance(i, stage),
         requests' = requests, \A r \in DOMAIN requests : requests[r].answered,
         app' \in AppType, app'.shown.state = "none" => app'.shown = NothingShown,
         app'.attempted = app.attempted,
         stage = "done" \/ app'.previewBusy,
         TaskFacts(i)', NotInvokedMeansNoRequest', EvidenceMatchesRequest'
  PROVE  IInv'
<1>1. /\ tasks' \in Seq(TaskType) /\ DOMAIN tasks' = DOMAIN tasks
      /\ Len(tasks') = Len(tasks)
      /\ tasks'[i].stage = stage /\ tasks'[i].op = tasks[i].op
      /\ \A j \in DOMAIN tasks \ {i} : tasks'[j] = tasks[j]
  BY Advanced
<1>2. UNCHANGED <<terminal, published, account, switches>>
  BY DEF Advance
<1>3. TypeOK'
  BY <1>1, <1>2 DEF IInv, TypeOK
<1>4. ASSUME NEW j \in DOMAIN tasks', j # i
      PROVE  ~Active(j)' /\ TaskFacts(j)'
  <2>1. tasks'[j] = tasks[j] /\ j \in DOMAIN tasks
    BY <1>1, <1>4
  <2>2. /\ ~Active(j) /\ tasks[j].stage # "asking"
        /\ tasks[j].op \in Kinds \cup {"verify"} => tasks[j].stage = "done"
    BY <1>4, <2>1, OthersAreDone
  <2>3. ~tasks[j].unseen => tasks[j].p2id.note \in published
    BY <2>1 DEF IInv, TaskFacts
  <2> QED BY <1>2, <2>1, <2>2, <2>3 DEF Active, TaskFacts, At, Kinds
<1>5. Exclusive'
  BY <1>4 DEF Exclusive
<1>6. Flagged'
  BY <1>1, <1>4 DEF Flagged, Active
<1>7. ASSUME NEW r \in DOMAIN requests' PROVE RequestFacts(r)'
  <2>1. RequestFacts(r) /\ requests[r].answered
    BY DEF IInv
  <2>2. tasks'[requests[r].clicked].op = tasks[requests[r].clicked].op
    BY <1>1, <2>1 DEF RequestFacts
  <2> QED BY <1>1, <2>1, <2>2 DEF RequestFacts
<1>8. OneRequestPerKind' /\ RequestsAreSafe'
  BY <1>2 DEF IInv, OneRequestPerKind, RequestsAreSafe
<1> QED BY <1>3, <1>4, <1>5, <1>6, <1>7, <1>8 DEF IInv

(* If it leaves alone what is displayed, only its own stage matters.       *)
LEMMA DisplayKept ==
  ASSUME IInv, requests' = requests, app'.shown = app.shown,
         app'.evidence = app.evidence
  PROVE  NotInvokedMeansNoRequest' /\ EvidenceMatchesRequest'
BY DEF IInv, NotInvokedMeansNoRequest, EvidenceMatchesRequest

LEMMA PrepareHeartbeatKeeps ==
  ASSUME IInv, NEW i \in DOMAIN tasks, PrepareHeartbeat(i)
  PROVE  IInv'
<1> DEFINE h == IF HeartbeatSafe(tasks[i].account)
                THEN tasks[i].account ELSE NoAccount
<1>1. Advance(i, "looking") /\ requests' = requests
      /\ app' = [app EXCEPT !.snapshot = TRUE, !.heartbeat = h]
      /\ tasks[i].op = "prepare" /\ tasks[i].stage = "reading"
  BY DEF PrepareHeartbeat, At
<1>2. Active(i)
  BY <1>1 DEF Active
<1>3. h \in Connectable
  BY AtHand DEF Connectable
<1> HIDE DEF h
<1>4. /\ app' \in AppType /\ app'.shown = app.shown
      /\ app'.evidence = app.evidence /\ app'.attempted = app.attempted
      /\ app'.previewBusy = app.previewBusy
  BY <1>1, <1>3, AtHand DEF AppType
<1>5. app.shown.state = "none" => app.shown = NothingShown
  BY DEF IInv, TypeOK
<1>6. app'.previewBusy
  BY <1>2, <1>4 DEF IInv, Flagged
<1>7. TaskFacts(i)'
  <2>1. tasks'[i].stage = "looking" /\ tasks'[i].op = "prepare"
        /\ tasks'[i].unseen = tasks[i].unseen
        /\ tasks'[i].p2id = tasks[i].p2id /\ published' = published
    BY <1>1, Advanced DEF Advance
  <2> QED BY <2>1, AtHand DEF TaskFacts, At, Kinds
<1> QED BY <1>1, <1>2, <1>4, <1>5, <1>6, <1>7, DisplayKept, NothingOpen, ActiveStep

(* A handler of the preparation ends.                                      *)
LEMMA PrepareDone ==
  ASSUME IInv, NEW i \in DOMAIN tasks,
         tasks[i].op = "prepare", tasks[i].stage \in {"reading", "looking"},
         Advance(i, "done"), NEW p \in P2idType,
         app' = [app EXCEPT !.previewBusy = FALSE, !.p2id = p],
         requests' = requests
  PROVE  IInv'
<1>1. Active(i)
  BY DEF Active
<1>2. /\ app' \in AppType /\ app'.shown = app.shown
      /\ app'.evidence = app.evidence /\ app'.attempted = app.attempted
  BY AtHand DEF AppType
<1>3. app.shown.state = "none" => app.shown = NothingShown
  BY DEF IInv, TypeOK
<1>4. TaskFacts(i)'
  <2>1. tasks'[i].stage = "done" /\ tasks'[i].op = "prepare"
        /\ tasks'[i].unseen = tasks[i].unseen
        /\ tasks'[i].p2id = tasks[i].p2id /\ published' = published
    BY Advanced DEF Advance
  <2> QED BY <2>1, AtHand DEF TaskFacts, At, Kinds
<1> QED BY <1>1, <1>2, <1>3, <1>4, DisplayKept, NothingOpen, ActiveStep

LEMMA PrepareP2idKeeps ==
  ASSUME IInv, NEW i \in DOMAIN tasks, PrepareP2id(i)
  PROVE  IInv'
<1> DEFINE p == [to |-> tasks[i].account, note |-> i]
<1>1. p \in P2idType
  BY AtHand DEF P2idType
<1> QED BY <1>1, PrepareDone DEF PrepareP2id, At

LEMMA PrepareEndsKeeps ==
  ASSUME IInv, NEW i \in DOMAIN tasks, PrepareEnds(i)
  PROVE  IInv'
<1>1. app.p2id \in P2idType
  BY AtHand DEF AppType
<1>2. [app EXCEPT !.previewBusy = FALSE]
        = [app EXCEPT !.previewBusy = FALSE, !.p2id = app.p2id]
  BY AtHand DEF AppType
<1> QED BY <1>1, <1>2, PrepareDone DEF PrepareEnds, At

(* The preview captured is still the one shown, without a result ID, for   *)
(* nobody else could write to it in the meantime.                          *)
LEMMA VerifyStep ==
  ASSUME IInv, NEW i \in DOMAIN tasks,
         tasks[i].op = "verify", tasks[i].stage \in {"reading", "looking"},
         NEW stage \in {"looking", "done"}, Advance(i, stage),
         NEW snapshot \in BOOLEAN, NEW busy \in BOOLEAN,
         stage = "done" \/ busy = app.previewBusy,
         app' = [app EXCEPT !.snapshot = snapshot, !.previewBusy = busy,
                            !.evidence = tasks[i].shown],
         requests' = requests
  PROVE  IInv'
<1>1. Active(i)
  BY DEF Active
<1>2. /\ app' \in AppType /\ app'.shown = app.shown
      /\ app'.evidence = tasks[i].shown /\ app'.attempted = app.attempted
      /\ app'.previewBusy = busy
  BY AtHand DEF AppType
<1>3. app.shown.state = "none" => app.shown = NothingShown
  BY DEF IInv, TypeOK
<1>4. tasks[i].shown = app.shown /\ app.shown.state # "id"
  BY AtHand DEF TaskFacts
<1>5. NotInvokedMeansNoRequest' /\ EvidenceMatchesRequest'
  BY <1>2, <1>4 DEF IInv, NotInvokedMeansNoRequest, EvidenceMatchesRequest
<1>6. TaskFacts(i)'
  <2>1. tasks'[i].stage = stage /\ tasks'[i].op = "verify"
        /\ tasks'[i].unseen = tasks[i].unseen
        /\ tasks'[i].p2id = tasks[i].p2id /\ published' = published
        /\ tasks'[i].shown = tasks[i].shown
    BY Advanced DEF Advance
  <2> QED BY <1>2, <1>4, <2>1, AtHand DEF TaskFacts, At, Kinds
<1>7. stage = "done" \/ app'.previewBusy
  BY <1>1, <1>2 DEF IInv, Flagged
<1> QED BY <1>1, <1>2, <1>3, <1>5, <1>6, <1>7, NothingOpen, ActiveStep

LEMMA VerifyKeeps ==
  ASSUME IInv, NEW i \in DOMAIN tasks,
         VerifyVault(i) \/ VerifyFails(i) \/ VerifyNotes(i)
  PROVE  IInv'
<1>1. app \in AppType /\ app.snapshot \in BOOLEAN
      /\ app.previewBusy \in BOOLEAN /\ TRUE \in BOOLEAN /\ FALSE \in BOOLEAN
  BY AtHand DEF AppType
<1>2. CASE VerifyVault(i)
  <2>1. /\ tasks[i].op = "verify" /\ tasks[i].stage = "reading"
        /\ Advance(i, "looking") /\ requests' = requests
        /\ app' = [app EXCEPT !.snapshot = TRUE,
                              !.evidence = tasks[i].shown]
    BY <1>2 DEF VerifyVault, At
  <2>2. app' = [app EXCEPT !.snapshot = TRUE, !.previewBusy = app.previewBusy,
                           !.evidence = tasks[i].shown]
    BY <1>1, <2>1 DEF AppType
  <2> QED BY <1>1, <2>1, <2>2, VerifyStep
<1>3. CASE VerifyFails(i) \/ VerifyNotes(i)
  <2>1. /\ tasks[i].op = "verify" /\ tasks[i].stage \in {"reading", "looking"}
        /\ Advance(i, "done") /\ requests' = requests
        /\ app' = [app EXCEPT !.evidence = tasks[i].shown,
                              !.previewBusy = FALSE]
    BY <1>3 DEF VerifyFails, VerifyNotes, FailVerification, At
  <2>2. app' = [app EXCEPT !.snapshot = app.snapshot, !.previewBusy = FALSE,
                           !.evidence = tasks[i].shown]
    BY <1>1, <2>1 DEF AppType
  <2> QED BY <1>1, <2>1, <2>2, VerifyStep
<1> QED BY <1>2, <1>3

LEMMA CheckP2idKeeps ==
  ASSUME IInv, NEW i \in DOMAIN tasks, CheckP2id(i)
  PROVE  IInv'
<1>1. /\ tasks[i].op = "p2id" /\ tasks[i].stage = "reading"
      /\ terminal /\ tasks[i].account = tasks[i].p2id.to
      /\ Advance(i, "looking") /\ requests' = requests
      /\ app' = [app EXCEPT !.snapshot = TRUE]
  BY DEF CheckP2id, At, StillSafe
<1>2. Active(i)
  BY <1>1 DEF Active, Kinds
<1>3. /\ app' \in AppType /\ app'.shown = app.shown
      /\ app'.evidence = app.evidence /\ app'.attempted = app.attempted
      /\ app'.previewBusy = app.previewBusy
  BY <1>1, AtHand DEF AppType
<1>4. app.shown.state = "none" => app.shown = NothingShown
  BY DEF IInv, TypeOK
<1>5. app'.previewBusy
  BY <1>2, <1>3 DEF IInv, Flagged
<1>6. TaskFacts(i)'
  <2>1. /\ tasks'[i].stage = "looking" /\ tasks'[i].op = "p2id"
        /\ tasks'[i].unseen = tasks[i].unseen
        /\ tasks'[i].account = tasks[i].account
        /\ tasks'[i].p2id = tasks[i].p2id
        /\ UNCHANGED <<published, terminal>>
    BY <1>1, Advanced DEF Advance
  <2> QED BY <1>1, <1>3, <2>1, AtHand DEF TaskFacts, At, Kinds
<1> QED BY <1>1, <1>2, <1>3, <1>4, <1>5, <1>6, DisplayKept, NothingOpen, ActiveStep

(* A preview ends and shows how.                                           *)
LEMMA PreviewDone ==
  ASSUME IInv, NEW i \in DOMAIN tasks, Active(i), tasks[i].op \in Kinds,
         \A r \in DOMAIN requests : requests[r].answered,
         Advance(i, "done"), requests' = requests,
         NEW state \in {"preflight_failed", "id", "no_id"},
         state = "preflight_failed" => tasks[i].op \notin app.attempted,
         NEW notes \in BOOLEAN, NEW snapshot \in BOOLEAN,
         app' = [app EXCEPT !.previewBusy = FALSE, !.snapshot = snapshot,
                            !.shown = Show(i, state, notes)]
  PROVE  IInv'
<1> DEFINE shown == Show(i, state, notes)
<1>1. /\ shown \in ShownType /\ shown.state = state /\ shown.clicked = i
      /\ shown.kind = tasks[i].op
  BY AtHand DEF Show, ShownType
<1> HIDE DEF shown
<1>2. /\ app' \in AppType /\ app'.shown = shown
      /\ app'.evidence = app.evidence /\ app'.attempted = app.attempted
  BY <1>1, AtHand DEF AppType, shown
<1>3. app.evidence = NothingShown
  BY AtHand DEF TaskFacts, Active
<1>4. ASSUME state = "preflight_failed", NEW r \in DOMAIN requests
      PROVE  requests[r].kind # tasks[i].op
  BY <1>4 DEF IInv, RequestFacts
<1>5. NotInvokedMeansNoRequest'
  BY <1>1, <1>2, <1>4 DEF NotInvokedMeansNoRequest
<1>6. EvidenceMatchesRequest'
  BY <1>2, <1>3 DEF EvidenceMatchesRequest
<1>7. TaskFacts(i)'
  <2>1. /\ tasks'[i].stage = "done" /\ tasks'[i].op = tasks[i].op
        /\ tasks'[i].unseen = tasks[i].unseen
        /\ tasks'[i].p2id = tasks[i].p2id /\ published' = published
    BY Advanced DEF Advance
  <2> QED BY <2>1, AtHand DEF TaskFacts, At
<1> QED BY <1>1, <1>2, <1>5, <1>6, <1>7, ActiveStep

LEMMA PreflightFailsKeeps ==
  ASSUME IInv, NEW i \in DOMAIN tasks, PreflightFails(i)
  PROVE  IInv'
<1>1. /\ tasks[i].op \in Kinds /\ tasks[i].stage \in {"reading", "looking"}
      /\ Advance(i, "done") /\ requests' = requests
  BY DEF PreflightFails
<1>2. PICK notes \in {FALSE, CanAsk(i)}, read \in {app.snapshot, HasClient(i)} :
        app' = [app EXCEPT !.previewBusy = FALSE, !.snapshot = read \/ @,
                           !.shown = Show(i, "preflight_failed", notes)]
  BY DEF PreflightFails
<1>3. notes \in BOOLEAN
  BY DEF CanAsk, At
<1> DEFINE snapshot == read \/ app.snapshot
<1>4. snapshot \in BOOLEAN
  OBVIOUS
<1>5. app' = [app EXCEPT !.previewBusy = FALSE, !.snapshot = snapshot,
                         !.shown = Show(i, "preflight_failed", notes)]
  BY <1>2
<1>6. Active(i) /\ tasks[i].op \notin app.attempted
  BY <1>1, AtHand DEF Active, TaskFacts
<1>7. \A r \in DOMAIN requests : requests[r].answered
  BY <1>1, <1>6, NothingOpen
<1> HIDE DEF snapshot
<1> QED BY <1>1, <1>3, <1>4, <1>5, <1>6, <1>7, PreviewDone

LEMMA ReceiveAnswerKeeps ==
  ASSUME IInv, NEW i \in DOMAIN tasks, ReceiveAnswer(i)
  PROVE  IInv'
<1>1. /\ tasks[i].stage = "asking" /\ Answered(i) /\ Advance(i, "done")
      /\ requests' = requests
  BY DEF ReceiveAnswer
<1>2. PICK state \in {"id", "no_id"} :
        app' = [app EXCEPT !.previewBusy = FALSE,
                           !.shown = Show(i, state, TRUE)]
  BY DEF ReceiveAnswer, MapPreviewResult
<1>3. app.snapshot \in BOOLEAN
  BY AtHand DEF AppType
<1>4. app' = [app EXCEPT !.previewBusy = FALSE, !.snapshot = app.snapshot,
                         !.shown = Show(i, state, TRUE)]
  BY <1>2, AtHand DEF AppType
<1>5. tasks[i].op \in Kinds /\ Active(i)
  BY <1>1, AtHand DEF TaskFacts, Active
<1>6. ASSUME NEW r \in DOMAIN requests PROVE requests[r].answered
  <2>1. PICK q \in DOMAIN requests :
          requests[q].clicked = i /\ requests[q].answered
    BY <1>1 DEF Answered
  <2>2. CASE requests[r].clicked = i
    <3>1. requests[r].kind = requests[q].kind
      BY <2>1, <2>2 DEF IInv, RequestFacts
    <3> QED BY <2>1, <3>1 DEF IInv, OneRequestPerKind
  <2>3. CASE requests[r].clicked # i
    <3>1. tasks[requests[r].clicked].stage # "asking"
      BY <1>5, <2>3, OthersAreDone DEF IInv, RequestFacts
    <3> QED BY <3>1 DEF IInv, RequestFacts
  <2> QED BY <2>2, <2>3
<1> QED BY <1>1, <1>2, <1>3, <1>4, <1>5, <1>6, PreviewDone

(* The wallet is only asked what is still safe, and never twice.           *)
LEMMA AskWalletKeeps ==
  ASSUME IInv, NEW i \in DOMAIN tasks, AskWallet(i)
  PROVE  IInv'
<1> DEFINE sender == IF tasks[i].op = "p2id" THEN tasks[i].p2id.to
                     ELSE tasks[i].heartbeat
           q == [kind |-> tasks[i].op, clicked |-> i,
                 account |-> tasks[i].account, sender |-> sender,
                 unseen |-> tasks[i].unseen, answered |-> FALSE]
           n == Len(requests) + 1
           shown == Show(i, "awaiting", TRUE)
<1>1. /\ Advance(i, "asking") /\ requests' = Append(requests, q)
      /\ app' = [app EXCEPT !.snapshot = TRUE,
                            !.attempted = @ \cup {tasks[i].op},
                            !.shown = shown]
  BY DEF AskWallet
<1>2. /\ tasks[i].op \in Kinds /\ tasks[i].stage \in {"reading", "looking"}
      /\ terminal /\ sender = tasks[i].account
      /\ tasks[i].op = "heirbeat" => sender # Owner
      /\ tasks[i].op = "p2id" => tasks[i].unseen
  <2>1. CASE At(i, "heirbeat", "reading") /\ HasClient(i) /\ StillSafe(i)
    BY <2>1 DEF At, StillSafe, HeartbeatSafe, Kinds
  <2>2. CASE At(i, "p2id", "looking") /\ NotOnChain(tasks[i].p2id.note)
    BY <2>2, AtHand DEF At, TaskFacts, NotOnChain, Kinds
  <2> QED BY <2>1, <2>2 DEF AskWallet, CanAsk
<1>3. /\ Active(i) /\ tasks[i].op \notin app.attempted
      /\ app.evidence = NothingShown
  BY <1>2, AtHand DEF Active, TaskFacts
<1>4. \A r \in DOMAIN requests : requests[r].answered
  BY <1>2, <1>3, NothingOpen
<1>5. q \in RequestType /\ q.kind = tasks[i].op /\ q.clicked = i
      /\ q.account = tasks[i].account /\ q.sender = sender
      /\ (q.unseen <=> tasks[i].unseen)
  BY <1>2, AtHand DEF RequestType, Connectable
<1> HIDE DEF sender, q
<1>6. /\ requests' \in Seq(RequestType) /\ requests'[n] = q
      /\ DOMAIN requests' = DOMAIN requests \cup {n} /\ n \notin DOMAIN requests
      /\ \A r \in DOMAIN requests : requests'[r] = requests[r]
  <2>1. requests \in Seq(RequestType) /\ Len(requests) \in Nat
    BY DEF IInv, TypeOK
  <2> QED BY <1>1, <1>5, <2>1
<1> HIDE DEF n
<1>7. /\ shown \in ShownType /\ shown.state = "awaiting"
      /\ shown.clicked = i
  BY <1>2, AtHand DEF Show, ShownType
<1> HIDE DEF shown
<1>8. /\ app' \in AppType /\ app'.shown = shown
      /\ app'.attempted = app.attempted \cup {tasks[i].op}
      /\ app'.evidence = NothingShown /\ app'.previewBusy = app.previewBusy
  BY <1>1, <1>2, <1>3, <1>7, AtHand DEF AppType
<1>9. /\ tasks' \in Seq(TaskType) /\ DOMAIN tasks' = DOMAIN tasks
      /\ Len(tasks') = Len(tasks)
      /\ tasks'[i].stage = "asking" /\ tasks'[i].op = tasks[i].op
      /\ tasks'[i].p2id = tasks[i].p2id /\ tasks'[i].unseen = tasks[i].unseen
      /\ \A j \in DOMAIN tasks \ {i} : tasks'[j] = tasks[j]
      /\ UNCHANGED <<terminal, published, account, switches>>
  BY <1>1, Advanced DEF Advance
<1>10. TypeOK'
  BY <1>6, <1>7, <1>8, <1>9 DEF IInv, TypeOK
<1>11. ASSUME NEW j \in DOMAIN tasks', j # i
       PROVE  ~Active(j)' /\ TaskFacts(j)'
  <2>1. tasks'[j] = tasks[j] /\ j \in DOMAIN tasks
    BY <1>9, <1>11
  <2>2. /\ ~Active(j) /\ tasks[j].stage # "asking"
        /\ tasks[j].op \in Kinds \cup {"verify"} => tasks[j].stage = "done"
    BY <1>3, <1>11, <2>1, OthersAreDone
  <2>3. ~tasks[j].unseen => tasks[j].p2id.note \in published
    BY <2>1 DEF IInv, TaskFacts
  <2> QED BY <1>9, <2>1, <2>2, <2>3 DEF Active, TaskFacts, At, Kinds
<1>12. TaskFacts(i)'
  <2>1. ~tasks[i].unseen => tasks[i].p2id.note \in published
    BY AtHand DEF TaskFacts
  <2> QED BY <1>2, <1>7, <1>8, <1>9, <2>1 DEF TaskFacts, At, Kinds
<1>13. Exclusive' /\ Flagged'
  <2>1. app'.previewBusy
    BY <1>3, <1>8 DEF IInv, Flagged
  <2> QED BY <1>11, <2>1 DEF Exclusive, Flagged
<1>14. ASSUME NEW r \in DOMAIN requests' PROVE RequestFacts(r)'
  <2>1. CASE r = n
    BY <1>5, <1>6, <1>8, <1>9, <2>1 DEF RequestFacts
  <2>2. CASE r # n
    <3>1. r \in DOMAIN requests /\ requests'[r] = requests[r]
      BY <1>6, <2>2
    <3>2. RequestFacts(r) /\ requests[r].answered
      BY <1>4, <3>1 DEF IInv
    <3>3. tasks'[requests[r].clicked].op = tasks[requests[r].clicked].op
      BY <1>9, <3>2 DEF RequestFacts
    <3> QED BY <1>8, <1>9, <3>1, <3>2, <3>3 DEF RequestFacts
  <2> QED BY <2>1, <2>2
<1>15. OneRequestPerKind'
  <2>1. \A r \in DOMAIN requests : requests[r].kind # tasks[i].op
    BY <1>3 DEF IInv, RequestFacts
  <2> QED BY <1>5, <1>6, <2>1 DEF IInv, OneRequestPerKind
<1>16. RequestsAreSafe'
  <2>1. ASSUME NEW r \in DOMAIN requests'
        PROVE  /\ terminal' /\ requests'[r].sender = requests'[r].account
               /\ requests'[r].kind = "heirbeat" => requests'[r].sender # Owner
               /\ requests'[r].kind = "p2id" => requests'[r].unseen
    <3>1. CASE r = n
      BY <1>2, <1>5, <1>6, <1>9, <3>1
    <3>2. CASE r # n
      <4>1. r \in DOMAIN requests /\ requests'[r] = requests[r]
        BY <1>6, <3>2
      <4> QED BY <1>9, <4>1 DEF IInv, RequestsAreSafe
    <3> QED BY <3>1, <3>2
  <2> QED BY <2>1 DEF RequestsAreSafe
<1>17. NotInvokedMeansNoRequest' /\ EvidenceMatchesRequest'
  BY <1>7, <1>8 DEF NotInvokedMeansNoRequest, EvidenceMatchesRequest
<1> QED BY <1>10, <1>11, <1>12, <1>13, <1>14, <1>15, <1>16, <1>17 DEF IInv

-----------------------------------------------------------------------------
(* Steps that leave the previews alone.                                    *)

(* What App remembers of them.                                             *)
SamePreviews ==
  /\ app'.shown = app.shown /\ app'.evidence = app.evidence
  /\ app'.attempted = app.attempted /\ app'.previewBusy = app.previewBusy

LEMMA ReaderStep ==
  ASSUME IInv, NEW i \in DOMAIN tasks, tasks[i].op \in {"init", "read"},
         Advance(i, "done"), requests' = requests,
         app' \in AppType, SamePreviews
  PROVE  IInv'
<1>1. /\ tasks' \in Seq(TaskType) /\ DOMAIN tasks' = DOMAIN tasks
      /\ Len(tasks') = Len(tasks)
      /\ tasks'[i].stage = "done" /\ tasks'[i].op = tasks[i].op
      /\ tasks'[i].p2id = tasks[i].p2id /\ tasks'[i].unseen = tasks[i].unseen
      /\ \A j \in DOMAIN tasks \ {i} : tasks'[j] = tasks[j]
      /\ UNCHANGED <<terminal, published, account, switches>>
  BY Advanced DEF Advance
<1>2. app.shown.state = "none" => app.shown = NothingShown
  BY DEF IInv, TypeOK
<1>3. TypeOK'
  BY <1>1, <1>2 DEF IInv, TypeOK, SamePreviews
<1>4. ~Active(i) /\ ~Active(i)' /\ tasks[i].stage # "asking"
  <2>1. tasks[i].op \notin Kinds
    BY DEF Kinds
  <2> QED BY <1>1, <2>1, AtHand DEF Active, TaskFacts
<1>5. ASSUME NEW j \in DOMAIN tasks'
      PROVE  TaskFacts(j)' /\ (Active(j)' => Active(j))
  <2>1. TaskFacts(j) /\ j \in DOMAIN tasks
    BY <1>1 DEF IInv
  <2>2. CASE j = i
    BY <1>1, <1>4, <2>1, <2>2 DEF TaskFacts, At, Kinds
  <2>3. CASE j # i
    <3>1. tasks'[j] = tasks[j]
      BY <1>1, <2>3
    <3> QED BY <1>1, <2>1, <3>1 DEF TaskFacts, Active, At, SamePreviews
  <2> QED BY <2>2, <2>3
<1>6. Exclusive' /\ Flagged'
  BY <1>1, <1>5 DEF IInv, Exclusive, Flagged, SamePreviews
<1>7. ASSUME NEW r \in DOMAIN requests' PROVE RequestFacts(r)'
  <2>1. RequestFacts(r)
    BY DEF IInv
  <2>2. /\ tasks'[requests[r].clicked].op = tasks[requests[r].clicked].op
        /\ tasks[requests[r].clicked].stage = "asking" =>
             tasks'[requests[r].clicked].stage = "asking"
    BY <1>1, <1>4, <2>1 DEF RequestFacts
  <2> QED BY <1>1, <2>1, <2>2 DEF RequestFacts, SamePreviews
<1>8. /\ OneRequestPerKind' /\ RequestsAreSafe'
      /\ NotInvokedMeansNoRequest' /\ EvidenceMatchesRequest'
  BY <1>1 DEF IInv, OneRequestPerKind, RequestsAreSafe,
       NotInvokedMeansNoRequest, EvidenceMatchesRequest, SamePreviews
<1> QED BY <1>3, <1>5, <1>6, <1>7, <1>8 DEF IInv

LEMMA ReaderKeeps ==
  ASSUME IInv, NEW i \in DOMAIN tasks,
         FinishInit(i) \/ FinishRead(i) \/ RunFails(i)
  PROVE  IInv'
<1>1. CASE FinishInit(i)
  <2>1. app' = [app EXCEPT !.client = i, !.snapshot = FALSE, !.busy = FALSE]
    BY <1>1 DEF FinishInit
  <2>2. app' \in AppType /\ SamePreviews
    BY <2>1, AtHand DEF AppType, SamePreviews
  <2> QED BY <1>1, <2>2, ReaderStep DEF FinishInit, At
<1>2. CASE FinishRead(i)
  <2>1. PICK loaded \in {app.snapshot, TRUE} :
          app' = [app EXCEPT !.snapshot = loaded, !.busy = FALSE]
    BY <1>2 DEF FinishRead
  <2>2. loaded \in BOOLEAN
    BY AtHand DEF AppType
  <2>3. app' \in AppType /\ SamePreviews
    BY <2>1, <2>2, AtHand DEF AppType, SamePreviews
  <2> QED BY <1>2, <2>3, ReaderStep DEF FinishRead, At
<1>3. CASE RunFails(i)
  <2>1. app' = [app EXCEPT !.busy = FALSE]
    BY <1>3 DEF RunFails
  <2>2. app' \in AppType /\ SamePreviews
    BY <2>1, AtHand DEF AppType, SamePreviews
  <2> QED BY <1>3, <2>2, ReaderStep DEF RunFails, At
<1> QED BY <1>1, <1>2, <1>3

-----------------------------------------------------------------------------
(* Clicks.                                                                 *)

LEMMA NewTask ==
  ASSUME IInv, NEW op \in Ops, Clicked(op)
  PROVE  LET n == Len(tasks) + 1 IN
         /\ tasks' \in Seq(TaskType) /\ Len(tasks') <= MaxClicks
         /\ n \notin DOMAIN tasks /\ DOMAIN tasks' = DOMAIN tasks \cup {n}
         /\ \A j \in DOMAIN tasks : tasks'[j] = tasks[j]
         /\ tasks'[n].op = op /\ tasks'[n].stage = "reading"
         /\ tasks'[n].shown = app.shown
         /\ ~tasks'[n].unseen => tasks'[n].p2id.note \in published
<1> DEFINE n == Len(tasks) + 1
           t == [op |-> op, stage |-> "reading",
                 account |-> account, client |-> app.client,
                 heartbeat |-> app.heartbeat, p2id |-> app.p2id,
                 unseen |-> NotOnChain(app.p2id.note), shown |-> app.shown]
<1>1. /\ tasks \in Seq(TaskType) /\ Len(tasks) \in Nat /\ n \in Nat
      /\ MaxClicks \in Nat /\ Len(tasks) < MaxClicks
  BY BoundAssumption DEF IInv, TypeOK, Clicked
<1>2. app \in AppType /\ account \in Connectable
  BY DEF IInv, TypeOK
<1>3. t \in TaskType /\ t.op = op /\ t.stage = "reading"
      /\ t.p2id = app.p2id /\ t.shown = app.shown
      /\ (t.unseen <=> NotOnChain(app.p2id.note))
  BY <1>2 DEF TaskType, AppType, NotOnChain
<1>4. tasks' = Append(tasks, t)
  BY DEF Clicked
<1> HIDE DEF t
<1> QED BY <1>1, <1>3, <1>4 DEF NotOnChain

LEMMA ClickStep ==
  ASSUME IInv, NEW op \in Ops, Clicked(op), requests' = requests,
         app' \in AppType, app'.shown.state = "none" => app'.shown = NothingShown,
         app'.attempted = app.attempted,
         op \in {"init", "read"} => SamePreviews,
         op \notin {"init", "read"} => ~app.previewBusy /\ app'.previewBusy,
         op \in Kinds =>
           op \notin app.attempted /\ app'.evidence = NothingShown,
         op = "verify" => app'.shown = app.shown /\ app.shown.state # "id",
         NotInvokedMeansNoRequest', EvidenceMatchesRequest'
  PROVE  IInv'
<1>1. PICK n :
      /\ tasks' \in Seq(TaskType) /\ Len(tasks') <= MaxClicks
      /\ n \notin DOMAIN tasks /\ DOMAIN tasks' = DOMAIN tasks \cup {n}
      /\ \A j \in DOMAIN tasks : tasks'[j] = tasks[j]
      /\ tasks'[n].op = op /\ tasks'[n].stage = "reading"
      /\ tasks'[n].shown = app.shown
      /\ ~tasks'[n].unseen => tasks'[n].p2id.note \in published
  BY NewTask
<1>2. UNCHANGED <<terminal, published, account, switches>>
  BY DEF Clicked
<1>3. TypeOK'
  BY <1>1, <1>2 DEF IInv, TypeOK
<1>4. ASSUME NEW j \in DOMAIN tasks
      PROVE  /\ TaskFacts(j)' /\ (Active(j)' => Active(j))
             /\ op \notin {"init", "read"} => ~Active(j)'
  <2>1. TaskFacts(j) /\ tasks'[j] = tasks[j]
    BY <1>1 DEF IInv
  <2>2. CASE op \in {"init", "read"}
    BY <1>2, <2>1, <2>2 DEF TaskFacts, Active, At, SamePreviews
  <2>3. CASE op \notin {"init", "read"}
    <3>1. ~Active(j)
      BY <2>3 DEF IInv, Flagged
    <3>2. /\ tasks[j].stage # "asking"
          /\ tasks[j].op \in Kinds \cup {"verify"} => tasks[j].stage = "done"
          /\ ~tasks[j].unseen => tasks[j].p2id.note \in published
      BY <2>1, <3>1 DEF TaskFacts, Active
    <3> QED BY <1>2, <2>1, <3>1, <3>2 DEF TaskFacts, Active, At, Kinds
  <2> QED BY <2>2, <2>3
<1>5. TaskFacts(n)'
  BY <1>1, <1>2 DEF TaskFacts, At, Kinds
<1>6. op \in {"init", "read"} => ~Active(n)'
  BY <1>1 DEF Active, Kinds
<1>7. Exclusive'
  <2>1. CASE op \in {"init", "read"}
    BY <1>1, <1>4, <1>6, <2>1 DEF IInv, Exclusive
  <2>2. CASE op \notin {"init", "read"}
    BY <1>1, <1>4, <2>2 DEF Exclusive
  <2> QED BY <2>1, <2>2
<1>8. Flagged'
  <2>1. CASE op \in {"init", "read"}
    BY <1>1, <1>4, <1>6, <2>1 DEF IInv, Flagged, SamePreviews
  <2>2. CASE op \notin {"init", "read"}
    BY <2>2 DEF Flagged
  <2> QED BY <2>1, <2>2
<1>9. ASSUME NEW r \in DOMAIN requests' PROVE RequestFacts(r)'
  <2>1. RequestFacts(r)
    BY DEF IInv
  <2>2. tasks'[requests[r].clicked] = tasks[requests[r].clicked]
    BY <1>1, <2>1 DEF RequestFacts
  <2> QED BY <1>1, <2>1, <2>2 DEF RequestFacts
<1>10. OneRequestPerKind' /\ RequestsAreSafe'
  BY <1>2 DEF IInv, OneRequestPerKind, RequestsAreSafe
<1> QED BY <1>1, <1>3, <1>4, <1>5, <1>7, <1>8, <1>9, <1>10 DEF IInv

LEMMA ClickKeeps ==
  ASSUME IInv, Click
  PROVE  IInv'
<1>1. app \in AppType /\ (app.shown.state = "none" => app.shown = NothingShown)
      /\ NothingShown \in ShownType /\ NothingShown.state = "none"
  BY DEF IInv, TypeOK, NothingShown, ShownType, Kinds
<1>2. CASE ClickPrepare
  <2>1. /\ ~app.previewBusy /\ Clicked("prepare") /\ requests' = requests
        /\ app' = [app EXCEPT !.previewBusy = TRUE, !.heartbeat = NoAccount,
                              !.p2id = NoP2id, !.evidence = NothingShown]
    BY <1>2 DEF ClickPrepare, Clicked
  <2>2. NoP2id \in P2idType /\ NoAccount \in Connectable
    BY DEF NoP2id, P2idType, Connectable
  <2>3. /\ app' \in AppType /\ app'.shown = app.shown
        /\ app'.evidence = NothingShown
        /\ app'.attempted = app.attempted /\ app'.previewBusy
    BY <1>1, <2>1, <2>2 DEF AppType
  <2>4. NotInvokedMeansNoRequest' /\ EvidenceMatchesRequest'
    BY <2>1, <2>3 DEF IInv, NotInvokedMeansNoRequest, EvidenceMatchesRequest
  <2>5. "prepare" \in Ops /\ "prepare" \notin Kinds
    BY DEF Ops, Kinds
  <2> QED BY <1>1, <2>1, <2>3, <2>4, <2>5, ClickStep
<1>3. CASE ClickVerify
  <2>1. /\ ~app.previewBusy /\ Clicked("verify") /\ requests' = requests
        /\ app.shown.state # "id"
        /\ app' = [app EXCEPT !.previewBusy = TRUE, !.evidence = NothingShown]
    BY <1>3 DEF ClickVerify, StartVerify, Clicked
  <2>2. /\ app' \in AppType /\ app'.shown = app.shown
        /\ app'.evidence = NothingShown
        /\ app'.attempted = app.attempted /\ app'.previewBusy
    BY <1>1, <2>1 DEF AppType
  <2>3. NotInvokedMeansNoRequest' /\ EvidenceMatchesRequest'
    BY <2>1, <2>2 DEF IInv, NotInvokedMeansNoRequest, EvidenceMatchesRequest
  <2>4. "verify" \in Ops /\ "verify" \notin Kinds
    BY DEF Ops, Kinds
  <2> QED BY <1>1, <2>1, <2>2, <2>3, <2>4, ClickStep
<1>4. ASSUME NEW kind \in Kinds, ClickPreview(kind)
      PROVE  IInv'
  <2>1. /\ ~app.previewBusy /\ Clicked(kind) /\ requests' = requests
        /\ kind \notin app.attempted
        /\ app' = [app EXCEPT !.previewBusy = TRUE, !.shown = NothingShown,
                              !.evidence = NothingShown]
    BY <1>4 DEF ClickPreview, CanStartPreview, StartPreview, Clicked
  <2>2. /\ app' \in AppType /\ app'.shown = NothingShown
        /\ app'.evidence = NothingShown
        /\ app'.attempted = app.attempted /\ app'.previewBusy
    BY <1>1, <2>1 DEF AppType
  <2>3. NotInvokedMeansNoRequest' /\ EvidenceMatchesRequest'
    BY <1>1, <2>2 DEF NotInvokedMeansNoRequest, EvidenceMatchesRequest
  <2>4. kind \in Ops /\ kind # "verify"
        /\ kind \notin {"init", "read"}
    BY DEF Ops, Kinds
  <2> QED BY <2>1, <2>2, <2>3, <2>4, ClickStep
<1>5. ASSUME NEW op \in {"init", "read"}, ClickRun(op)
      PROVE  IInv'
  <2>1. /\ Clicked(op) /\ requests' = requests
        /\ app' = [app EXCEPT !.busy = TRUE]
    BY <1>5 DEF ClickRun, Clicked
  <2>2. app' \in AppType /\ SamePreviews
    BY <1>1, <2>1 DEF AppType, SamePreviews
  <2>3. NotInvokedMeansNoRequest' /\ EvidenceMatchesRequest'
    BY <2>1, <2>2, DisplayKept DEF SamePreviews
  <2>4. op \in Ops /\ op \notin Kinds /\ op # "verify"
    BY DEF Ops, Kinds
  <2> QED BY <1>1, <2>1, <2>2, <2>3, <2>4, ClickStep DEF SamePreviews
<1> QED BY <1>2, <1>3, <1>4, <1>5 DEF Click

-----------------------------------------------------------------------------
(* The chain and the wallet.                                               *)

(* Only what has been seen of the chain, or an answer, changes.            *)
LEMMA OutsideStep ==
  ASSUME IInv, UNCHANGED <<app, tasks>>, TypeOK', terminal => terminal',
         published \subseteq published', DOMAIN requests' = DOMAIN requests,
         \A r \in DOMAIN requests :
           /\ requests'[r].kind = requests[r].kind
           /\ requests'[r].clicked = requests[r].clicked
           /\ requests'[r].account = requests[r].account
           /\ requests'[r].sender = requests[r].sender
           /\ requests'[r].unseen = requests[r].unseen
           /\ requests[r].answered => requests'[r].answered
  PROVE  IInv'
<1>1. Exclusive' /\ Flagged'
  BY DEF IInv, Exclusive, Flagged, Active
<1>2. ASSUME NEW i \in DOMAIN tasks' PROVE TaskFacts(i)'
  BY DEF IInv, TaskFacts, At
<1>3. ASSUME NEW r \in DOMAIN requests' PROVE RequestFacts(r)'
  BY DEF IInv, RequestFacts
<1>4. OneRequestPerKind' /\ RequestsAreSafe'
  BY DEF IInv, OneRequestPerKind, RequestsAreSafe
<1>5. NotInvokedMeansNoRequest' /\ EvidenceMatchesRequest'
  BY DEF IInv, NotInvokedMeansNoRequest, EvidenceMatchesRequest
<1> QED BY <1>1, <1>2, <1>3, <1>4, <1>5 DEF IInv

LEMMA EnvironmentKeeps ==
  ASSUME IInv, Environment
  PROVE  IInv'
<1> USE DEF IInv, TypeOK
<1>1. CASE Claim
  BY <1>1, OutsideStep DEF Claim
<1>2. ASSUME NEW i \in DOMAIN tasks, Publish(i)
      PROVE  IInv'
  <2>1. i \in 1..MaxClicks
    BY BoundAssumption
  <2> QED BY <1>2, <2>1, OutsideStep DEF Publish
<1>3. ASSUME NEW a \in Connectable, SwitchAccount(a)
      PROVE  IInv'
  <2>1. switches + 1 \in 0..MaxSwitches
    BY <1>3, BoundAssumption DEF SwitchAccount
  <2> QED BY <1>3, <2>1, OutsideStep DEF SwitchAccount
<1>4. ASSUME NEW r \in DOMAIN requests, WalletAnswers(r)
      PROVE  IInv'
  <2> DEFINE q == [requests[r] EXCEPT !.answered = TRUE]
  <2>1. requests \in Seq(RequestType) /\ requests[r] \in RequestType
    OBVIOUS
  <2>2. /\ q \in RequestType /\ q.kind = requests[r].kind
        /\ q.clicked = requests[r].clicked /\ q.account = requests[r].account
        /\ q.sender = requests[r].sender /\ q.unseen = requests[r].unseen
        /\ q.answered
    BY <2>1 DEF RequestType
  <2>3. requests' = [requests EXCEPT ![r] = q]
    BY <1>4 DEF WalletAnswers
  <2> HIDE DEF q
  <2>4. /\ requests' \in Seq(RequestType)
        /\ DOMAIN requests' = DOMAIN requests
        /\ requests'[r] = q
        /\ \A k \in DOMAIN requests \ {r} : requests'[k] = requests[k]
    BY <2>1, <2>2, <2>3
  <2>5. UNCHANGED <<terminal, published, account, switches, app, tasks>>
    BY <1>4 DEF WalletAnswers
  <2>6. TypeOK'
    BY <2>4, <2>5
  <2> QED BY <2>2, <2>4, <2>5, <2>6, OutsideStep
<1> QED BY <1>1, <1>2, <1>3, <1>4 DEF Environment

LEMMA StutterKeeps ==
  ASSUME IInv, UNCHANGED vars
  PROVE  IInv'
BY OutsideStep DEF IInv, TypeOK, vars

-----------------------------------------------------------------------------
LEMMA ContinueKeeps ==
  ASSUME IInv, NEW i \in DOMAIN tasks, Continue(i)
  PROVE  IInv'
BY ReaderKeeps, PrepareHeartbeatKeeps, PrepareP2idKeeps, PrepareEndsKeeps,
   CheckP2idKeeps, AskWalletKeeps, PreflightFailsKeeps, ReceiveAnswerKeeps,
   VerifyKeeps DEF Continue

(* The flags keep the handlers of the previews apart, in every reachable   *)
(* state, and what each of them relies on is still so when it acts on it.  *)
THEOREM InvariantHolds == Spec => []IInv
<1>1. IInv /\ [Next]_vars => IInv'
  BY EnvironmentKeeps, ClickKeeps, ContinueKeeps, StutterKeeps DEF Next
<1> QED BY InitHolds, <1>1, PTL DEF Spec

(* The state of App, of the wallet and of every handler has its type.      *)
THEOREM TypeCorrect == Spec => []TypeOK
<1>1. IInv => TypeOK
  BY DEF IInv
<1> QED BY <1>1, InvariantHolds, PTL

(* The wallet is asked at most once for a heartbeat and once for a P2ID    *)
(* consumption, whatever is clicked while handlers wait.                   *)
THEOREM WalletAskedOnce == Spec => []OneRequestPerKind
<1>1. IInv => OneRequestPerKind
  BY DEF IInv
<1> QED BY <1>1, InvariantHolds, PTL

(* Every request is one the contract refuses, for the account the user     *)
(* clicked with and, for P2ID, a note that had not been seen on chain.     *)
THEOREM WalletAskedSafely == Spec => []RequestsAreSafe
<1>1. IInv => RequestsAreSafe
  BY DEF IInv
<1> QED BY <1>1, InvariantHolds, PTL

(* When App says that the wallet was not called, it never was.             *)
THEOREM NotInvokedIsTrue == Spec => []NotInvokedMeansNoRequest
<1>1. IInv => NotInvokedMeansNoRequest
  BY DEF IInv
<1> QED BY <1>1, InvariantHolds, PTL

(* A request the wallet has open is the one App displays: its handler is   *)
(* the only one that may write to the display.                             *)
THEOREM OpenRequestStaysShown == Spec => []OpenRequestIsShown
<1>1. IInv => OpenRequestIsShown
  <2> SUFFICES ASSUME IInv, NEW r \in DOMAIN requests, ~requests[r].answered
               PROVE  /\ app.shown.state = "awaiting"
                      /\ app.shown.clicked = requests[r].clicked
    BY DEF OpenRequestIsShown
  <2>1. requests[r].clicked \in DOMAIN tasks
        /\ tasks[requests[r].clicked].stage = "asking"
    BY DEF IInv, RequestFacts
  <2> QED BY <2>1 DEF IInv, TaskFacts
<1> QED BY <1>1, InvariantHolds, PTL

(* Evidence made from the preview captured at the click is never displayed *)
(* beside another one, or beside a transaction ID: no handler that could   *)
(* replace the preview runs between the click and the last write.          *)
THEOREM EvidenceIsOfRequestShown == Spec => []EvidenceMatchesRequest
<1>1. IInv => EvidenceMatchesRequest
  BY DEF IInv
<1> QED BY <1>1, InvariantHolds, PTL
=============================================================================
