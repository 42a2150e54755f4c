--------------------------- MODULE MCWalletPreview ---------------------------
(* A starting point from which TLC checks WalletPreview: the client is     *)
(* connected and the vault has been read, which takes two clicks.          *)
EXTENDS WalletPreview

Blank(op) ==
  [op |-> op, stage |-> "done", account |-> NoAccount, client |-> 0,
   heartbeat |-> NoAccount, p2id |-> NoP2id, unseen |-> TRUE,
   shown |-> NothingShown]

Loaded ==
  /\ terminal \in BOOLEAN /\ published = {}
  /\ account = NoAccount /\ switches = 0
  /\ requests = <<>> /\ tasks = <<Blank("init"), Blank("read")>>
  /\ app = [client |-> 1, snapshot |-> TRUE, busy |-> FALSE,
            previewBusy |-> FALSE, heartbeat |-> NoAccount, p2id |-> NoP2id,
            attempted |-> {}, shown |-> NothingShown, evidence |-> NothingShown]

MCSpec ==
  /\ Loaded /\ [][Next]_vars
  /\ \A i \in 1..MaxClicks :
       WF_vars(i \in DOMAIN tasks /\ ~Hung(i) /\ Continue(i))
=============================================================================
