------------------------------ MODULE VaultView ------------------------------
(***************************************************************************)
(* What the page of the frontend tells of a vault.                         *)
(*                                                                         *)
(* A block number and the account are read one after the other while the   *)
(* chain goes on, through the client, which answers from the store of its  *)
(* last sync, or from the RPC endpoint.  Handlers that the flags busy and  *)
(* previewBusy let run together take turns in writing the one snapshot the *)
(* page derives its phase and countdown from.  As in HeirbeatVault, an     *)
(* operator right before one it resembles is a fault that no action uses.  *)
(***************************************************************************)
EXTENDS HeirbeatVault

CONSTANTS
  NoAccount,  \* no account: nothing stored, or nothing read yet
  MaxReads    \* bound of the handlers started

ASSUME ViewAssumption == NoAccount \notin AccountType /\ MaxReads \in Nat

VARIABLES
  client,  \* the browser's client and its store, which outlives the client
  reads,   \* the handler that runs under each flag
  page,    \* block and account of the snapshot, if the page has one
  started, \* handlers started so far
  past     \* what the chain had recorded when each block became the newest

view == <<client, reads, page, started>>

Flags == {"busy", "previewBusy"}
Ops == {"connect", "load", "prepare", "verify"}

(* What the page's phase and countdown are derived from.                   *)
FactsType == [last : Nat, activated : BOOLEAN, claimed : BOOLEAN]
Facts(a) ==
  [last |-> a.last, activated |-> a.activated, claimed |-> a.claimed]

SnapshotType == [block : Nat, seen : AccountType]

(* synced: height of the last sync; copy: the vault as the store has it.   *)
ClientType ==
  [connected : BOOLEAN, synced : 0..MaxHeight,
   copy : AccountType \union {NoAccount}]

ReadType ==
  [op : Ops, stage : {"syncing", "block", "account", "done"},
   block : 0..MaxHeight]

NoRead == [op |-> "load", stage |-> "done", block |-> 0]
NoSnapshot == [block |-> 0, seen |-> NoAccount]

ViewTypeOK ==
  /\ client \in ClientType
  /\ reads \in [Flags -> ReadType]
  /\ page \in SnapshotType \union {NoSnapshot}
  /\ started \in 0..MaxReads
  /\ past \in [0..MaxHeight -> FactsType]

ViewInit ==
  /\ client = [connected |-> FALSE, synced |-> 0, copy |-> NoAccount]
  /\ reads = [f \in Flags |-> NoRead]
  /\ page = NoSnapshot
  /\ started = 0
  /\ past = [b \in 0..MaxHeight |-> Facts(account)]

-----------------------------------------------------------------------------
(* The buttons.                                                            *)

Idle(f) == reads[f].stage = "done"

Start(f, op, stage) ==
  /\ Idle(f)
  /\ started < MaxReads /\ started' = started + 1
  /\ reads' = [reads EXCEPT ![f] = [op |-> op, stage |-> stage, block |-> 0]]
  /\ UNCHANGED <<client, page>>

ClickConnect == Start("busy", "connect", "syncing")
ClickLoad == client.connected /\ Start("busy", "load", "block")
ClickPrepare ==
  /\ client.connected /\ page # NoSnapshot /\ Idle("busy")
  /\ Start("previewBusy", "prepare", "syncing")
ClickVerify == page # NoSnapshot /\ Start("previewBusy", "verify", "block")

-----------------------------------------------------------------------------
(* The handlers after an await.                                            *)

(* syncChain: the store learns the newest state of what it tracks.         *)
Synced ==
  [client EXCEPT !.synced = height,
                 !.copy = IF @ = NoAccount THEN NoAccount ELSE account]

Sync(f) ==
  /\ reads[f].stage = "syncing"
  /\ client' = Synced
  /\ reads' = [reads EXCEPT ![f].stage = "block"]
  /\ UNCHANGED <<page, started>>

(* connectClient has the new client's height and drops the snapshot.       *)
Connected ==
  /\ reads["busy"].op = "connect" /\ reads["busy"].stage = "block"
  /\ client' = [client EXCEPT !.connected = TRUE]
  /\ page' = NoSnapshot
  /\ reads' = [reads EXCEPT !["busy"] = NoRead]
  /\ UNCHANGED started

(* getSyncHeight; for readVaultFromRpc the header of the newest block.     *)
NewestBlock(f) == height
BlockRead(f) == IF reads[f].op = "verify" THEN height ELSE client.synced

ReadBlock(f) ==
  /\ reads[f].stage = "block" /\ reads[f].op # "connect"
  /\ reads' = [reads EXCEPT ![f].stage = "account",
                            ![f].block = BlockRead(f)]
  /\ UNCHANGED <<client, page, started>>

(* getOrImport answers from the store and imports what it does not have.   *)
GetOrImport == IF client.copy = NoAccount THEN account ELSE client.copy

(* The account, and with it the snapshot.  React applies a result when the *)
(* handler is resumed, in the order in which the answers came.             *)
ReadAccount(f) ==
  /\ reads[f].stage = "account"
  /\ IF reads[f].op = "verify"
     THEN /\ page' = [block |-> reads[f].block, seen |-> account]
          /\ UNCHANGED client
     ELSE /\ page' = [block |-> reads[f].block, seen |-> GetOrImport]
          /\ client' = [client EXCEPT !.copy = GetOrImport]
  /\ reads' = [reads EXCEPT ![f] = NoRead]
  /\ UNCHANGED started

(* Any call may fail: the handler ends and the page stays as it is.        *)
ReadFails(f) ==
  /\ ~Idle(f)
  /\ reads' = [reads EXCEPT ![f] = NoRead]
  /\ UNCHANGED <<client, page, started>>

ViewStep ==
  \/ ClickConnect \/ ClickLoad \/ ClickPrepare \/ ClickVerify
  \/ Connected
  \/ \E f \in Flags : Sync(f) \/ ReadBlock(f) \/ ReadAccount(f) \/ ReadFails(f)

(* past is a history variable: a new block holds all that was committed    *)
(* before it.  No action reads it.                                         *)
RecordBlock ==
  past' = IF height' = height THEN past
          ELSE [past EXCEPT ![height'] = Facts(account)]

ViewNext ==
  \/ Next /\ RecordBlock /\ UNCHANGED view
  \/ ViewStep /\ UNCHANGED <<vars, past>>

ViewSpec == Init /\ ViewInit /\ [][ViewNext]_<<vars, view, past>>

(* The page only looks: the vault's fairness is all that is asked.         *)
FairViewSpec == ViewSpec /\ Fair

-----------------------------------------------------------------------------
(* lifecycle.ts: the page's countdown, in unbounded integers.              *)

DeriveDeadline(last) == last + Timeout

RemainingOfU32(shown) ==
  LET deadline == DeriveDeadline(shown.seen.last) % (U32Max + 1) IN
  IF deadline > shown.block THEN deadline - shown.block ELSE 0

Remaining(shown) ==
  LET deadline == DeriveDeadline(shown.seen.last) IN
  IF deadline > shown.block THEN deadline - shown.block ELSE 0

-----------------------------------------------------------------------------
(* Properties.                                                             *)

(* The page shows a block and an account that were read at different       *)
(* times, by handlers that take turns and from a store that is older than  *)
(* either.  Whatever the chain had recorded when the block on display was  *)
(* its newest is in the account on display: the page never counts from a   *)
(* heartbeat older than one its own block has seen, and never offers as    *)
(* open a vault that had been claimed by then.                             *)
NothingMissed ==
  page # NoSnapshot =>
    /\ past[page.block].last <= page.seen.last
    /\ past[page.block].activated => page.seen.activated
    /\ past[page.block].claimed => page.seen.claimed

(* However old the snapshot, a beneficiary who waits for the block it says *)
(* is not sent too early: unless a heartbeat or a claim has come since,    *)
(* the contract's deadline has then passed on chain and the vault is open. *)
CountdownSuffices ==
  /\ page # NoSnapshot /\ Open(page.seen)
  /\ ~account.claimed /\ account.last = page.seen.last
  /\ height >= page.block + Remaining(page)
  => Open(account) /\ Eligible(height, account.last)
=============================================================================
