-------------------------- MODULE VaultView_proofs --------------------------
(***************************************************************************)
(* What the page shows is never behind the block it shows it for, however  *)
(* long the chain and however many handlers read it at once.               *)
(*                                                                         *)
(* Block and account of a snapshot are read at times of their own, and the *)
(* store may be older than both.  Three facts are enough.  A block once    *)
(* read lies behind the chain.  What an account said when it was read      *)
(* still bounds the account of today: the flags stay, the heartbeat does   *)
(* not go back; this comes from the vault's own theorems, for a page that  *)
(* only looks leaves the vault to its behaviour.  And the store's account  *)
(* has all that the block of its last sync had, so that a handler which    *)
(* takes its block from the store may take its account from there too.     *)
(***************************************************************************)
EXTENDS VaultView, HeirbeatVault_proofs

(* a has all that the facts f recorded: no flag or heartbeat is missing.   *)
Covers(a, f) ==
  /\ f.last <= a.last
  /\ f.activated => a.activated
  /\ f.claimed => a.claimed

(* What a page may rely on of an account it read some time ago.            *)
Outlived(a) == a \in AccountType /\ Covers(account, a)

(* a is no older than any block up to b.                                   *)
UpTo(a, b) == \A c \in 0..b : Covers(a, past[c])

Behind ==
  /\ client.synced <= height
  /\ \A f \in Flags : reads[f].block <= height
  /\ page # NoSnapshot => page.block <= height

Known ==
  /\ client.copy # NoAccount => Outlived(client.copy)
  /\ page # NoSnapshot => Outlived(page.seen)

(* A handler that asks the store for the account has its block from there. *)
Recorded ==
  /\ UpTo(account, height)
  /\ client.copy # NoAccount => UpTo(client.copy, client.synced)
  /\ \A f \in Flags :
       reads[f].stage = "account" /\ reads[f].op # "verify" =>
         reads[f].block <= client.synced
  /\ page # NoSnapshot => UpTo(page.seen, page.block)

ViewInv == ViewTypeOK /\ Behind /\ Known /\ Recorded

(* A step of the vault: time goes on, one block at most, and nothing the   *)
(* page relies on is taken back.                                           *)
Onward ==
  /\ height' \in {height, height + 1} /\ height' <= MaxHeight
  /\ Covers(account', account)

LEMMA CoversIsTransitive ==
  ASSUME NEW a, NEW b, NEW c,
         a.last \in Nat, b.last \in Nat, c.last \in Nat,
         Covers(a, b), Covers(b, c)
  PROVE  Covers(a, c)
  BY DEF Covers

LEMMA NextIsOnward ==
  ASSUME IInv, IInv', [Next]_vars
  PROVE  Onward
<1>1. /\ height \in Nat /\ height' \in Nat /\ height' <= MaxHeight
      /\ account.last \in Nat
  BY TimeAssumption DEF IInv, TypeOK, AccountType
<1>2. CASE UNCHANGED <<height, account, payouts>>
  BY <1>1, <1>2 DEF Onward, Covers
<1>3. CASE /\ height < MaxHeight /\ height' = height + 1
           /\ UNCHANGED <<account, payouts>>
  BY <1>1, <1>3 DEF Onward, Covers
<1>4. ASSUME NEW e \in Executors, CommitTransaction(e)
      PROVE  Onward
  <2>1. /\ account.activated => account'.activated
        /\ account.last <= account'.last
    BY <1>4, CommittedResult DEF StepInv
  <2>2. account.claimed => account'.claimed
    BY <1>4, CommittedResult DEF StepInv
  <2> QED
    BY <1>1, <1>4, <2>1, <2>2 DEF Onward, Covers, CommitTransaction
<1> QED
  BY <1>2, <1>3, <1>4, OnlyCommitsChangeTheAccount

LEMMA VaultStepKeepsView ==
  ASSUME ViewInv, IInv, IInv', Onward, UNCHANGED view, RecordBlock
  PROVE  ViewInv'
<1>1. /\ height \in 0..MaxHeight /\ height' \in 0..MaxHeight
      /\ height \in Nat /\ height' \in Nat /\ height <= height'
      /\ height' \in {height, height + 1}
      /\ account \in AccountType /\ account' \in AccountType
  BY TimeAssumption DEF IInv, TypeOK, Onward
<1>2. Facts(account) \in FactsType /\ past \in [0..MaxHeight -> FactsType]
  BY <1>1 DEF Facts, FactsType, AccountType, ViewInv, ViewTypeOK
<1>3. ViewTypeOK'
  <2>1. past' \in [0..MaxHeight -> FactsType]
    BY <1>1, <1>2 DEF RecordBlock
  <2> QED
    BY <2>1 DEF ViewInv, ViewTypeOK, view
<1>4. /\ client.synced \in Nat /\ \A f \in Flags : reads[f].block \in Nat
      /\ page # NoSnapshot => page.block \in Nat
  BY TimeAssumption
  DEF ViewInv, ViewTypeOK, ClientType, ReadType, SnapshotType
<1>5. Behind'
  BY <1>1, <1>4 DEF ViewInv, Behind, view
<1>6. ASSUME NEW a, Outlived(a) PROVE Outlived(a)'
  <2>1. a.last \in Nat /\ account.last \in Nat /\ account'.last \in Nat
    BY <1>1, <1>6 DEF Outlived, AccountType
  <2> QED
    BY <1>6, <2>1, CoversIsTransitive DEF Outlived, Onward
<1>7. Known'
  BY <1>6 DEF ViewInv, Known, view
<1>8. \A c \in 0..height : past'[c] = past[c]
  BY <1>1, <1>2 DEF RecordBlock
<1>9. ASSUME NEW a, NEW b \in Nat, b <= height, UpTo(a, b) PROVE UpTo(a, b)'
  BY <1>1, <1>8, <1>9 DEF UpTo
<1>10. UpTo(account, height)
  BY DEF ViewInv, Recorded
<1>11. ASSUME NEW c \in 0..height' PROVE Covers(account', past'[c])
  <2>1. account.last \in Nat /\ account'.last \in Nat
    BY <1>1 DEF AccountType
  <2>2. CASE c \in 0..height
    <3>1. Covers(account, past[c])
      BY <1>10, <2>2 DEF UpTo
    <3>2. c \in 0..MaxHeight
      BY <1>1, <2>2, TimeAssumption
    <3>3. past[c].last \in Nat
      BY <1>2, <3>2 DEF FactsType
    <3> QED
      BY <1>8, <2>1, <2>2, <3>1, <3>3, CoversIsTransitive DEF Onward
  <2>3. CASE c \notin 0..height
    <3>1. c = height' /\ height' # height
      BY <1>1, <2>3
    <3>2. past'[c] = Facts(account)
      BY <1>1, <1>2, <3>1 DEF RecordBlock
    <3> QED
      BY <3>2 DEF Onward, Covers, Facts
  <2> QED
    BY <2>2, <2>3
<1>12. UpTo(account, height)'
  BY <1>11 DEF UpTo
<1>13. client.copy # NoAccount => UpTo(client.copy, client.synced)'
  BY <1>4, <1>9 DEF ViewInv, Recorded, Behind, view, UpTo
<1>14. page # NoSnapshot => UpTo(page.seen, page.block)'
  BY <1>4, <1>9 DEF ViewInv, Recorded, Behind, view, UpTo
<1>15. Recorded'
  BY <1>12, <1>13, <1>14 DEF ViewInv, Recorded, view
<1> QED
  BY <1>3, <1>5, <1>7, <1>15 DEF ViewInv

(* The current account is one the page may rely on.                        *)
LEMMA AccountIsCurrent ==
  ASSUME IInv
  PROVE  /\ Outlived(account) /\ account # NoAccount
         /\ height \in 0..MaxHeight
  BY ViewAssumption DEF IInv, TypeOK, Outlived, Covers, AccountType

LEMMA StartKeepsView ==
  ASSUME ViewInv, IInv, UNCHANGED <<vars, past>>,
         NEW f \in Flags, NEW op \in Ops, NEW stage \in {"syncing", "block"},
         Start(f, op, stage)
  PROVE  ViewInv'
<1> DEFINE new == [op |-> op, stage |-> stage, block |-> 0]
<1>1. new \in ReadType /\ new.block = 0 /\ new.stage # "account"
  BY TimeAssumption DEF ReadType
<1>2. reads' = [reads EXCEPT ![f] = new]
  BY DEF Start
<1> HIDE DEF new
<1>3. ViewTypeOK'
  BY <1>1, <1>2, ViewAssumption DEF ViewInv, ViewTypeOK, Start
<1>4. Behind'
  BY <1>1, <1>2, TimeAssumption
  DEF ViewInv, ViewTypeOK, Behind, Start, vars, IInv, TypeOK
<1>5. Known'
  BY DEF ViewInv, Known, Outlived, Covers, Start, vars
<1>6. Recorded'
  BY <1>1, <1>2 DEF ViewInv, ViewTypeOK, Recorded, UpTo, Covers, Start, vars
<1> QED
  BY <1>3, <1>4, <1>5, <1>6 DEF ViewInv

(* A handler that ends, with or without a result.                          *)
LEMMA NoReadIsRead ==
  NoRead \in ReadType /\ NoRead.block = 0 /\ NoRead.stage # "account"
  BY TimeAssumption DEF NoRead, ReadType, Ops

LEMMA SyncKeepsView ==
  ASSUME ViewInv, IInv, UNCHANGED <<vars, past>>, NEW f \in Flags, Sync(f)
  PROVE  ViewInv'
<1>1. height \in 0..MaxHeight /\ Outlived(account)
  BY AccountIsCurrent
<1>2. /\ client'.synced = height /\ client'.connected = client.connected
      /\ client'.copy \in {NoAccount, account}
      /\ client' \in ClientType
  BY <1>1 DEF Sync, Synced, ViewInv, ViewTypeOK, ClientType, Outlived
<1>3. /\ reads' \in [Flags -> ReadType]
      /\ \A g \in Flags : /\ reads'[g].block = reads[g].block
                           /\ reads'[g].op = reads[g].op
                           /\ reads'[g].stage \in {"block", reads[g].stage}
  BY DEF Sync, ViewInv, ViewTypeOK, ReadType
<1>4. UNCHANGED <<page, started, height, account, past>>
  BY DEF Sync, vars
<1>5. ViewTypeOK'
  BY <1>2, <1>3, <1>4 DEF ViewInv, ViewTypeOK
<1>6. Behind'
  BY <1>1, <1>2, <1>3, <1>4 DEF ViewInv, Behind
<1>7. Known'
  BY <1>1, <1>2, <1>4 DEF ViewInv, Known, Outlived, Covers
<1>8. UpTo(account, height)
  BY DEF ViewInv, Recorded
<1>9. \A g \in Flags : reads[g].block <= client'.synced
  BY <1>2 DEF ViewInv, Behind
<1>10. Recorded'
  BY <1>2, <1>3, <1>4, <1>8, <1>9 DEF ViewInv, Recorded, UpTo, Covers
<1> QED
  BY <1>5, <1>6, <1>7, <1>10 DEF ViewInv

LEMMA ConnectedKeepsView ==
  ASSUME ViewInv, IInv, UNCHANGED <<vars, past>>, Connected
  PROVE  ViewInv'
<1>1. client' \in ClientType
  BY DEF Connected, ViewInv, ViewTypeOK, ClientType
<1>2. client'.synced = client.synced /\ client'.copy = client.copy
  BY DEF Connected, ViewInv, ViewTypeOK, ClientType
<1>3. /\ reads' = [reads EXCEPT !["busy"] = NoRead]
      /\ page' = NoSnapshot /\ started' = started
      /\ height' = height /\ account' = account /\ past' = past
  BY DEF Connected, vars
<1>4. ViewTypeOK'
  BY <1>1, <1>3, NoReadIsRead DEF ViewInv, ViewTypeOK, Flags
<1>5. Behind'
  BY <1>2, <1>3, NoReadIsRead, AccountIsCurrent
  DEF ViewInv, ViewTypeOK, Behind, Flags
<1>6. Known'
  BY <1>2, <1>3 DEF ViewInv, Known, Outlived, Covers
<1>7. Recorded'
  BY <1>2, <1>3, NoReadIsRead
  DEF ViewInv, ViewTypeOK, Recorded, UpTo, Covers, Flags
<1> QED
  BY <1>4, <1>5, <1>6, <1>7 DEF ViewInv

LEMMA ReadBlockKeepsView ==
  ASSUME ViewInv, IInv, UNCHANGED <<vars, past>>, NEW f \in Flags, ReadBlock(f)
  PROVE  ViewInv'
<1>1. PICK b \in {height, client.synced} :
        /\ reads' = [reads EXCEPT ![f].stage = "account", ![f].block = b]
        /\ reads[f].op # "verify" => b = client.synced
  BY DEF ReadBlock, BlockRead
<1>2. b \in 0..MaxHeight /\ b <= height
  BY AccountIsCurrent DEF ViewInv, ViewTypeOK, ClientType, Behind
<1>3. reads' \in [Flags -> ReadType]
  BY <1>1, <1>2 DEF ViewInv, ViewTypeOK, ReadType
<1>4. \A g \in Flags : reads'[g].block \in {b, reads[g].block}
  BY <1>1 DEF ViewInv, ViewTypeOK, ReadType
<1>5. UNCHANGED <<client, page, started, height, account, past>>
  BY DEF ReadBlock, vars
<1>6. ViewTypeOK'
  BY <1>3, <1>5 DEF ViewInv, ViewTypeOK
<1>7. Behind'
  BY <1>2, <1>4, <1>5 DEF ViewInv, Behind
<1>8. Known'
  BY <1>5 DEF ViewInv, Known, Outlived, Covers
<1>9. client.synced \in Nat
  BY TimeAssumption DEF ViewInv, ViewTypeOK, ClientType
<1>10. ASSUME NEW g \in Flags,
              reads'[g].stage = "account", reads'[g].op # "verify"
       PROVE  reads'[g].block <= client.synced
  <2>1. CASE g = f
    BY <1>1, <1>9, <1>10, <2>1 DEF ViewInv, ViewTypeOK, ReadType
  <2>2. CASE g # f
    BY <1>1, <1>10, <2>2 DEF ViewInv, ViewTypeOK, ReadType, Recorded
  <2> QED
    BY <2>1, <2>2
<1>11. Recorded'
  BY <1>5, <1>10 DEF ViewInv, Recorded, UpTo, Covers
<1> QED
  BY <1>6, <1>7, <1>8, <1>11 DEF ViewInv

LEMMA ReadAccountKeepsView ==
  ASSUME ViewInv, IInv, UNCHANGED <<vars, past>>, NEW f \in Flags, ReadAccount(f)
  PROVE  ViewInv'
<1>1. Outlived(GetOrImport) /\ Outlived(account)
  BY AccountIsCurrent DEF GetOrImport, ViewInv, Known
<1>2. PICK a \in {GetOrImport, account} :
        /\ page' = [block |-> reads[f].block, seen |-> a]
        /\ reads[f].op = "verify" => a = account
  BY DEF ReadAccount
<1>3. Outlived(a) /\ a \in AccountType /\ a # NoAccount
  BY <1>1, <1>2, ViewAssumption DEF Outlived
<1>4. /\ client' \in ClientType /\ client'.synced = client.synced
      /\ client'.copy # NoAccount => Outlived(client'.copy)
  <2>1. CASE UNCHANGED client
    BY <2>1 DEF ViewInv, ViewTypeOK, Known
  <2>2. CASE client' = [client EXCEPT !.copy = GetOrImport]
    BY <1>1, <2>2 DEF ViewInv, ViewTypeOK, ClientType, Outlived
  <2> QED
    BY <2>1, <2>2 DEF ReadAccount
<1>5. reads' = [reads EXCEPT ![f] = NoRead]
  BY DEF ReadAccount
<1>6. UNCHANGED <<started, height, account, past>>
  BY DEF ReadAccount, vars
<1>7. reads[f].block \in Nat /\ reads[f].block <= height
  BY TimeAssumption DEF ViewInv, ViewTypeOK, ReadType, Behind
<1>8. ViewTypeOK'
  <2>1. page' \in SnapshotType
    BY <1>2, <1>3, <1>7 DEF SnapshotType
  <2> QED
    BY <1>4, <1>5, <1>6, <2>1, NoReadIsRead DEF ViewInv, ViewTypeOK
<1>9. Behind'
  <2>1. page'.block <= height
    BY <1>2, <1>7
  <2> QED
    BY <1>4, <1>5, <1>6, <2>1, NoReadIsRead, AccountIsCurrent
    DEF ViewInv, ViewTypeOK, Behind
<1>10. Known'
  <2>1. page'.seen = a
    BY <1>2
  <2> QED
    BY <1>3, <1>4, <1>6, <2>1 DEF Known, Outlived, Covers
<1>11. UpTo(account, height) /\ UpTo(GetOrImport, client.synced)
  <2>1. UpTo(account, client.synced)
    BY TimeAssumption, AccountIsCurrent
    DEF ViewInv, ViewTypeOK, ClientType, Behind, Recorded, UpTo
  <2> QED
    BY <2>1 DEF ViewInv, Recorded, GetOrImport
<1>12. UpTo(a, reads[f].block)
  <2>1. /\ client.synced \in Nat /\ height \in Nat
        /\ reads[f].stage = "account"
    BY TimeAssumption, AccountIsCurrent
    DEF ViewInv, ViewTypeOK, ClientType, ReadAccount
  <2>2. CASE a = account
    BY <1>7, <1>11, <2>1, <2>2 DEF UpTo
  <2>3. CASE a = GetOrImport /\ reads[f].op # "verify"
    <3>1. reads[f].block <= client.synced
      BY <2>1, <2>3 DEF ViewInv, Recorded
    <3> QED
      BY <1>7, <1>11, <2>1, <2>3, <3>1 DEF UpTo
  <2> QED
    BY <1>2, <2>2, <2>3
<1>13. client'.copy \in {client.copy, GetOrImport}
  BY DEF ReadAccount, ViewInv, ViewTypeOK, ClientType
<1>14. Recorded'
  <2>1. page'.seen = a /\ page'.block = reads[f].block
    BY <1>2
  <2>2. client.copy # NoAccount => GetOrImport = client.copy
    BY DEF GetOrImport
  <2>3. UpTo(page'.seen, page'.block) /\ UpTo(account, height)
    BY <1>11, <1>12, <2>1
  <2>4. client'.copy # NoAccount => UpTo(client'.copy, client.synced)
    BY <1>11, <1>13, <2>2
  <2>5. ASSUME NEW g \in Flags,
               reads'[g].stage = "account", reads'[g].op # "verify"
        PROVE  reads'[g].block <= client.synced
    BY <1>5, <2>5, NoReadIsRead DEF ViewInv, ViewTypeOK, Recorded
  <2> QED
    BY <1>4, <1>6, <2>3, <2>4, <2>5 DEF Recorded, UpTo, Covers
<1> QED
  BY <1>8, <1>9, <1>10, <1>14 DEF ViewInv

LEMMA ReadFailsKeepsView ==
  ASSUME ViewInv, IInv, UNCHANGED <<vars, past>>, NEW f \in Flags, ReadFails(f)
  PROVE  ViewInv'
<1>1. /\ reads' = [reads EXCEPT ![f] = NoRead]
      /\ UNCHANGED <<client, page, started, height, account, past>>
  BY DEF ReadFails, vars
<1>2. ViewTypeOK'
  BY <1>1, NoReadIsRead DEF ViewInv, ViewTypeOK
<1>3. Behind'
  BY <1>1, NoReadIsRead, AccountIsCurrent DEF ViewInv, ViewTypeOK, Behind
<1>4. Known'
  BY <1>1 DEF ViewInv, Known, Outlived, Covers
<1>5. Recorded'
  BY <1>1, NoReadIsRead DEF ViewInv, ViewTypeOK, Recorded, UpTo, Covers
<1> QED
  BY <1>2, <1>3, <1>4, <1>5 DEF ViewInv

LEMMA ViewStepKeepsView ==
  ASSUME ViewInv, IInv, UNCHANGED <<vars, past>>, ViewStep
  PROVE  ViewInv'
<1>1. CASE ClickConnect
  BY <1>1, StartKeepsView DEF ClickConnect, Flags, Ops
<1>2. CASE ClickLoad
  BY <1>2, StartKeepsView DEF ClickLoad, Flags, Ops
<1>3. CASE ClickPrepare
  BY <1>3, StartKeepsView DEF ClickPrepare, Flags, Ops
<1>4. CASE ClickVerify
  BY <1>4, StartKeepsView DEF ClickVerify, Flags, Ops
<1>5. CASE Connected
  BY <1>5, ConnectedKeepsView
<1>6. ASSUME NEW f \in Flags,
             Sync(f) \/ ReadBlock(f) \/ ReadAccount(f) \/ ReadFails(f)
      PROVE  ViewInv'
  BY <1>6, SyncKeepsView, ReadBlockKeepsView, ReadAccountKeepsView,
     ReadFailsKeepsView
<1> QED
  BY <1>1, <1>2, <1>3, <1>4, <1>5, <1>6 DEF ViewStep

-----------------------------------------------------------------------------
(* The page leaves the vault alone: whatever is true of the vault on its   *)
(* own is true of it while somebody looks.                                 *)
THEOREM LookingChangesNothing == ViewSpec => Spec
<1>1. [ViewNext]_<<vars, view, past>> => [Next]_vars
  BY DEF ViewNext, vars
<1> QED
  BY <1>1, PTL DEF ViewSpec, Spec

THEOREM ViewInvariantHolds == ViewSpec => [](IInv /\ ViewInv)
<1>1. Init /\ ViewInit => ViewInv
  <2> SUFFICES ASSUME Init, ViewInit PROVE ViewInv
    OBVIOUS
  <2>1. account \in AccountType
    BY DEF Init, AccountType, SetupRoots
  <2>2. Facts(account) \in FactsType
    BY <2>1 DEF Facts, FactsType, AccountType
  <2>3. ViewTypeOK
    BY <2>2, NoReadIsRead, TimeAssumption, ViewAssumption
    DEF ViewInit, ViewTypeOK, ClientType
  <2>4. Covers(account, Facts(account)) /\ height = 0
    BY <2>1 DEF Covers, Facts, AccountType, Init
  <2>5. UpTo(account, height)
    BY <2>4, TimeAssumption DEF ViewInit, UpTo
  <2> QED
    BY <2>3, <2>4, <2>5, NoReadIsRead
    DEF ViewInit, ViewInv, Behind, Known, Recorded
<1>2. ViewInv /\ IInv /\ IInv' /\ [ViewNext]_<<vars, view, past>> => ViewInv'
  <2> SUFFICES ASSUME ViewInv, IInv, IInv', [ViewNext]_<<vars, view, past>>
               PROVE  ViewInv'
    OBVIOUS
  <2>1. CASE Next /\ RecordBlock /\ UNCHANGED view
    BY <2>1, NextIsOnward, VaultStepKeepsView
  <2>2. CASE ViewStep /\ UNCHANGED <<vars, past>>
    BY <2>2, ViewStepKeepsView
  <2>3. CASE UNCHANGED <<vars, view, past>>
    BY <2>3, NextIsOnward, VaultStepKeepsView DEF RecordBlock, vars
  <2> QED
    BY <2>1, <2>2, <2>3 DEF ViewNext
<1> QED
  BY <1>1, <1>2, LookingChangesNothing, InvariantHolds, PTL DEF ViewSpec

(* Client, handlers and page keep their types.                             *)
THEOREM ViewTypeCorrect == ViewSpec => []ViewTypeOK
<1>1. ViewInv => ViewTypeOK
  BY DEF ViewInv
<1> QED
  BY <1>1, ViewInvariantHolds, PTL

(* A snapshot on display, with its deadline.                               *)
LEMMA ShownSnapshot ==
  ASSUME ViewInv, page # NoSnapshot
  PROVE  /\ page.block \in Nat /\ page.block <= height
         /\ page.seen.last \in Nat /\ Outlived(page.seen)
         /\ page.block + Remaining(page) >= Deadline(page.seen.last)
<1>1. /\ page.block \in Nat /\ page.block <= height
      /\ page.seen.last \in Nat /\ Outlived(page.seen)
  BY DEF ViewInv, ViewTypeOK, Behind, Known, SnapshotType, AccountType
<1>2. page.seen.last + Timeout \in Nat
  BY <1>1, TimeAssumption
<1> QED
  BY <1>1, <1>2 DEF Remaining, DeriveDeadline, Deadline

(* The account on display has everything the chain had recorded when the   *)
(* block on display was its newest, for any chain, any number of handlers  *)
(* and whichever of them wrote block and account last.                     *)
THEOREM PageMissesNothing == ViewSpec => []NothingMissed
<1>1. ViewInv => NothingMissed
  <2> SUFFICES ASSUME ViewInv, page # NoSnapshot
               PROVE  Covers(page.seen, past[page.block])
    BY DEF NothingMissed, Covers
  <2>1. page.block \in 0..page.block
    BY ShownSnapshot
  <2> QED
    BY <2>1 DEF ViewInv, Recorded, UpTo
<1> QED
  BY <1>1, ViewInvariantHolds, PTL

(* Whoever waits for the block on the page has waited long enough.         *)
THEOREM WaitingSuffices == ViewSpec => []CountdownSuffices
<1>1. IInv /\ ViewInv => CountdownSuffices
  <2> SUFFICES ASSUME IInv, ViewInv, page # NoSnapshot, Open(page.seen),
                      ~account.claimed, account.last = page.seen.last,
                      height >= page.block + Remaining(page)
               PROVE  Open(account) /\ Eligible(height, account.last)
    BY DEF CountdownSuffices
  <2>1. Open(account)
    BY ShownSnapshot DEF Open, Outlived, Covers
  <2>2. height \in Nat /\ height <= U32Max /\ account.last <= height
    BY TimeAssumption DEF IInv, TypeOK, AccountInv
  <2>3. Remaining(page) \in Nat
    BY ShownSnapshot, TimeAssumption DEF Remaining, DeriveDeadline
  <2>4. Eligible(height, account.last)
    BY <2>2, <2>3, ShownSnapshot, TimeAssumption DEF Eligible, Deadline
  <2> QED
    BY <2>1, <2>4
<1> QED
  BY <1>1, ViewInvariantHolds, PTL
=============================================================================
