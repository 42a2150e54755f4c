# Heirbeat in TLA+

Heirbeat is a dead-man's-switch inheritance vault on the Miden network. An owner
deposits one fungible asset into a public network account and sends heartbeats;
once the owner has been silent for `timeout_blocks` blocks, the beneficiary may
claim and receives everything in one P2ID note. This directory models the vault
contract, the command-line program that deploys and operates it, and the browser
page that reads it and previews wallet requests; it checks the models with TLC and
proves their safety with TLAPS.

Paths below are relative to the repository's root. `lifecycle.rs` stands for
`src/integration/src/bin/testnet_lifecycle.rs`.

## 1. Inventory

| component | where | state | operations |
|---|---|---|---|
| vault contract | `src/contracts/heirbeat-vault` | storage: owner, beneficiary, timeout, faucet, `last_check_in`, `claimed`, `activated`, the note allowlist; the account's assets | `activate`, `check_in`, `claim`, `deposit`, two getters |
| note scripts | `src/contracts/{activate,check-in,claim,deposit}-note` | none | dispatch to one procedure; `deposit` also compares the recipient in its storage with the vault |
| feature commands | `lifecycle.rs` 885-1087, 2153-2602 | `{kind}_pending_feature_note`, recorded payout | `deposit`, `heartbeat`, `claim` |
| deploy-vault, configure | `lifecycle.rs` 1122-2001, 2716-2734, 2833-2967 | `pending_vault`, `vault`, the policy on file, the client's account store | create, bootstrap, clean up, activate, verify, record; change the policy, name a vault |
| allowlist validator | `src/integration/src/testnet` | none | compares an account's allowlist with the exact setup or final one |
| durable configuration | `src/integration/src/testnet/config.rs` | one JSON file | load at launch, save as a whole by rename |
| faucet commands | `lifecycle.rs` 128-442, 2737-2805, 2969-2996 | the keystore, the client's store, `inherited_faucet` and two transaction ids | `create-faucet` (with `--force`, `--max-supply`), `mint` |
| payout and fee commands | `lifecycle.rs` 496-515, 2055-2088, 3041-3045; `fees.rs` | the payout's and the funding's ids | `consume`, `fund-fees` |
| status, verify | `lifecycle.rs` 752-880 | none | `verify` accepts the vault on file or not; `status` prints |
| wallet preview | `src/frontend/src/App.tsx` 260-494, `miden/wallet-preview.ts` | `previewBusy`, what was prepared, attempted and shown, the evidence from the chain | prepare, preview a heartbeat or a P2ID consumption, resync and inspect |
| page view | `App.tsx` 77-87, 177-268, `heirbeat/vault.ts`, `miden/client.ts`, `domain/lifecycle.ts` | `client` and its store, `busy`, one snapshot | connect, read a vault through the client or over RPC, derive the countdown |

**Interactions.** A command never calls the vault. It publishes a note; the
network transaction builder (NTX builder) finds the note by its target
attachment, executes it against a reference block it chooses, and the chain
applies the result. The command learns what happened by polling. The commands
share one configuration file, which each process reads once and later overwrites
as a whole. The faucet commands act through accounts whose keys the program holds
and wait for each of their transactions. The frontend only reads the chain and hands
requests to a wallet; its handlers are async functions on one page, kept apart by two
flags, each of which works on the values of the render it was clicked in.

**What is hard, and what makes each part correct.**

- *Vault.* Transactions execute off chain, several at once, against old blocks
  and with several notes each; the allowlist is checked once, against the state
  before the first note runs. Correct: nothing reopens the setup surface after
  activation; the heartbeat never moves back; the payout happens once, after
  silence, atomically with the terminal flag, and is all the vault held.
- *Feature commands.* The note is on chain before it is on disk, the header, the
  note's status and the vault are read one after the other while blocks arrive,
  and any wait may end by time. Correct: reruns do not duplicate a note, success
  means that this command's note was executed, every command ends.
- *deploy-vault.* Four transactions, any of which may be lost, three of them with a
  sponsorship the owner may be too poor for, and a process that may die between any two
  steps and writes its copy of the whole file over whatever `configure` has put there.
  Correct: deploy-vault records only a frozen, verified vault; activation is signed only
  after P2ID is gone; a rerun completes if the owner can pay.
- *Configuration file.* Two processes overwrite each other. Correct: it never
  names a pending note the chain does not have.
- *Faucet, mint, consume.* A command is a chain of transactions and a single save at
  the end; a run that dies leaves notes and keys nobody knows of, and two processes
  overwrite each other's file. Correct: the file names only a faucet the client can go
  on with and transactions that happened, all of one faucet; deployment and payout get
  through whatever an earlier run left behind.
- *Wallet preview.* The account, the vault and the chain change while a handler waits.
  Correct: the wallet is asked at most once per kind, and only what the contract would
  refuse; what the page says of a request is true; evidence collected for a preview
  captured at a click is still about the preview on display; the buttons work again.
- *Page view.* Block and account are read at different times, from stores of different
  age, by handlers that overwrite each other's snapshot. Correct: the account shown is
  never older than the block it is shown with, and nobody who waits for the countdown
  comes too early.

`PROJECT.json` lists every such place at its line under `hazards`.

## 2. Modules

| module | models | depends on |
|---|---|---|
| `InheritanceContract` | the abstract promise: a pot that grows until one payout after silence | - |
| `HeirbeatVault` | contract, note scripts and the kernel's transactions | refines `InheritanceContract` |
| `HeirbeatVault_proofs` | its theorems, and that the commands' simpler vault is this one | extends `HeirbeatVault`, uses `FeatureCommand` |
| `FeatureCommand` | deposit, heartbeat and claim of the CLI, the builder and the chain as it sees them | its chain refines `InheritanceContract` |
| `FeatureCommand_proofs` | its theorems | extends `FeatureCommand` |
| `HeirbeatVaultAuthority_proofs` | who may change the vault, what may enter it, and that all of it is accounted for | extends `HeirbeatVault_proofs` |
| `VaultView` | the page of the frontend next to the vault it reads | extends `HeirbeatVault` |
| `VaultView_proofs` | its theorems, from the vault's | extends both |
| `DeployVault` | deploy-vault run again until done, configure and verify | - |
| `DeployVault_proofs` | its theorems | extends `DeployVault` |
| `WalletCommands` | create-faucet, mint, fund-fees and consume by several processes | - |
| `WalletCommands_proofs` | types, usable faucets, true records | extends `WalletCommands` |
| `WalletCommandsOneFaucet_proofs` | one faucet on file | extends `WalletCommands_proofs` |
| `WalletPreview` | the previews of the frontend and the wallet | - |
| `WalletPreview_proofs` | its theorems | extends `WalletPreview` |
| `MC*` | constants and starting points for TLC | extends its module |

In a module, an operator right before one it resembles (`AnyState` before
`UpToDate`) is a plausible fault of the code; no action uses it. Putting it in the
other's place must break the property `PROJECT.json` names under `mutants`.

### HeirbeatVault and the contract

`account` is the vault's storage and assets as committed, `nonce` its version,
`spent` the nullifiers on chain, `payouts` the P2ID notes it created, `tx[e]` the
transaction an executor works on.

| action | code |
|---|---|
| `Begin` | AuthNetworkAccount checks the scripts of all inputs against the *initial* allowlist; any reference block already known may be used |
| `Activate` | `activate`, lib.rs 52-107: phase, sender, inputs alone or with a sponsorship, roots present and absent, both roots cleared |
| `CheckIn`, `Claim`, `Deposit` | `check_in` 108-124, `claim` 125-167, `deposit` 168-183 with their note scripts |
| `Configure`, `Sponsor`, `Receive` | the standard configuration, sponsorship and P2ID notes (external), as the vault's setup relies on them |
| `CommitTransaction`, `AbortTransaction` | the kernel: an up-to-date result is applied whole, any other leaves no trace |

A failed assertion is a procedure action that is not enabled: all that is left to
the executor is `AbortTransaction`. One action runs one note, so the working copy
passes through the states between notes, which no other executor may see.

Abstracted: amounts are naturals below the asset's maximum (the kernel refuses an
overflowing fungible asset); fees are left out, because sponsorships pay them with
the native asset and the inherited asset is another one; a note's storage and
attachments are the fields `bound`, `adds`, `root` and `feature`. `last` is bounded
by the chain, so only the sum with `Timeout` could exceed a u32: `Deadline` is the
code's u64 sum, and the fault `WrappedDeadline` the u32 one.

`InheritanceContract` knows no notes, allowlist or transactions. The refinement
maps the storage flags to a phase, the balance to the pot and the payout note to
what was paid; `KeepsContract` says every commit, whatever bundle of notes it
carries, is one abstract step and all else stutters. Its clock is the newest block: a
transaction is executed against a block there is, and may open the next one, as it
does where the chain is modelled block by block (`FeatureCommand`).

### FeatureCommand and lifecycle.rs

`cli[s]` is one process: its stage is the await it is in, `config` its copy of the
file, `before` the vault as read at the preflight, `from` the block it attributes
the execution to. `disk` is the file, of which two entries decide anything.

| action | lines |
|---|---|
| `Launch`, `Preflight`, `Refuse` | main 2615ff; 885-972, 2153-2394 |
| `RefuseDuplicate`, `Submit` | 2395-2403 |
| `RecordPending`, `GiveUpFunding` | 974-1000 (`committed_block`), 2404-2416 |
| `ReadHeader`, `Attribute`, `PollAgain`, `TimeOut`, `NoteDiscarded` | 1002-1087 (`wait_for_network_execution`) |
| `WrongResult`, `Complete`, `LookForPayout` | 2428-2470, 2486-2516 |
| `CompleteClaim`, `PayoutMissing` | 2474-2486, 2559-2602 (`find_vault_payout`) |
| `Crash` | the process dies between two steps |
| `Chain` | external: funding commits or is dropped, the builder discovers, executes or gives up a note, others deposit, blocks pass |

`Chain` executes notes with the vault's guards in short form, see `HeirbeatVault`
for the full ones; `CommandsKnowWhatRuns` proves that they agree. A stage is one interval between awaits: reading the header and
reading the status are two steps because blocks arrive between them.

### DeployVault and lifecycle.rs

The account starts without existing; its allowlist is one of three surfaces, with
P2ID (`bootstrap`), without (`cleaned`), or frozen. `notes` holds the configuration
and activation notes every run published, because an earlier run's note may still
be executed later. `tracked` is the client's account store, which a fixed seed
makes refuse a second creation.

| actions | lines |
|---|---|
| `Configure` | main 2716-2734, with a policy or with `--vault`, between and during runs of the command |
| `Launch`, `ResumePending`, `Record` | main 2833-2967 |
| `AddAccount`, `SaveProgress`, `PrepareBootstrap` | `create_vault` 1122-1203, the saves 1204-1207, 1264-1268 and 1280-1283, 1208-1253 |
| `SubmitBootstrap`, `SubmitDeploy`, `SaveDeployed`, `CheckDeployed` | 1255-1263, 1270-1279, 1284-1290, 1291-1386 with main 2885-2888 |
| `FindActivated`, `FindCleaned`, `RefuseStaged`, `SubmitCleanup`, `CheckCleaned` | `remove_bootstrap_p2id` 1560-1808 |
| `SubmitActivation`, `RefuseActivation`, `CheckActivated` | `activate_vault` 1810-2001 |
| `Sufficient`, `RefuseUnfunded` | the fee check, `fees.rs` 15-57, in front of the bootstrap 1229-1243, the cleanup 1678-1688 and the activation 1905-1917 |
| `Verified` | `verify_vault` 1388-1558 |
| `VerifyAccepts` | the `verify` command, `verify_configured_vault` 752-880: a state function, for the command changes nothing |
| `Fail` | a crash, an RPC error or a time-out at any await |

A policy is owner, beneficiary, faucet and timeout taken together and compared with
the vault's: the same, another faucet only (which verification compares separately),
or another of the rest. The vault on file is none, the one deploy-vault recorded, the
same one named by `configure --vault`, or another one named that way; `configure` checks
neither (2726), and is taken as one step, from its load to its save. A run works on the
copy of the file it read at launch (`run.pending`, `run.policy`, no vault) and every save
writes all of it back. `funded` says whether the owner's wallet covers the next
sponsorship; any payment may leave too little for the one after it (`PaySponsorship`).
Only one deploy-vault runs at a time, as its pending entry tells the operator to.

### WalletCommands and lifecycle.rs

`faucets` are those generated on this machine, `txs` every transaction submitted, in
order, with the one whose note it consumes as `input`; `disk` is the file and `cli[s]`
one process with its copy of the file. The client's store is not a variable: it applies
a transaction when it is submitted and takes it back when it is discarded, so balances
and supply are counted from `txs` (`LocalBalance`, `LocalSupply`).

| action | lines |
|---|---|
| `Launch`, `Validated` | main 2615ff, the faucet of the vault on file |
| `CreateKey`, `AddFaucet`, `SaveFaucet` | 128-174, 179-193, 2779-2805: key, account, file |
| `AlreadyDeployed`, `SubmitBootstrap`, `SubmitDeploy`, `RecordDeployment` | 236-301, 303-313, 2823-2830 |
| `DeployedDiffers` | 333: the maximum supply is compared with the default one |
| `SubmitFund`, `RecordFunding` | 496-515 |
| `ReadBeforeMint`, `SubmitMint`, `SubmitCollect`, `RecordMint` | 361-386, 387-421, 422-442, 2986-2994 |
| `ReadBeforeConsume`, `SubmitConsume`, `RecordConsumption` | 2055-2078, 2079-2088, 3041-3045 |
| `NotAsCounted`, `GiveUp`, `Fail` | the balance checks; `committed_block` 988-999; a crash or error at any await |
| `NewVault`, `PayOut` | what deploy-vault and claim put on file, see the modules above |
| `CommitTx`, `DiscardTx`, `TopUp` | external: the chain, a wallet that is given native assets |

### WalletPreview and App.tsx

`app` is the React state the previews depend on, `tasks` the handlers clicked, each with
what its closure captured, `requests` what the wallet was asked. A request remembers
what was true when it was clicked, so that the properties can say what was checked. In
particular the verification captures `walletPreview` at the click (411) and builds its
evidence from that copy (448, 461, 489), whatever is on display by then:
`EvidenceMatchesRequest` holds because nothing else may replace the preview meanwhile,
and fails when the handler does not set `previewBusy` (412, the mutant).

| action | lines |
|---|---|
| `ClickPrepare`, `PrepareHeartbeat`, `PrepareP2id`, `PrepareEnds` | `prepareWalletPreviews` 279-337, `latestTerminalSnapshot` 260-268 |
| `ClickPreview`, `CheckP2id`, `AskWallet`, `ReceiveAnswer`, `PreflightFails` | 339-407 |
| `ClickVerify`, `VerifyVault`, `VerifyNotes`, `VerifyFails` | `verifyPreviewAfterReject` 409-494 |
| `ClickRun`, `FinishInit`, `FinishRead`, `RunFails` | `run` 77-87, `connectClient` 177-197, `loadVault` and the other readers 199-258 |
| `SwitchAccount`, `WalletAnswers`, `Claim`, `Publish` | external: the wallet's user, the chain |

### VaultView and the page

The module adds to the vault's variables `client` (its sync height and the vault as its
store has it), the handler that runs under each flag and the page's snapshot. The vault
goes on by `HeirbeatVault!Next` unchanged, and looking changes nothing.

| action | lines |
|---|---|
| `ClickConnect`, `Sync`, `Connected` | `createReadOnlyClient`, client.ts 14-22; App.tsx 177-197 |
| `ClickLoad`, `ClickPrepare`, `ClickVerify` | 199-203, 279-287, 409-412 |
| `ReadBlock`, `ReadAccount` | `readVault` and `readVaultFromRpc`, vault.ts 39-118 |
| `ReadFails` | the `catch` and `finally` of `run` 80-87 |
| `DeriveDeadline`, `Remaining` | lifecycle.ts 4-6, 30-34 |

`syncChain` brings everything the store tracks up to date, and `getOrImport` answers
from the store if it can (external, as App.tsx uses them). `past` is a history variable:
what the chain had recorded of the vault when each block became the newest. No action
reads it; `NothingMissed` compares the snapshot with it. The names of the phases
(lifecycle.ts 35-48) are left out: they follow from the flags and the countdown.

## 3. Runs

Sizes are distinct states. Deadlock is not checked: every model stops at its
bounds, and a finished vault or deployment really has nothing left to do.

| run | question | bounds | states |
|---|---|---|---|
| `vault_life` | Does one executor's sequence of transactions of up to three notes, setup notes and wrong senders included, keep the policy frozen, pay only after silence and keep the contract? | 11 notes, blocks 0-2, u32 maximum 2, timeout 1 | 191,850 |
| `vault_race` | Do two overlapping executors pay once, keep custody, never rewind the heartbeat and never touch a claimed vault? | 8 one-note transactions, blocks 0-3 | 1,387,986 |
| `vault_fair` | Is a claimable vault eventually claimed, and does a page that reads it meanwhile never show an account older than its block, or send anybody too early? | 5 notes, one per transaction, blocks 0-3, u32 maximum 3, timeout 2, 3 handlers of the page | 419,429 |
| `cli_single` | Can one process at a time duplicate a note or record a payout the vault has not made, and does every command end? | 3 notes, 5 blocks | 1,432,473 |
| `cli_pair` | Is what two processes write over each other still true of the chain, and is a success the process's own, wherever they are killed? | 2 notes, 3 blocks, processes symmetric | 1,666,706 |
| `deploy_resume` | Is an unfinished vault, or one of another policy, ever recorded or activated early, does a rerun complete, and does verify stand by its answer? | 3 failures at any stage, strangers using the vault, fees that may run out, 3 policies and 2 vaults for configure | 1,109,032 |
| `wallet_pair` | Does the file name only usable faucets and transactions that happened, all of one faucet, and do deployment and payout get through? | 2 processes, 2 commands, 6 transactions, 2 faucets, 1 failure | 322,223 |
| `preview` | Is the wallet asked once and safely, is what the page says of it true, and do the buttons work again? | 6 clicks, 2 of them used up at the start, 2 changes of account | 1,102,769 |

*Why the bounds suffice.* Three notes in a transaction are one more than activation
tolerates, and enough for a heartbeat, a deposit and a claim together. With a u32
maximum of 2 a heartbeat in the last blocks has a deadline past the maximum, which
is where a 32-bit sum wraps. Two executors are enough for every race of the account:
the chain compares a result with one version only, so a third can only repeat what
the second does. For the commands two notes of one kind make a duplicate and a third
leaves room for a claim after a deposit. Three failures let a run be lost while it creates
the vault, its rerun while it waits for a note, and the note be lost as well; refusals for
want of fees are not counted. Two processes of two commands are too few to come from an
empty machine to a payout, so `MCWalletCommands` lets behaviours start empty, with a
faucet on file that is not deployed, or with a faucet and a vault in operation; two
processes and two faucets are what it takes to overwrite a file with another faucet.
`MCWalletPreview` starts with a connected client and a vault that has been read, which
leaves four clicks: prepare, the preview of one kind, and two more that race with it.
Three handlers let the page connect, read, and read again by the other flag while the
vault moves, by way of the store and of the chain; a timeout of 2 in four blocks has a countdown and a deadline past the u32
maximum. What the proofs cover holds without any bound.

*Symmetry* is used in `cli_pair` only, on processes, which no formula names.

The remaining four runs look for a disagreement between the code and what it says
of itself, and TLC finds each; the findings in `PROJECT.json` quote the lines. The last
column names the theorem (section 4) that says when the statement is true after all.

| run | what happens | and never if |
|---|---|---|
| `cli_duplicate` | the funding transaction is still pending after 15 syncs, nothing is recorded, the rerun publishes a second note | the three conditions of `RerunsDoNotDuplicate` hold |
| `cli_payout` | the claim lands between reading the header and the status; the execution is attributed to a later block and the payout, made in full, "not found" | `Steady` (`SteadyClaimsAreNotMisled`) |
| `deploy_unfunded` | `pending_vault` is saved before the funds check; the retry the message asks for finalizes a vault that was never deployed | `SmoothCreation` (`RetryDeploysAfterSmoothCreation`) |
| `deploy_timeout` | after the cleanup the timeout is compared with 10, so any other is reported as a changed vault | the timeout is 10 (`ChangedMeansChangedAtTen`) |

Others were met that have no run, because nothing in the repository says otherwise. A
pending entry is removed only by a run that succeeds (`lifecycle.rs` 2515): after a
time-out it refuses every later command of its kind, even when its note was executed
long ago. The contract accepts a heartbeat in the block of the last one, while the
command demands a later one (2451). A stranger's deposit between the two reads of the
balance turns an executed deposit into an error (2428). A faucet with another maximum
supply is deployed and then reported as changed (333). A crash between 1203 and 1204
leaves a seed whose account the store refuses to add again. A vault that `configure
--vault` names while deploy-vault is running is dropped by the next save of the latter's
copy, although 2848-2851 says that a configured vault is not replaced (the check is made
once, on the copy read at launch). The page can go back to an
older snapshot when a read that began before a sync ends after it. The phase
"claimable" does not look at the balance, which the contract does.

### Fairness

- *Vault* (`FairSpec`, and `FairViewSpec` with the page): blocks are produced; some
  executor keeps offering each claim note alone at the newest block, finishes what it
  can and gives up what it cannot. That the NTX builder does so is the operating
  assumption `src/docs/security-threat-model.md` states in lines 53 and 64; the
  contract alone cannot ensure it. Strong fairness is needed because the executor works
  on other notes too and a competing commit makes its result stale. Nothing is assumed
  of other notes or of the page.
- *Commands* (`FairSpec` of `FeatureCommand`, in `cli_single`): a started process takes
  its next step, its clock passes the deadline of a wait that keeps polling (strong,
  because each poll leaves and re-enters the state in which it is compared), and a
  funding transaction is committed or expires. Nothing is asked of the builder or of
  other processes.
- *Deployment*: the operator starts a failed command again and what is submitted
  settles. Failures are finitely many; nothing else is assumed. That the owner finds the
  fees is not: `DeploymentCompletes` is claimed unless the wallet stays short for good.
- *Wallet commands*: a started process takes its next step, and what is submitted is
  committed or discarded. Nobody need start a command; after the last failure explored
  one that has started must get through.
- *Previews*: a call over the network is answered or fails, unless it goes through a
  client that was terminated by a reconnection (`Hung`). The user may leave the wallet
  open for ever.

## 4. Proofs

`HeirbeatVault_proofs`, for every set of notes, executors, timeout and bound that
meets the assumptions of the module (the parties are accounts, notes have distinct
ids, only deposits and P2ID notes carry assets):

- `TypeCorrect`, `SurfaceStaysFrozen`, `PolicyIsFrozen`, `AtMostOnePayout`,
  `ClaimedStaysClosed`, `HeartbeatIsMonotonic`, `ClaimWaitsForSilence`, and
- `VaultKeepsContract`: the vault implements `InheritanceContract`.

The committed account says nothing of what commits next, because that was computed
earlier. The inductive invariant `IInv` therefore speaks of every transaction in
flight: `WorkInv`, what its working copy may look like on its own (in particular,
once activated, none of its *remaining* inputs can reopen setup, which is what the
input check of `activate` is for), and `StepInv`, how the copy relates to the
committed account as long as that is the account it started from. A commit needs
`UpToDate`, so `StepInv` applies exactly then; another executor's commit raises
`nonce`, after which nothing relates the loser's copy to the account and nothing
needs to. There is one lemma per procedure; the action properties and the
refinement then follow from `IInv` and one lemma about a commit.

What the commands are checked against is the three-field vault of `FeatureCommand`.
`HeirbeatVault_proofs` instantiates that module on the copy an executor works on and
proves both directions: whatever bundle a feature note is executed in,
`CommandsKnowWhatRuns` has its script run only if the commands take it to be executable
there, and leave and pay what they predict; and `CommandsPromiseNoMore` has every
assertion of the contract pass for a note the commands take to be executable, if the
entitled party sent it. The second needs the invariant, because `claim` also asserts that
the last heartbeat fits in a u32.

`FeatureCommand_proofs`, for any number of processes, notes and blocks, killed anywhere:
`TypeCorrect`, `FileNamesRealNotes`, `SuccessMeansExecution` and `RecordedPayoutIsPaid`.
A process acts on a copy of the file another may since have rewritten, so the
invariant says of every copy what it says of the file: each entry names a note of
its kind that is on chain (`OnRecord`), the payout one of a drained vault. These
facts only ever become true (`Grown`), which is why a stale copy may be written
back. `RerunsDoNotDuplicate` proves `OneOpenNotePerKind` under three conditions,
`LonePatientProcess`: a single process, funding settled before the sync attempts are
over, and no crash while it waits for it. `cli_duplicate` shows the second is
needed, the threat model (line 149) names the third, and two processes that have
both read the file before either writes it break the first. `LoneInv` adds that the
process's copy equals the file while it runs, and that every open note is either
named there or is the one just being funded.

Three more theorems of that module say when the commands' messages can be believed.

- `SteadyClaimsFindTheirPayout` and `SteadyClaimsAreNotMisled`: a claim finds its payout
  under `Steady`, that is, unless a block appears between the header of a poll and its
  answer when the note has been executed in the meantime, or somebody deposits between
  the claim's check and its payout. TLC finds a claim misled if either half is dropped.
- `UndisturbedCommandsGetWhatTheyAsk`: while nothing but its own note changes the vault
  between a command's check and its verdict (`Undisturbed`), no check of the result
  fails. Delays, crashes and other processes do not matter; a heartbeat advances because
  its note is committed after the check and so executed on a later block (`NotYetDone`).
- `ChainRefinesContract`: the chain the commands see implements `InheritanceContract`.

These conditions are on steps, so the theorems have the form
`Spec /\ [][Condition]_vars => []P`, and each has an invariant of its own next to `IInv`
(`ClaimInv`, `WorkInv`).

`HeirbeatVaultAuthority_proofs` adds `ChangesAreAskedFor` and `NothingIsLocked`: a
committed change of the vault was asked for by a note of the party entitled to it, and
no other asset enters an active vault. The invariant makes each transaction in flight
`Accountable`: while it starts from the committed account, every difference of its
working copy is `Justified` by one of its own inputs, none of which is spent, and
nothing foreign has come in but by P2ID (`NothingForeign`).

`CustodyIsConserved` proves `CustodyConserved`, which sums over the notes consumed. That
the sum unfolds one note at a time (`TotalUnfolds`, `TotalAdds`) is proved from a
smallest counterexample in the well-founded order of the naturals, because the library's
induction theorems take an operator. The invariant (`CustodyInv`) says of every
transaction that may still commit that its copy, with what it has paid, accounts for the
notes already spent and those of its own inputs that have run; a claim turns the whole
balance into one payout.

`VaultView_proofs`, for every vault, chain and number of handlers:
`LookingChangesNothing` (the vault with a page behaves as the vault alone, so all its
theorems carry over), `ViewTypeCorrect`, `PageMissesNothing` and `WaitingSuffices`. Block
and account of a snapshot are read apart, so the invariant relates each to the chain: the
block lies behind it (`Behind`); an account once read is outlived by today's in every flag
and in its heartbeat (`Known`), by the lemmas behind `PolicyIsFrozen`,
`HeartbeatIsMonotonic` and `ClaimedStaysClosed`; and an account covers what was recorded
up to a block (`Recorded`): today's up to the newest, the store's up to its last sync, the
page's up to the block on display. The last step needs that a handler which may be
answered from the store took its block from there too.

`DeployVault_proofs`, for every timeout and any number of failures at any stages:
`TypeCorrect`, `RecordedStaysFrozen`, `ActivationWaitsForCleanup`,
`NothingSpentUnnamed`, `RecordedPolicyIsTheVaults` and `AcceptedStaysAccepted`. The
invariant adds that a vault whose surface has changed is on chain (`SetupIsOnChain`),
which is what lets a run that finds a cleaned or frozen account trust it. The file is
overwritten by stale copies, so what it names has to be argued from the writers: nothing
is submitted until the file names the vault, and a run that creates it carries the
pending entry in its copy, so that no save loses it (`OnFile`); a vault is created once,
since the store refuses a second time, and no note can have changed it while that lasts
(`Fresh`, `Untracked`), so no creating run can unname a vault that verify has accepted.
`configure` may name any vault; `RecordedStaysFrozen` is about the one deploy-vault
records, and `AcceptedStaysAccepted` lets only `configure` undo an acceptance. Two more theorems assume something of
the constants and mark off the findings: `RetryDeploysAfterSmoothCreation` (an owner that
is funded from the start and no failure between the first save and the deployment,
`SmoothCreation`) and `ChangedMeansChangedAtTen` (a timeout of 10).

`WalletCommands_proofs`, for any number of processes, runs, faucets and failures:
`TypeCorrect`, `FileNamesUsableFaucets` and `FileRecordsWhatHappened`. Faucets and
transactions are only added, and what is stored or committed stays so (`Grows`); a copy
of the file is therefore good for ever once it is good when written (`Good`), and it is
that because a process knows of the transaction it waits for what that one used up
(`Knows`). `WalletCommandsOneFaucet_proofs` proves `FileKeepsToOneFaucet`: files do get
overwritten with another faucet's, so the invariant (`OneEach`) says of every copy on
its own that it mixes no faucets (`One`) and of every process that it acts for the
faucet in its copy (`Aligned`); with `--force` it says nothing, as the property does.

`WalletPreview_proofs`, for any wallet and any number of clicks and account changes:
`TypeCorrect`, `WalletAskedOnce`, `WalletAskedSafely`, `NotInvokedIsTrue`,
`OpenRequestStaysShown` and `EvidenceIsOfRequestShown`. The argument is mutual
exclusion: `previewBusy` is set before a handler first waits and cleared when it ends
(`Flagged`), so at most one handler that touches the previews is under way
(`Exclusive`), and what it has checked or captured is still so when it goes on
(`TaskFacts`, `RequestFacts`); for the verification this says that the preview it captured
is still the one on display, which its stale writes need.

*Model-checked only.* All liveness (`EventuallyPaid`, `CommandsEnd`,
`DeploymentCompletes`, `FaucetGetsDeployed`, `PayoutGetsConsumed`, `PreviewsEnd`):
fairness and ENABLED are beyond the prover. The properties of the four runs that expect a violation
are false as they stand and are proved under the conditions named above.

## 5. Not modelled, and abstractions

- `status`, which reads and prints; tests and examples; parsing of arguments and TOML;
  the decoding of accounts, notes and attachments in the frontend and the integration
  crate, which is sequential and covered by their unit tests. Of these the modules keep
  the outcome: a refusal, or a value.
- The two-step wallet connection (`connect-flow.ts`) and the query of a note's status
  (`ntx.ts`): one value of the page each, on which nothing else depends.
- Saving the file is one step. Its temporary file has one name for all processes
  (`config.rs` 72), so two that save at once may rename a half-written file or find it
  gone; the next load refuses a torn file, and a failed rename is a failed command.
- `NewVault` and `PayOut` read and write the file in one step and stand for whole
  commands of other modules. `Configure` is used once the account's policy is fixed.
- A wait for one transaction and the reads after it are one step of `WalletCommands`:
  balance and supply are read together. `mint` mints one unit to the owner.
- In the previews the account is the one of the click (App.tsx 358, 400), as in the
  code; that the wallet is still connected with it when it is asked is not claimed.
- `VaultView` takes the vault of the input field and the terminal test vault for one,
  and lets verification be clicked whenever there is a snapshot; `WalletPreview` has the
  exact condition.
- Miden itself: proofs, signatures and keys. Notes' senders are what the kernel
  exposes, and cannot be forged. RPC answers that are wrong: a failing call ends a
  command, a lying endpoint is excluded by the threat model.

## 6. Plan

The order was: the vault, because every other part exists for it; the commands that
operate it; its deployment; the wallet commands around them; the frontend. All modules
of section 2 are written, and each safety property is proved.
What could be added:

1. The attachments of notes (`notes.rs`, `feature-notes.ts`) as functions on words, with
   the decoder shown to invert the encoder.
2. The NTX builder's choice of bundles: the commands' chain executes one note per
   transaction. By `CommandsKnowWhatRuns` each note of a bundle does the same on the copy
   it finds; that a bundle's commit is a sequence of the commands' steps is not stated.
3. A save in two steps (write, rename) with a torn temporary file.
