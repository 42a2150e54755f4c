---------------------------- MODULE WalletCommands ----------------------------
(***************************************************************************)
(* The lifecycle CLI's create-faucet, mint, fund-fees and consume          *)
(* commands: those that act through accounts whose keys the CLI holds.     *)
(*                                                                         *)
(* Each of them submits one transaction after the other, waits for each to *)
(* be committed, compares balances with those it read before, and rewrites *)
(* the configuration file at the end.  Nothing it has submitted is on file *)
(* before that, so a run that fails leaves notes and pending transactions  *)
(* behind that the next run knows nothing of.                              *)
(*                                                                         *)
(* As in HeirbeatVault, an operator placed right before one it could be    *)
(* mistaken for is a fault that no action uses.                            *)
(***************************************************************************)
EXTENDS Integers, Sequences, FiniteSets

CONSTANTS
  Sessions,   \* CLI processes that share keystore, store and file
  Caps,       \* maximum supplies asked for, of {"default", "other"}
  Forces,     \* is create-faucet given --force
  MaxRuns,    \* bound of the commands started
  MaxTxs,     \* bound of the transactions explored
  MaxFaucets, \* bound of the faucets created, and of the vaults deployed
  MaxFaults   \* bound of the failures explored

ASSUME CapsAssumption == Caps \subseteq {"default", "other"}
ASSUME ForcesAssumption == Forces \subseteq BOOLEAN
ASSUME BoundAssumption ==
  {MaxRuns, MaxTxs, MaxFaucets, MaxFaults} \subseteq Nat

VARIABLES
  faucets,  \* faucets generated on this machine, by number
  vaults,   \* the faucet whose asset each vault deployed inherits, by number
  txs,      \* transactions submitted, by number
  reserve,  \* can the beneficiary pay the fee of a transaction of its own
  disk,     \* the configuration file
  cli,      \* the process of each session
  runs,     \* commands started so far
  faults    \* failures so far

vars == <<faucets, vaults, txs, reserve, disk, cli, runs, faults>>

(* The keystore holds the key; stored: the client's store has the account; *)
(* forced: create-faucet had been told to replace the faucet on file.      *)
FaucetType ==
  [cap : {"default", "other"}, stored : BOOLEAN, forced : BOOLEAN]

(* bootstrap, deploy: create-faucet's.  fund, mint, collect: mint's (fund  *)
(* also fund-fees').  payout: the vault's.  consume: the beneficiary's.    *)
Kinds == {"bootstrap", "deploy", "fund", "mint", "collect", "payout",
          "consume"}

(* Every kind but deploy, collect and consume creates one note (bootstrap: *)
(* a pair that is used together), which goes by the transaction's number;  *)
(* input: the note it consumes, vault: the vault that pays, 0 for none.    *)
TxType ==
  [kind : Kinds, input : Nat, faucet : Nat, vault : Nat,
   to : {"faucet", "owner", "beneficiary"},
   status : {"submitted", "committed", "discarded"}]

(* inherited_faucet, vault, payout_note_id, and under public_ids the ones  *)
(* as faucet_deployment_transaction, mint_transaction,                     *)
(* payout_consumption_transaction and native_fee_funding_transaction.      *)
ConfigType ==
  [faucet : Nat, vault : Nat, payout : Nat, deploy : Nat, mint : Nat,
   consume : Nat, fund : Nat]

Commands == {"create-faucet", "mint", "fund-fees", "consume"}

Stages == {"idle", "launched", "keyed", "created", "chosen",
           "bootstrapping", "deploying", "funding", "counted", "minting",
           "taking"}

Waiting == {"bootstrapping", "deploying", "funding", "minting", "taking"}

(* Where a process is, its command and options, its copy of the file, its  *)
(* faucet, the transaction whose note it will use or that it waits for,    *)
(* and what it counted before submitting.                                  *)
SessionType ==
  [stage : Stages, command : Commands, force : BOOLEAN, config : ConfigType,
   faucet : Nat, tx : Nat, balance : Nat, supply : Nat]

TypeOK ==
  /\ faucets \in Seq(FaucetType)
  /\ vaults \in Seq(1..Len(faucets))
  /\ txs \in Seq(TxType)
  /\ reserve \in BOOLEAN
  /\ disk \in ConfigType
  /\ cli \in [Sessions -> SessionType]
  /\ \A s \in Sessions : cli[s].stage \in Waiting => cli[s].tx \in DOMAIN txs
  /\ runs \in 0..MaxRuns /\ faults \in 0..MaxFaults

EmptyConfig ==
  [faucet |-> 0, vault |-> 0, payout |-> 0, deploy |-> 0, mint |-> 0,
   consume |-> 0, fund |-> 0]

Idle ==
  [stage |-> "idle", command |-> "consume", force |-> FALSE,
   config |-> EmptyConfig, faucet |-> 0, tx |-> 0, balance |-> 0,
   supply |-> 0]

Init ==
  /\ faucets = <<>> /\ vaults = <<>> /\ txs = <<>>
  /\ reserve \in BOOLEAN
  /\ disk = EmptyConfig
  /\ cli = [s \in Sessions |-> Idle]
  /\ runs = 0 /\ faults = 0

-----------------------------------------------------------------------------
(* The chain.                                                              *)

Committed(t) == txs[t].status = "committed"

(* The first transaction of an account brings it into existence.           *)
OnChain(f) ==
  \E t \in DOMAIN txs :
    txs[t].kind \in {"deploy", "mint"} /\ txs[t].faucet = f /\ Committed(t)

Spent(n) == \E t \in DOMAIN txs : txs[t].input = n /\ Committed(t)

MarkTx(t, status) == txs' = [txs EXCEPT ![t].status = status]

CountFault == faults < MaxFaults /\ faults' = faults + 1

CommitTx(t) ==
  /\ txs[t].status = "submitted" /\ MarkTx(t, "committed")
  /\ txs[t].input # 0 => Committed(txs[t].input) /\ ~Spent(txs[t].input)
  /\ txs[t].kind = "deploy" => ~OnChain(txs[t].faucet)
  /\ UNCHANGED <<faucets, vaults, reserve, disk, cli, runs, faults>>

(* It expires, or the account or a note it was built on has moved on.      *)
Stuck(t) ==
  \/ txs[t].input # 0 /\ Spent(txs[t].input)
  \/ txs[t].kind = "deploy" /\ OnChain(txs[t].faucet)

DiscardTx(t) ==
  /\ txs[t].status = "submitted" /\ MarkTx(t, "discarded")
  /\ IF Stuck(t) THEN UNCHANGED faults ELSE CountFault
  /\ UNCHANGED <<faucets, vaults, reserve, disk, cli, runs>>

(* deploy-vault has finished, see DeployVault; the faucet need not be on   *)
(* chain for it.                                                           *)
NewVaultUnchecked ==
  /\ disk.vault = 0 /\ Len(vaults) < MaxFaucets
  /\ vaults' = Append(vaults, disk.faucet)
  /\ disk' = [disk EXCEPT !.vault = Len(vaults) + 1]
  /\ UNCHANGED <<faucets, txs, reserve, cli, runs, faults>>
NewVault ==
  /\ disk.faucet # 0 /\ faucets[disk.faucet].stored
  /\ disk.vault = 0 /\ Len(vaults) < MaxFaucets
  /\ vaults' = Append(vaults, disk.faucet)
  /\ disk' = [disk EXCEPT !.vault = Len(vaults) + 1]
  /\ UNCHANGED <<faucets, txs, reserve, cli, runs, faults>>

(* The owner has deposited what was minted, and a claim has been executed  *)
(* and put its payout on file, see FeatureCommand.  A vault pays once.     *)
PayOut ==
  LET v == disk.vault IN
  /\ v # 0 /\ ~\E t \in DOMAIN txs : txs[t].vault = v
  /\ \E t \in DOMAIN txs : /\ txs[t].kind = "collect" /\ Committed(t)
                           /\ txs[t].faucet = vaults[v]
  /\ Len(txs) < MaxTxs
  /\ txs' = Append(txs, [kind |-> "payout", input |-> 0, vault |-> v,
                         faucet |-> vaults[v], to |-> "beneficiary",
                         status |-> "committed"])
  /\ disk' = [disk EXCEPT !.payout = Len(txs) + 1]
  /\ UNCHANGED <<faucets, vaults, reserve, cli, runs, faults>>

(* The beneficiary's wallet obtains native assets.                         *)
TopUp ==
  /\ ~reserve /\ reserve' = TRUE
  /\ UNCHANGED <<faucets, vaults, txs, disk, cli, runs, faults>>

-----------------------------------------------------------------------------
(* What the client's store shows: it applies a transaction when it is      *)
(* submitted and takes it back when it is discarded.                       *)

Applied(t) == txs[t].status \in {"submitted", "committed"}

LocalBalance(a, f) ==
  Cardinality({t \in DOMAIN txs : /\ txs[t].kind \in {"collect", "consume"}
                                  /\ txs[t].to = a /\ txs[t].faucet = f
                                  /\ Applied(t)})

LocalSupply(f) ==
  Cardinality({t \in DOMAIN txs : /\ txs[t].kind = "mint"
                                  /\ txs[t].faucet = f /\ Applied(t)})

(* tracked_note_for_consumption: committed, and nobody has consumed it, as *)
(* far as the store knows.                                                 *)
Consumable(n) ==
  /\ n \in DOMAIN txs /\ Committed(n)
  /\ ~\E t \in DOMAIN txs : txs[t].input = n /\ Applied(t)

-----------------------------------------------------------------------------
(* What the commands have in common.                                       *)

Continue(s, stage) == cli' = [cli EXCEPT ![s].stage = stage]

(* The process ends; what it has to say matters to nobody but its user.    *)
End(s) == cli' = [cli EXCEPT ![s] = Idle]

Submit(s, kind, input, to, stage) ==
  /\ Len(txs) < MaxTxs
  /\ txs' = Append(txs, [kind |-> kind, input |-> input, vault |-> 0,
                         to |-> to, faucet |-> cli[s].faucet, status |-> "submitted"])
  /\ cli' = [cli EXCEPT ![s].stage = stage, ![s].tx = Len(txs) + 1]
  /\ UNCHANGED <<faucets, vaults, reserve, disk, runs, faults>>

(* The whole file is replaced by the process's copy of it.                 *)
SaveChanges(s, config) ==
  /\ disk' = [field \in DOMAIN disk |->
                IF config[field] # cli[s].config[field] THEN config[field]
                ELSE disk[field]]
  /\ UNCHANGED <<faucets, vaults, txs, reserve, runs, faults>>
Save(s, config) ==
  /\ disk' = config
  /\ UNCHANGED <<faucets, vaults, txs, reserve, runs, faults>>

(* committed_block has seen the latest transaction committed.              *)
NotDiscarded(s) == txs[cli[s].tx].status # "discarded"
OwnCommitted(s) == txs[cli[s].tx].status = "committed"

(* main, before the command: a vault on file must inherit the asset of the *)
(* faucet on file.                                                         *)
Validated(config) == config.vault # 0 => vaults[config.vault] = config.faucet

(* mint and consume need a faucet on file, consume a vault as well.        *)
Launch(s, command, force) ==
  /\ cli[s].stage = "idle" /\ runs < MaxRuns /\ runs' = runs + 1
  /\ command \in {"mint", "consume"} => disk.faucet # 0
  /\ command = "consume" => disk.vault # 0
  /\ command # "create-faucet" => Validated(disk) /\ ~force
  /\ cli' = [cli EXCEPT ![s] =
               [Idle EXCEPT !.stage = "launched", !.command = command,
                  !.force = force, !.config = disk,
                  !.faucet = IF command \in {"mint", "consume"}
                             THEN disk.faucet ELSE 0]]
  /\ UNCHANGED <<faucets, vaults, txs, reserve, disk, faults>>

At(s, stage, command) == cli[s].stage = stage /\ cli[s].command = command

(* committed_block: the transaction was discarded, or is still pending     *)
(* after 15 sync attempts.                                                 *)
GiveUp(s) ==
  /\ cli[s].stage \in Waiting /\ ~OwnCommitted(s)
  /\ IF txs[cli[s].tx].status = "discarded" THEN UNCHANGED faults
     ELSE CountFault
  /\ End(s)
  /\ UNCHANGED <<faucets, vaults, txs, reserve, disk, runs>>

(* create-faucet generates one unless there is one on file.                *)
NeedsFaucet(s) ==
  /\ At(s, "launched", "create-faucet")
  /\ cli[s].force \/ cli[s].config.faucet = 0

(* inspect_public_payout: the note given, or the one on file, must be the  *)
(* vault's, to the beneficiary, of the asset inherited.                    *)
Inspected(s, n) ==
  /\ txs[n].kind = "payout" /\ txs[n].vault = cli[s].config.vault
  /\ txs[n].faucet = cli[s].faucet

ConsumableBy(s, n) == Inspected(s, n) /\ Consumable(n) /\ reserve

(* The process dies, a call fails, or a check of keys, names, notes or     *)
(* balances does.  Without a payout to consume, and at the bounds, that is *)
(* all that can happen.                                                    *)
Fail(s) ==
  /\ cli[s].stage # "idle"
  /\ IF \/ Len(txs) = MaxTxs
        \/ Len(faucets) = MaxFaucets /\ NeedsFaucet(s)
        \/ At(s, "launched", "consume")
           /\ ~\E n \in DOMAIN txs : ConsumableBy(s, n)
     THEN UNCHANGED faults ELSE CountFault
  /\ End(s)
  /\ UNCHANGED <<faucets, vaults, txs, reserve, disk, runs>>

(* The command has done what it was asked, and says so on file.            *)
Finish(s, config) == Save(s, config) /\ End(s)

Finished(s, stage, command) == At(s, stage, command) /\ OwnCommitted(s)

-----------------------------------------------------------------------------
(* create-faucet.                                                          *)

UseConfigured(s) ==
  /\ At(s, "launched", "create-faucet") /\ ~NeedsFaucet(s)
  /\ cli' = [cli EXCEPT ![s].stage = "chosen",
                        ![s].faucet = cli[s].config.faucet]
  /\ UNCHANGED <<faucets, vaults, txs, reserve, disk, runs, faults>>

(* create_durable_faucet: generates account and key, saves the key,        *)
Generate(s, cap, stage) ==
  /\ NeedsFaucet(s) /\ Len(faucets) < MaxFaucets
  /\ faucets' = Append(faucets, [cap |-> cap, stored |-> FALSE,
                                 forced |-> cli[s].force])
  /\ cli' = [cli EXCEPT ![s].stage = stage, ![s].faucet = Len(faucets) + 1]
  /\ UNCHANGED <<vaults, txs, reserve, disk, runs, faults>>

CreateUnstored(s, cap) == Generate(s, cap, "created")
CreateKey(s, cap) == Generate(s, cap, "keyed")

(* then saves the account,                                                 *)
AddFaucet(s) ==
  /\ At(s, "keyed", "create-faucet") /\ Continue(s, "created")
  /\ faucets' = [faucets EXCEPT ![cli[s].faucet].stored = TRUE]
  /\ UNCHANGED <<vaults, txs, reserve, disk, runs, faults>>

(* and then the file names it.                                             *)
SaveFaucet(s) ==
  LET config == [cli[s].config EXCEPT !.faucet = cli[s].faucet] IN
  /\ At(s, "created", "create-faucet")
  /\ Save(s, config)
  /\ cli' = [cli EXCEPT ![s].stage = "chosen", ![s].config = config]

(* The store takes a faucet for deployed once its first transaction has    *)
(* committed; while that one is pending, it may or may not.                *)
KnownFaucet(f) == faucets[f].stored
MaybeTracked(f) ==
  \E t \in DOMAIN txs :
    txs[t].kind \in {"deploy", "mint"} /\ txs[t].faucet = f /\ Applied(t)

(* verify_durable_faucet: the key is there, and the store has the account. *)
Durable(f) == faucets[f].stored

AlreadyDeployed(s) ==
  /\ At(s, "chosen", "create-faucet") /\ Durable(cli[s].faucet)
  /\ MaybeTracked(cli[s].faucet)
  /\ End(s)
  /\ UNCHANGED <<faucets, vaults, txs, reserve, disk, runs, faults>>

(* deploy_durable_faucet: the owner sends it a note, with a sponsorship    *)
(* for its fee,                                                            *)
SubmitBootstrap(s) ==
  /\ At(s, "chosen", "create-faucet") /\ Durable(cli[s].faucet)
  /\ ~OnChain(cli[s].faucet)
  /\ Submit(s, "bootstrap", 0, "faucet", "bootstrapping")

(* which it consumes in its first transaction.                             *)
SubmitDeploy(s) ==
  /\ Finished(s, "bootstrapping", "create-faucet")
  /\ Submit(s, "deploy", cli[s].tx, "faucet", "deploying")

(* The maximum supply is compared with the default one.                    *)
AsDeployed(f) == LocalSupply(f) = 0 /\ faucets[f].cap = "default"

RecordDeployment(s) ==
  /\ Finished(s, "deploying", "create-faucet") /\ AsDeployed(cli[s].faucet)
  /\ Finish(s, [cli[s].config EXCEPT !.deploy = cli[s].tx])

DeployedDiffers(s) ==
  /\ Finished(s, "deploying", "create-faucet") /\ ~AsDeployed(cli[s].faucet)
  /\ End(s)
  /\ UNCHANGED <<faucets, vaults, txs, reserve, disk, runs, faults>>

CreateFaucet(s) ==
  \/ UseConfigured(s) \/ (\E cap \in Caps : CreateKey(s, cap))
  \/ AddFaucet(s) \/ SaveFaucet(s) \/ AlreadyDeployed(s)
  \/ SubmitBootstrap(s) \/ SubmitDeploy(s) \/ RecordDeployment(s)
  \/ DeployedDiffers(s)

-----------------------------------------------------------------------------
(* mint and fund-fees.                                                     *)

(* fund_account_native: a note to the faucet, or to the one fund-fees is   *)
(* told.                                                                   *)
SubmitFund(s) ==
  /\ cli[s].stage = "launched" /\ cli[s].command \in {"mint", "fund-fees"}
  /\ Submit(s, "fund", 0,
            IF cli[s].command = "mint" THEN "faucet" ELSE "beneficiary",
            "funding")

RecordFunding(s) ==
  /\ Finished(s, "funding", "fund-fees")
  /\ Finish(s, [cli[s].config EXCEPT !.fund = cli[s].tx])

Count(s, account, n) ==
  /\ cli' = [cli EXCEPT ![s].stage = "counted", ![s].tx = n,
                ![s].balance = LocalBalance(account, cli[s].faucet),
                ![s].supply = LocalSupply(cli[s].faucet)]
  /\ UNCHANGED <<faucets, vaults, txs, reserve, disk, runs, faults>>

(* mint_faucet_asset: reads balances,                                      *)
ReadBeforeMint(s) ==
  /\ Finished(s, "funding", "mint")
  /\ faucets[cli[s].faucet].stored /\ Consumable(cli[s].tx)
  /\ Count(s, "owner", cli[s].tx)

(* mints one unit into a note to the owner, with the fee just received,    *)
SubmitMint(s) ==
  /\ At(s, "counted", "mint")
  /\ Submit(s, "mint", cli[s].tx, "owner", "minting")

(* and has the owner consume the note.                                     *)
SubmitCollect(s) ==
  /\ Finished(s, "minting", "mint")
  /\ Submit(s, "collect", cli[s].tx, "owner", "taking")

Gained(s, account) ==
  LocalBalance(account, cli[s].faucet) = cli[s].balance + 1

MintedOne(s) ==
  Gained(s, "owner") /\ LocalSupply(cli[s].faucet) = cli[s].supply + 1

RecordMint(s) ==
  /\ Finished(s, "taking", "mint") /\ MintedOne(s)
  /\ Finish(s, [cli[s].config EXCEPT !.mint = txs[cli[s].tx].input])

Mint(s) ==
  \/ SubmitFund(s) \/ RecordFunding(s) \/ ReadBeforeMint(s)
  \/ SubmitMint(s) \/ SubmitCollect(s) \/ RecordMint(s)

-----------------------------------------------------------------------------
(* consume.                                                                *)

ReadBeforeConsume(s, n) ==
  /\ At(s, "launched", "consume")
  /\ ConsumableBy(s, n)
  /\ Count(s, "beneficiary", n)

SubmitWithoutNote(s) ==
  /\ At(s, "counted", "consume")
  /\ Submit(s, "consume", 0, "beneficiary", "taking")
SubmitConsume(s) ==
  /\ At(s, "counted", "consume")
  /\ Submit(s, "consume", cli[s].tx, "beneficiary", "taking")

RecordConsumption(s) ==
  /\ Finished(s, "taking", "consume") /\ Gained(s, "beneficiary")
  /\ Finish(s, [cli[s].config EXCEPT !.consume = cli[s].tx])

Consume(s) ==
  \/ (\E n \in DOMAIN txs : ReadBeforeConsume(s, n))
  \/ SubmitConsume(s) \/ RecordConsumption(s)

(* The balances are not what they were, plus what this command moved.      *)
NotAsCounted(s) ==
  /\ cli[s].stage = "taking" /\ OwnCommitted(s)
  /\ ~IF cli[s].command = "mint" THEN MintedOne(s)
      ELSE Gained(s, "beneficiary")
  /\ End(s)
  /\ UNCHANGED <<faucets, vaults, txs, reserve, disk, runs, faults>>

-----------------------------------------------------------------------------
Step(s) ==
  \/ CreateFaucet(s) \/ Mint(s) \/ Consume(s) \/ NotAsCounted(s)
  \/ GiveUp(s) \/ Fail(s)

Start(s) ==
  \/ Launch(s, "mint", FALSE) \/ Launch(s, "fund-fees", FALSE)
  \/ Launch(s, "consume", FALSE)
  \/ \E force \in Forces : Launch(s, "create-faucet", force)

Settle == \E t \in DOMAIN txs : CommitTx(t) \/ DiscardTx(t)

Next ==
  \/ Settle \/ NewVault \/ PayOut \/ TopUp
  \/ \E s \in Sessions : Start(s) \/ Step(s)

Spec == Init /\ [][Next]_vars

(* A running process takes its next step, and the chain settles what has   *)
(* been submitted.  Nobody is asked to start a command.                    *)
Fairness == WF_vars(Settle) /\ \A s \in Sessions : WF_vars(Step(s))
FairSpec == Spec /\ Fairness

-----------------------------------------------------------------------------
(* Properties.                                                             *)

(* Wherever create-faucet is killed, and whatever other processes write    *)
(* over the file, the faucet on file is one the client can go on with: its *)
(* account is in the store.  A vault on file inherits such a faucet too.   *)
ConfiguredFaucetUsable ==
  /\ disk.faucet # 0 => faucets[disk.faucet].stored
  /\ disk.vault # 0 => faucets[vaults[disk.vault]].stored

Is(t, kind) == t \in DOMAIN txs /\ txs[t].kind = kind /\ Committed(t)

(* What the file records has happened on chain: a transaction of the right *)
(* kind was committed, a mint and a consumption with what they used up.    *)
RecordsAreReal ==
  /\ disk.deploy # 0 => Is(disk.deploy, "deploy")
  /\ disk.fund # 0 => Is(disk.fund, "fund")
  /\ disk.payout # 0 => Is(disk.payout, "payout")
  /\ disk.mint # 0 =>
       /\ Is(disk.mint, "mint") /\ Is(txs[disk.mint].input, "fund")
       /\ \E t \in DOMAIN txs : Is(t, "collect") /\ txs[t].input = disk.mint
  /\ disk.consume # 0 =>
       Is(disk.consume, "consume") /\ Is(txs[disk.consume].input, "payout")

(* As long as nobody used --force (or configure), all the file records is  *)
(* about one faucet: processes that overwrite each other's file do not mix *)
(* theirs.                                                                 *)
OneFaucetOnFile ==
  LET f == disk.faucet IN
  (\A i \in DOMAIN faucets : ~faucets[i].forced) =>
    /\ disk.vault # 0 => vaults[disk.vault] = f
    /\ \A t \in {disk.deploy, disk.mint, disk.consume, disk.payout} \ {0} :
         txs[t].faucet = f

(* No failure will be explored any more, or the bound has stopped a run.   *)
Calm == faults = MaxFaults
Full == Len(txs) = MaxTxs

(* create-faucet deploys the faucet it has chosen, however far an earlier  *)
(* run had got with it when it failed.                                     *)
FaucetGetsDeployed ==
  \A f \in 1..MaxFaucets :
    Calm /\ (\E s \in Sessions : /\ At(s, "chosen", "create-faucet")
                                 /\ cli[s].faucet = f)
      ~> OnChain(f) \/ Full

(* A payout that consume sets out to consume is consumed, by this run or   *)
(* another, whatever failed before.  A vault pays once.                    *)
PaidOut(v) == \E t \in DOMAIN txs : txs[t].vault = v /\ Spent(t)

PayoutGetsConsumed ==
  \A v \in 1..MaxFaucets :
    Calm /\ (\E s \in Sessions : /\ At(s, "counted", "consume")
                                 /\ txs[cli[s].tx].vault = v)
      ~> PaidOut(v) \/ Full
=============================================================================
