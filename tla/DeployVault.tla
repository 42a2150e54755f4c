------------------------------ MODULE DeployVault ------------------------------
(***************************************************************************)
(* The lifecycle CLI's deploy-vault command, run again after it failed.    *)
(*                                                                         *)
(* Deployment takes four transactions on chain: the owner's, that creates  *)
(* the bootstrap notes; the vault's first own, that consumes them and      *)
(* brings the account into existence; the network's, that consumes a       *)
(* configuration note and removes the P2ID root; and the network's, that   *)
(* consumes the activation note.  Any of them may fail to arrive, the      *)
(* process may die at any point, and the command is started again on what  *)
(* it left behind: the configuration file, the client's account store and  *)
(* the chain.  Only a verified vault is recorded as the configured one.    *)
(* The command works on a copy of the file read at launch and writes all   *)
(* of it back after most steps.  Meanwhile the operator may change the     *)
(* policy on file, or name any vault at all, with configure; and each of   *)
(* the three sponsorships may find the owner's wallet too poor.            *)
(*                                                                         *)
(* As in HeirbeatVault, an operator placed right before one it could be    *)
(* mistaken for is a fault that no action uses.                            *)
(***************************************************************************)
EXTENDS Integers, Sequences, FiniteSets

CONSTANTS
  Timeout,      \* timeout_blocks asked for
  StartsFunded, \* can the owner pay the first sponsorship at first
  Strangers,    \* do others send assets to the vault
  Configured,   \* policies configure may put on file
  Nameable,     \* vaults configure may name on file
  FaultPoints,  \* stages at which a run may fail or die
  MaxFaults     \* bound of the failures explored

ASSUME TimeoutAssumption == Timeout \in Nat \ {0}
ASSUME EnvironmentAssumption ==
  StartsFunded \in BOOLEAN /\ Strangers \in BOOLEAN
ASSUME ConfiguredAssumption ==
  /\ Configured \subseteq {"asked", "other_faucet", "other"}
  /\ Nameable \subseteq {"named", "other"}
ASSUME BoundAssumption == MaxFaults \in Nat

VARIABLES
  vault,      \* committed state of the vault, once it exists
  bootstrap,  \* the owner's transaction with the bootstrap notes
  deploy,     \* the vault's first transaction
  notes,      \* configuration and activation notes, in order of submission
  tracked,    \* is the vault in the client's account store
  funded,     \* does the owner's wallet cover the next sponsorship
  disk,       \* the configuration file
  run,        \* the running process
  faults      \* failures so far

vars == <<vault, bootstrap, deploy, notes, tracked, funded, disk, run, faults>>

(* The allowlist of the vault, by the life it allows: with P2ID, without,  *)
(* and frozen to the three feature notes and sponsorships.                 *)
Surfaces == {"bootstrap", "cleaned", "frozen"}

(* beat: a heartbeat is on record; held: it holds the inherited asset.     *)
VaultType ==
  [exists : BOOLEAN, surface : Surfaces, beat : BOOLEAN, held : BOOLEAN]

TxStatuses == {"none", "submitted", "committed", "dropped"}
NoteStatuses == {"submitted", "dropped", "committed", "executed", "discarded"}
NoteType == [kind : {"config", "activate"}, status : NoteStatuses]

(* Owner, beneficiary, faucet and timeout, against those of the vault: all *)
(* as asked for, or another faucet only, or another of the rest as well.   *)
Policies == {"asked", "other_faucet", "other"}

(* The entry vault: none, this vault as deploy-vault wrote it, this vault  *)
(* as configure named it, or another one configure named.                  *)
Entries == {"none", "recorded", "named", "other"}

(* pending_vault, vault and the policy in the configuration file.          *)
ConfigType == [pending : BOOLEAN, vault : Entries, policy : Policies]

Stages == {"idle", "launched", "added", "saved", "noted", "sent",
           "bootstrapping", "signed", "deploying", "created", "staged",
           "cleaning", "activating", "freezing", "verifying"}

(* pending, policy: those in the copy of the file the process works on; it *)
(* names no vault until it is recorded.                                    *)
RunType ==
  [stage : Stages, note : Nat, pending : BOOLEAN, policy : Policies,
   verdict : {"none", "failed", "insufficient", "changed", "deployed"}]

TypeOK ==
  /\ vault \in VaultType
  /\ bootstrap \in TxStatuses /\ deploy \in TxStatuses
  /\ notes \in Seq(NoteType)
  /\ tracked \in BOOLEAN /\ funded \in BOOLEAN
  /\ disk \in ConfigType
  /\ run \in RunType
  /\ run.stage \in {"cleaning", "freezing"} => run.note \in DOMAIN notes
  /\ faults \in 0..MaxFaults

Idle ==
  [stage |-> "idle", note |-> 0, pending |-> FALSE, policy |-> "asked",
   verdict |-> "none"]

Init ==
  /\ vault = [exists |-> FALSE, surface |-> "bootstrap",
              beat |-> FALSE, held |-> FALSE]
  /\ bootstrap = "none" /\ deploy = "none"
  /\ notes = <<>>
  /\ tracked = FALSE /\ funded = StartsFunded
  /\ disk = [pending |-> FALSE, vault |-> "none", policy |-> "asked"]
  /\ run = Idle
  /\ faults = 0

-----------------------------------------------------------------------------
(* The chain and the wallet.                                               *)

MarkNote(n, status) == notes' = [notes EXCEPT ![n].status = status]

CountFault == faults < MaxFaults /\ faults' = faults + 1

CommitBootstrap ==
  /\ bootstrap = "submitted" /\ bootstrap' = "committed"
  /\ UNCHANGED <<vault, deploy, notes, tracked, funded, disk, run, faults>>

(* The vault exists from its first transaction on.                         *)
CommitDeploy ==
  /\ deploy = "submitted" /\ deploy' = "committed"
  /\ vault' = [vault EXCEPT !.exists = TRUE]
  /\ UNCHANGED <<bootstrap, notes, tracked, funded, disk, run, faults>>

CommitNote(n) ==
  /\ notes[n].status = "submitted" /\ MarkNote(n, "committed")
  /\ UNCHANGED
       <<vault, bootstrap, deploy, tracked, funded, disk, run, faults>>

(* A transaction expires, or the builder gives up a note.                  *)
DropBootstrap ==
  /\ "bootstrapping" \in FaultPoints /\ CountFault
  /\ bootstrap = "submitted" /\ bootstrap' = "dropped"
  /\ UNCHANGED <<vault, deploy, notes, tracked, funded, disk, run>>

DropDeploy ==
  /\ "deploying" \in FaultPoints /\ CountFault
  /\ deploy = "submitted" /\ deploy' = "dropped"
  /\ UNCHANGED <<vault, bootstrap, notes, tracked, funded, disk, run>>

LoseNote(n) ==
  /\ CountFault
  /\ \/ notes[n].status = "submitted" /\ MarkNote(n, "dropped")
     \/ notes[n].status = "committed" /\ MarkNote(n, "discarded")
  /\ UNCHANGED <<vault, bootstrap, deploy, tracked, funded, disk, run>>

(* The network executes a note the vault's allowlist still admits.         *)
AlwaysConfigurable == vault.surface \in Surfaces
Configurable == vault.surface # "frozen"

ExecuteNote(n) ==
  /\ notes[n].status = "committed" /\ MarkNote(n, "executed")
  /\ vault.exists
  /\ \/ /\ notes[n].kind = "config" /\ Configurable
        /\ vault' = [vault EXCEPT !.surface = "cleaned"]
     \/ /\ notes[n].kind = "activate" /\ vault.surface = "cleaned"
        /\ vault' = [vault EXCEPT !.surface = "frozen"]
  /\ UNCHANGED <<bootstrap, deploy, tracked, funded, disk, run, faults>>

(* A note the vault's allowlist no longer admits is given up.              *)
RejectNote(n) ==
  /\ notes[n].status = "committed" /\ MarkNote(n, "discarded")
  /\ vault.surface = "frozen"
  /\ UNCHANGED
       <<vault, bootstrap, deploy, tracked, funded, disk, run, faults>>

(* P2ID while it is allowed, and deposits or the owner's heartbeats once   *)
(* activated, leave a balance or a heartbeat the command does not expect.  *)
UseVault ==
  /\ Strangers /\ vault.exists
  /\ \/ /\ vault.surface # "cleaned"
        /\ vault' = [vault EXCEPT !.held = TRUE]
     \/ /\ vault.surface = "frozen"
        /\ vault' = [vault EXCEPT !.beat = TRUE]
  /\ UNCHANGED
       <<bootstrap, deploy, notes, tracked, funded, disk, run, faults>>

(* "Fund the Owner wallet and retry."                                      *)
FundOwner ==
  /\ ~funded /\ funded' = TRUE
  /\ UNCHANGED
       <<vault, bootstrap, deploy, notes, tracked, disk, run, faults>>

-----------------------------------------------------------------------------
(* The commands.                                                           *)

(* configure, once there is a vault whose policy and ID it can contradict: *)
(* what it is given for the vault is written down unchecked.               *)
Configure(policy, named) ==
  /\ tracked
  /\ disk' = [disk EXCEPT !.policy = policy, !.vault = named]
  /\ UNCHANGED
       <<vault, bootstrap, deploy, notes, tracked, funded, run, faults>>

Enter(stage) == run' = [run EXCEPT !.stage = stage]
Await(stage, n) == run' = [run EXCEPT !.stage = stage, !.note = n]
Exit(verdict) == run' = [Idle EXCEPT !.verdict = verdict]

(* A vault is not deployed while another is configured.                    *)
Launch ==
  /\ run.stage = "idle"
  /\ disk.vault = "none"
  /\ run' = [Idle EXCEPT !.stage = "launched", !.pending = disk.pending,
                         !.policy = disk.policy]
  /\ UNCHANGED
       <<vault, bootstrap, deploy, notes, tracked, funded, disk, faults>>

(* A vault on record as pending is taken up again.                         *)
Forgotten == FALSE
PendingVault == run.pending

ResumePending ==
  /\ run.stage = "launched" /\ PendingVault
  /\ Enter("staged")
  /\ UNCHANGED
       <<vault, bootstrap, deploy, notes, tracked, funded, disk, faults>>

(* create_vault: the account, built from a fixed seed, enters the client's *)
(* store, which refuses one it already has, and the copy of the file.      *)
Add(pending) ==
  /\ run.stage = "launched" /\ ~PendingVault
  /\ \/ ~tracked /\ run' = [run EXCEPT !.stage = "added", !.pending = pending]
     \/ tracked /\ Exit("failed")
  /\ tracked' = TRUE
  /\ UNCHANGED
       <<vault, bootstrap, deploy, notes, funded, disk, faults>>

AddUnrecorded == Add(FALSE)
AddAccount == Add(TRUE)

(* The whole file is replaced by the process's copy of it.                 *)
KeepPolicy(pending, recorded) ==
  disk' = [disk EXCEPT !.pending = pending, !.vault = recorded]
Save(pending, recorded) ==
  disk' = [pending |-> pending, vault |-> recorded, policy |-> run.policy]

(* The account, and each of the two transactions, is written down in turn. *)
SavedStage ==
  [added |-> "saved", sent |-> "bootstrapping", signed |-> "deploying"]

SaveProgress ==
  /\ run.stage \in DOMAIN SavedStage
  /\ Save(run.pending, "none")
  /\ Enter(SavedStage[run.stage])
  /\ UNCHANGED
       <<vault, bootstrap, deploy, notes, tracked, funded, faults>>

(* ensure_sufficient_native_for_sponsorship: the owner can pay for the     *)
(* sponsorship and for its own transaction.                                *)
Sufficient == funded

(* What a sponsorship leaves may be less than the next one takes.          *)
PaySponsorship == funded' \in BOOLEAN

(* The bootstrap notes are written down before they are submitted.         *)
PrepareBootstrap ==
  /\ run.stage = "saved" /\ Sufficient
  /\ Save(run.pending, "none")
  /\ Enter("noted")
  /\ UNCHANGED
       <<vault, bootstrap, deploy, notes, tracked, funded, faults>>

SubmitBootstrap ==
  /\ run.stage = "noted"
  /\ bootstrap' = "submitted" /\ PaySponsorship
  /\ Enter("sent")
  /\ UNCHANGED <<vault, deploy, notes, tracked, disk, faults>>

SubmitDeploy ==
  /\ run.stage = "bootstrapping" /\ bootstrap = "committed"
  /\ deploy' = "submitted"
  /\ Enter("signed")
  /\ UNCHANGED <<vault, bootstrap, notes, tracked, funded, disk, faults>>

(* committed_block: a transaction of this run was discarded.               *)
TransactionLost ==
  /\ \/ run.stage = "bootstrapping" /\ bootstrap = "dropped"
     \/ run.stage = "deploying" /\ deploy = "dropped"
  /\ Exit("failed")
  /\ UNCHANGED
       <<vault, bootstrap, deploy, notes, tracked, funded, disk, faults>>

SaveDeployed ==
  /\ run.stage = "deploying" /\ deploy = "committed"
  /\ Save(run.pending, "none")
  /\ Enter("created")
  /\ UNCHANGED
       <<vault, bootstrap, deploy, notes, tracked, funded, faults>>

(* The new vault must be empty and untouched; the file is saved once more. *)
Untouched == ~vault.beat /\ ~vault.held

CheckDeployed ==
  /\ run.stage = "created"
  /\ \/ Untouched /\ Enter("staged") /\ Save(TRUE, "none")
     \/ ~Untouched /\ Exit("failed") /\ UNCHANGED disk
  /\ UNCHANGED <<vault, bootstrap, deploy, notes, tracked, funded, faults>>

(* The surface of a finished vault, and the one activation starts from.    *)
BootstrapOrFinal == vault.surface \in {"bootstrap", "frozen"}
Final == vault.surface = "frozen"

AnySetup == vault.surface \in {"bootstrap", "cleaned"}
ExpectedSetup == vault.surface = "cleaned"

(* The staged account, as the client has it: if it is activated, nothing   *)
(* is left but the verification.                                           *)
FindActivated ==
  /\ run.stage = "staged" /\ Final
  /\ Enter("verifying")
  /\ UNCHANGED
       <<vault, bootstrap, deploy, notes, tracked, funded, disk, faults>>

(* Without P2ID, it must have exactly the other setup roots.               *)
FindCleaned ==
  /\ run.stage = "staged" /\ ExpectedSetup
  /\ Enter("activating")
  /\ UNCHANGED
       <<vault, bootstrap, deploy, notes, tracked, funded, disk, faults>>

(* remove_bootstrap_p2id does not compare the faucet, and looks for a      *)
(* balance of the one in the file.                                         *)
LooksClean ==
  /\ run.policy # "other" /\ ~vault.beat
  /\ vault.held => run.policy = "other_faucet"

RefuseStaged ==
  /\ run.stage = "staged"
  /\ vault.surface = "bootstrap" /\ ~LooksClean
  /\ Exit("failed")
  /\ UNCHANGED
       <<vault, bootstrap, deploy, notes, tracked, funded, disk, faults>>

(* The number of the note a run is about to submit.                        *)
LastNote == Len(notes)
NewNote == Len(notes) + 1

Submit(kind, stage) ==
  /\ notes' = Append(notes, [kind |-> kind, status |-> "submitted"])
  /\ PaySponsorship
  /\ Await(stage, NewNote)
  /\ UNCHANGED <<vault, bootstrap, deploy, tracked, disk, faults>>

(* remove_bootstrap_p2id, up to the submission.                            *)
SubmitCleanup ==
  /\ run.stage = "staged"
  /\ vault.surface = "bootstrap" /\ LooksClean /\ Sufficient
  /\ Submit("config", "cleaning")

Settled(n) == notes[n].status \in {"dropped", "discarded"}

(* The note of this stage will not execute.                                *)
NoteLost ==
  /\ run.stage \in {"cleaning", "freezing"} /\ Settled(run.note)
  /\ Exit("failed")
  /\ UNCHANGED
       <<vault, bootstrap, deploy, notes, tracked, funded, disk, faults>>

(* After the cleanup the code compares the timeout with 10, whatever was   *)
(* configured.                                                             *)
CheckCleaned ==
  /\ run.stage = "cleaning" /\ notes[run.note].status = "executed"
  /\ IF ~ExpectedSetup THEN Exit("failed")
     ELSE IF Timeout # 10 \/ vault.beat THEN Exit("changed")
     ELSE IF ~LooksClean THEN Exit("failed")
     ELSE Enter("activating")
  /\ UNCHANGED
       <<vault, bootstrap, deploy, notes, tracked, funded, disk, faults>>

(* activate_vault, up to the submission: the policy, and the exact setup   *)
(* allowlist without P2ID are required.                                    *)
Activatable == ExpectedSetup /\ run.policy = "asked"

SubmitActivation ==
  /\ run.stage = "activating" /\ Activatable /\ Sufficient
  /\ Submit("activate", "freezing")

RefuseActivation ==
  /\ run.stage = "activating" /\ ~Activatable
  /\ Exit("failed")
  /\ UNCHANGED
       <<vault, bootstrap, deploy, notes, tracked, funded, disk, faults>>

CheckActivated ==
  /\ run.stage = "freezing" /\ notes[run.note].status = "executed"
  /\ IF Final /\ ~vault.beat THEN Enter("verifying") ELSE Exit("failed")
  /\ UNCHANGED
       <<vault, bootstrap, deploy, notes, tracked, funded, disk, faults>>

(* In front of each of the three sponsorships, after the other checks.     *)
RefuseUnfunded ==
  /\ ~Sufficient
  /\ \/ run.stage = "saved"
     \/ run.stage = "staged" /\ vault.surface = "bootstrap" /\ LooksClean
     \/ run.stage = "activating" /\ Activatable
  /\ Exit("insufficient")
  /\ UNCHANGED
       <<vault, bootstrap, deploy, notes, tracked, funded, disk, faults>>

(* verify_vault, then the record of the configured vault.                  *)
Verified ==
  vault.exists /\ Final /\ Untouched /\ run.policy = "asked"

Record ==
  /\ run.stage = "verifying" /\ Verified
  /\ Save(FALSE, "recorded")
  /\ Exit("deployed")
  /\ UNCHANGED
       <<vault, bootstrap, deploy, notes, tracked, funded, faults>>

RefuseUnverified ==
  /\ run.stage = "verifying" /\ ~Verified
  /\ Exit("failed")
  /\ UNCHANGED
       <<vault, bootstrap, deploy, notes, tracked, funded, disk, faults>>

(* The process dies, an RPC call fails or a wait runs out of time.         *)
Fail ==
  /\ run.stage \in FaultPoints /\ CountFault
  /\ Exit("failed")
  /\ UNCHANGED <<vault, bootstrap, deploy, notes, tracked, funded, disk>>

Create ==
  \/ AddAccount \/ SaveProgress \/ PrepareBootstrap \/ SubmitBootstrap
  \/ SubmitDeploy \/ TransactionLost \/ SaveDeployed \/ CheckDeployed

Finalize ==
  \/ FindActivated \/ FindCleaned \/ RefuseStaged \/ SubmitCleanup
  \/ CheckCleaned \/ SubmitActivation \/ RefuseActivation \/ CheckActivated
  \/ NoteLost \/ Record \/ RefuseUnverified

Command == Launch \/ ResumePending \/ Create \/ Finalize \/ RefuseUnfunded

Chain ==
  \/ CommitBootstrap \/ CommitDeploy \/ DropBootstrap \/ DropDeploy
  \/ UseVault \/ FundOwner
  \/ \E n \in 1..Len(notes) :
       CommitNote(n) \/ LoseNote(n) \/ ExecuteNote(n) \/ RejectNote(n)

Reconfigure ==
  \E policy \in Configured \cup {disk.policy},
     named \in Nameable \cup {disk.vault} : Configure(policy, named)

Next == Chain \/ Command \/ Fail \/ Reconfigure

Spec == Init /\ [][Next]_vars

(* The operator starts the command again when it has failed, the process   *)
(* goes on, and what is submitted is settled.                              *)
Settle ==
  \/ CommitBootstrap \/ CommitDeploy
  \/ \E n \in 1..Len(notes) : CommitNote(n) \/ ExecuteNote(n) \/ RejectNote(n)

FairSpec == Spec /\ WF_vars(Command) /\ WF_vars(Settle)

-----------------------------------------------------------------------------
(* Properties.                                                             *)

(* The vault deploy-vault records exists on chain with a frozen surface,   *)
(* after any number of interrupted runs.  What configure names may not.    *)
RecordedIsFrozen ==
  disk.vault = "recorded" => vault.exists /\ vault.surface = "frozen"

(* Nothing is submitted for a vault before the file names it, and none of  *)
(* the whole-file saves loses the name: a crash between adding the account *)
(* and saving the file leaves a vault that deploy-vault refuses ever       *)
(* after, but one that has cost nothing.                                   *)
NamedBeforeSpent ==
  bootstrap # "none" \/ deploy # "none" \/ notes # <<>>
    => disk.pending \/ disk.vault # "none"

(* The owner never signs an activation for a vault that still allows P2ID  *)
(* or that the chain does not have, whatever earlier runs left in flight.  *)
ActivationAfterCleanup ==
  (\E n \in 1..Len(notes) : notes[n].kind = "activate") =>
    vault.exists /\ vault.surface # "bootstrap"

(* A vault is recorded together with its own policy, even if configure has *)
(* been used while the command was running.                                *)
RecordedWithItsPolicy ==
  [][disk.vault # "recorded" /\ disk'.vault = "recorded"
       => disk'.policy = "asked"]_vars

(* What verify, and every command that sends a transaction to the vault on *)
(* file, requires of file and vault, whoever named it there.               *)
VerifyAccepts ==
  /\ disk.vault \in {"recorded", "named"} /\ disk.policy = "asked"
  /\ vault.exists /\ Final

(* Only configure can make verify and those commands refuse a vault they   *)
(* have accepted: no note left in flight by an earlier run reopens it, and *)
(* no running deploy-vault removes it from the file.                       *)
VerifiedStaysVerified ==
  [][VerifyAccepts => VerifyAccepts' \/ Reconfigure]_vars

(* Once the vault is on chain and on record as pending, the command        *)
(* started again completes, however the runs before it ended, unless       *)
(* somebody used the vault in between: then it is refused for good; the    *)
(* policy on file is no longer the vault's; or the owner is left without   *)
(* the fees for good.                                                      *)
DeploymentCompletes ==
  vault.exists /\ disk.pending
    ~> \/ disk.vault # "none" \/ ~Untouched \/ disk.policy # "asked"
       \/ []~funded

(* "Fund the Owner wallet and retry": the vault a run proceeds to finalize *)
(* has been deployed.                                                      *)
RetryDeploys ==
  run.stage \in {"staged", "cleaning", "activating", "freezing", "verifying"}
    => vault.exists

(* "post-cleanup vault state changed": then somebody changed it.           *)
ChangedMeansChanged == run.verdict = "changed" => vault.beat
=============================================================================
