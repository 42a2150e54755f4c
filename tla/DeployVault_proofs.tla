-------------------------- MODULE DeployVault_proofs --------------------------
(***************************************************************************)
(* What the staged deployment guarantees however often it is interrupted,  *)
(* for every timeout, fault and bound.                                     *)
(***************************************************************************)
EXTENDS DeployVault, TLAPS

(* The surface leaves "bootstrap" only by a note the network executes, and *)
(* the network executes notes of accounts that exist.                      *)
SetupIsOnChain == vault.surface # "bootstrap" => vault.exists

(* A run has submitted nothing until it has saved the file or has found a  *)
(* vault in it, and while it creates a vault every save names that vault.  *)
Early == {"idle", "launched", "added"}
Creating == {"added", "saved", "noted", "sent", "bootstrapping", "signed",
             "deploying", "created"}
Finalizing == {"staged", "cleaning", "activating", "freezing", "verifying"}
Nothing == bootstrap = "none" /\ deploy = "none" /\ notes = <<>>
Named == disk.pending \/ disk.vault # "none"
OnFile ==
  /\ Named \/ (Nothing /\ run.stage \in Early)
  /\ run.stage = "launched" /\ run.pending => Named
  /\ run.stage \in Creating => run.pending

(* A vault is created once, and until it is no note can have changed it.   *)
Fresh ==
  ~tracked \/ run.stage \in Creating =>
    notes = <<>> /\ vault.surface = "bootstrap"
Untracked ==
  ~tracked => /\ Nothing /\ ~Named /\ run.stage \in {"idle", "launched"}
              /\ run.stage = "launched" => ~run.pending

IInv ==
  /\ TypeOK /\ SetupIsOnChain /\ RecordedIsFrozen /\ ActivationAfterCleanup
  /\ OnFile /\ Fresh /\ Untracked

LEMMA InitHolds == Init => IInv
<1> SUFFICES ASSUME Init PROVE IInv OBVIOUS
<1>1. vault \in VaultType /\ disk \in ConfigType
  BY DEF Init, VaultType, Surfaces, ConfigType, Entries, Policies
<1>0. run \in RunType
  BY DEF Init, RunType, Stages, Idle, Policies
<1>2. /\ bootstrap \in TxStatuses /\ deploy \in TxStatuses
      /\ faults \in 0..MaxFaults
  BY BoundAssumption DEF Init, TxStatuses
<1>3. tracked \in BOOLEAN /\ funded \in BOOLEAN
  BY EnvironmentAssumption DEF Init
<1>4. notes \in Seq(NoteType) /\ Len(notes) = 0
  BY DEF Init
<1>5. /\ run.stage = "idle" /\ vault.surface = "bootstrap"
      /\ ~disk.pending /\ disk.vault = "none"
  BY DEF Init, Idle
<1>6. TypeOK
  BY <1>0, <1>1, <1>2, <1>3, <1>4, <1>5 DEF TypeOK
<1>7. Nothing
  BY DEF Init, Nothing
<1>8. OnFile /\ Fresh /\ Untracked
  BY <1>5, <1>7 DEF OnFile, Fresh, Untracked, Nothing, Named, Early, Creating
<1> QED
  BY <1>4, <1>5, <1>6, <1>8
  DEF IInv, SetupIsOnChain, RecordedIsFrozen, ActivationAfterCleanup

(* Marking one note keeps the list and the kinds of all notes.             *)
LEMMA MarkedNotes ==
  ASSUME notes \in Seq(NoteType), NEW n \in 1..Len(notes),
         NEW status \in NoteStatuses, MarkNote(n, status)
  PROVE  /\ notes' \in Seq(NoteType)
         /\ DOMAIN notes' = DOMAIN notes
         /\ Len(notes') = Len(notes)
         /\ \A i \in 1..Len(notes) : notes'[i].kind = notes[i].kind
<1>1. notes[n] \in NoteType OBVIOUS
<1>2. [notes[n] EXCEPT !.status = status] \in NoteType
  BY <1>1 DEF NoteType
<1>3. notes' = [notes EXCEPT ![n] = [notes[n] EXCEPT !.status = status]]
  BY DEF MarkNote
<1>4. notes' \in Seq(NoteType) /\ Len(notes') = Len(notes)
  BY <1>2, <1>3
<1>5. ASSUME NEW i \in 1..Len(notes) PROVE notes'[i].kind = notes[i].kind
  <2>1. CASE i = n
    BY <1>1, <1>3, <2>1 DEF NoteType
  <2>2. CASE i # n
    BY <1>3, <2>2
  <2> QED BY <2>1, <2>2
<1> QED BY <1>3, <1>4, <1>5

(* Submitting adds one note, the one the run then waits for.               *)
LEMMA SubmittedNote ==
  ASSUME notes \in Seq(NoteType), run \in RunType,
         NEW kind \in {"config", "activate"}, NEW stage \in Stages,
         Submit(kind, stage)
  PROVE  /\ notes' \in Seq(NoteType)
         /\ run' \in RunType
         /\ run'.stage = stage /\ run'.note \in DOMAIN notes'
         /\ \A i \in 1..Len(notes') :
              notes'[i].kind = kind \/ (i \in 1..Len(notes)
                                         /\ notes'[i].kind = notes[i].kind)
<1> DEFINE new == [kind |-> kind, status |-> "submitted"]
<1>1. new \in NoteType
  BY DEF NoteType, NoteStatuses
<1>2. notes' = Append(notes, new)
  BY DEF Submit
<1>3. Len(notes) \in Nat /\ run' = [run EXCEPT !.stage = stage,
                                            !.note = Len(notes) + 1]
  BY DEF Submit, Await, NewNote
<1>4. notes' \in Seq(NoteType) /\ Len(notes') = Len(notes) + 1
  BY <1>1, <1>2
<1>5. run' \in RunType /\ run'.stage = stage /\ run'.note = Len(notes) + 1
  <2>1. run' = [stage |-> stage, note |-> Len(notes) + 1,
                pending |-> run.pending, policy |-> run.policy,
                verdict |-> run.verdict]
    BY <1>3 DEF RunType
  <2> QED BY <1>3, <2>1 DEF RunType
<1>6. ASSUME NEW i \in 1..Len(notes')
      PROVE  notes'[i].kind = kind \/ (i \in 1..Len(notes)
                                        /\ notes'[i].kind = notes[i].kind)
  <2>1. CASE i = Len(notes) + 1
    BY <1>2, <2>1
  <2>2. CASE i # Len(notes) + 1
    BY <1>2, <1>3, <1>4, <2>2
  <2> QED BY <2>1, <2>2
<1> QED BY <1>4, <1>5, <1>6, <1>3

(* A run moves on to a stage that waits for no note.                       *)
LEMMA EnteredStage ==
  ASSUME run \in RunType, NEW stage \in Stages \ {"cleaning", "freezing"},
         Enter(stage)
  PROVE  /\ run' \in RunType /\ run'.stage = stage
         /\ run'.pending = run.pending /\ run'.policy = run.policy
<1>1. run' = [stage |-> stage, note |-> run.note, pending |-> run.pending,
              policy |-> run.policy, verdict |-> run.verdict]
  BY DEF Enter, RunType
<1> QED BY <1>1 DEF RunType

(* A run that ends waits for nothing.                                      *)
LEMMA EndedRun ==
  ASSUME NEW verdict \in {"failed", "insufficient", "changed", "deployed"},
         Exit(verdict)
  PROVE  run' \in RunType /\ run'.stage = "idle"
<1>1. PICK no : no = FALSE
  OBVIOUS
<1>2. run' = [stage |-> "idle", note |-> 0, pending |-> no,
              policy |-> "asked", verdict |-> verdict]
  BY <1>1 DEF Exit, Idle
<1> QED BY <1>1, <1>2 DEF RunType, Stages, Policies

(* The copy of the file a run works on is a file when it is saved.         *)
LEMMA SavedFile ==
  ASSUME run \in RunType, NEW pending \in BOOLEAN, NEW recorded \in Entries,
         Save(pending, recorded)
  PROVE  /\ disk' \in ConfigType
         /\ disk'.pending = pending /\ disk'.vault = recorded
         /\ disk'.policy = run.policy
BY DEF Save, RunType, ConfigType

(* Steps of the command that touch neither the chain nor the notes.        *)
LEMMA RunOnly ==
  ASSUME IInv, run' \in RunType,
         \/ run'.stage = "idle"
         \/ run'.stage \in {"staged", "activating", "verifying"}
               /\ Named /\ tracked,
         UNCHANGED <<vault, bootstrap, deploy, notes, tracked, funded, disk>>,
         faults' \in 0..MaxFaults
  PROVE  IInv'
<1>1. TypeOK'
  BY DEF IInv, TypeOK
<1>2. OnFile' /\ Fresh' /\ Untracked'
  BY DEF IInv, OnFile, Fresh, Untracked, Early, Creating, Nothing, Named
<1> QED
  BY <1>1, <1>2
  DEF IInv, SetupIsOnChain, RecordedIsFrozen, ActivationAfterCleanup

(* Steps of the chain that keep the vault, the file and the run.           *)
LEMMA ChainOnly ==
  ASSUME IInv, UNCHANGED <<vault, tracked, disk, run>>,
         bootstrap' \in TxStatuses, deploy' \in TxStatuses,
         funded' \in BOOLEAN, faults' \in 0..MaxFaults,
         notes' \in Seq(NoteType), DOMAIN notes' = DOMAIN notes,
         Len(notes') = Len(notes),
         \A i \in 1..Len(notes) : notes'[i].kind = notes[i].kind,
         notes = <<>> => notes' = <<>>, Nothing => Nothing'
  PROVE  IInv'
<1>1. TypeOK'
  BY DEF IInv, TypeOK
<1>2. OnFile' /\ Fresh' /\ Untracked'
  BY DEF IInv, OnFile, Fresh, Untracked, Named
<1> QED
  BY <1>1, <1>2
  DEF IInv, SetupIsOnChain, RecordedIsFrozen, ActivationAfterCleanup

-----------------------------------------------------------------------------
(* One lemma for the steps of the chain, one for those of the command.     *)

LEMMA ChainStep == ASSUME IInv, Chain PROVE IInv'
<1> USE DEF IInv
<1>0. /\ notes \in Seq(NoteType) /\ faults \in 0..MaxFaults
      /\ bootstrap \in TxStatuses /\ deploy \in TxStatuses
      /\ vault \in VaultType
  BY DEF TypeOK
<1>a. funded \in BOOLEAN /\ tracked \in BOOLEAN
  BY DEF TypeOK
<1>b. CountFault => faults' \in 0..MaxFaults
  BY <1>0, BoundAssumption DEF CountFault
<1>1. CASE CommitBootstrap \/ DropBootstrap
  BY <1>0, <1>a, <1>b, <1>1, ChainOnly
  DEF CommitBootstrap, DropBootstrap, TxStatuses, Nothing
<1>2. CASE DropDeploy
  BY <1>0, <1>a, <1>b, <1>2, ChainOnly DEF DropDeploy, TxStatuses, Nothing
<1>3. CASE FundOwner
  BY <1>0, <1>a, <1>3, ChainOnly DEF FundOwner, Nothing
<1>4. CASE CommitDeploy
  <2>1. /\ vault' = [vault EXCEPT !.exists = TRUE]
        /\ deploy' \in TxStatuses
        /\ UNCHANGED <<bootstrap, notes, tracked, funded, disk, run, faults>>
    BY <1>4 DEF CommitDeploy, TxStatuses
  <2>2. vault' \in VaultType /\ vault'.exists
        /\ vault'.surface = vault.surface /\ ~Nothing
    BY <1>0, <1>4, <2>1 DEF VaultType, CommitDeploy, Nothing
  <2>3. TypeOK'
    BY <2>1, <2>2 DEF TypeOK
  <2>4. OnFile' /\ Fresh' /\ Untracked'
    BY <2>1, <2>2 DEF OnFile, Fresh, Untracked, Nothing, Named
  <2> QED
    BY <2>1, <2>2, <2>3, <2>4
    DEF SetupIsOnChain, RecordedIsFrozen, ActivationAfterCleanup
<1>5. CASE UseVault
  <2>1. UNCHANGED
          <<bootstrap, deploy, notes, tracked, funded, disk, run, faults>>
    BY <1>5 DEF UseVault
  <2>2. /\ vault' \in VaultType /\ vault'.exists = vault.exists
        /\ vault'.surface = vault.surface
    BY <1>0, <1>5 DEF UseVault, VaultType
  <2>3. TypeOK'
    BY <2>1, <2>2 DEF TypeOK
  <2>4. OnFile' /\ Fresh' /\ Untracked'
    BY <2>1, <2>2 DEF OnFile, Fresh, Untracked, Nothing, Named
  <2> QED
    BY <2>1, <2>2, <2>3, <2>4
    DEF SetupIsOnChain, RecordedIsFrozen, ActivationAfterCleanup
<1>6. ASSUME NEW n \in 1..Len(notes),
             CommitNote(n) \/ LoseNote(n) \/ RejectNote(n)
      PROVE  IInv'
  <2>1. /\ UNCHANGED <<vault, bootstrap, deploy, tracked, funded, disk, run>>
        /\ faults' \in 0..MaxFaults
    BY <1>0, <1>b, <1>6 DEF CommitNote, LoseNote, RejectNote
  <2>2. \E status \in NoteStatuses : MarkNote(n, status)
    BY <1>6 DEF CommitNote, LoseNote, RejectNote, NoteStatuses
  <2>3. notes # <<>> /\ ~Nothing
    BY <1>0 DEF Nothing
  <2> QED
    BY <1>0, <1>a, <2>1, <2>2, <2>3, MarkedNotes, ChainOnly
<1>7. ASSUME NEW n \in 1..Len(notes), ExecuteNote(n) PROVE IInv'
  <2>1. /\ UNCHANGED <<bootstrap, deploy, tracked, funded, disk, run, faults>>
        /\ vault.exists
        /\ \/ /\ vault.surface # "frozen"
              /\ vault' = [vault EXCEPT !.surface = "cleaned"]
           \/ vault' = [vault EXCEPT !.surface = "frozen"]
    BY <1>7 DEF ExecuteNote, Configurable
  <2>2. /\ notes' \in Seq(NoteType) /\ DOMAIN notes' = DOMAIN notes
        /\ Len(notes') = Len(notes)
        /\ \A i \in 1..Len(notes) : notes'[i].kind = notes[i].kind
    BY <1>0, <1>7, MarkedNotes DEF ExecuteNote, NoteStatuses
  <2>5. notes # <<>> /\ notes' # <<>>
    BY <1>0, <2>2
  <2>3. /\ vault' \in VaultType /\ vault'.exists
        /\ vault'.surface # "bootstrap"
        /\ vault.surface = "frozen" => vault'.surface = "frozen"
    BY <1>0, <2>1 DEF VaultType, Surfaces
  <2>4. TypeOK'
    BY <2>1, <2>2, <2>3 DEF TypeOK
  <2>6. OnFile' /\ Fresh' /\ Untracked'
    BY <2>1, <2>5 DEF OnFile, Fresh, Untracked, Nothing, Named
  <2> QED
    BY <2>1, <2>2, <2>3, <2>4, <2>6
    DEF SetupIsOnChain, RecordedIsFrozen, ActivationAfterCleanup
<1> QED
  BY <1>1, <1>2, <1>3, <1>4, <1>5, <1>6, <1>7 DEF Chain

(* A command that fails or only looks keeps everything else.               *)
LEMMA LookingStep ==
  ASSUME IInv,
         \/ ResumePending \/ RefuseUnfunded \/ TransactionLost
         \/ FindActivated \/ FindCleaned \/ RefuseStaged
         \/ NoteLost \/ CheckCleaned \/ RefuseActivation \/ CheckActivated
         \/ RefuseUnverified \/ Fail
  PROVE  IInv'
<1>0. run \in RunType /\ faults \in 0..MaxFaults
  BY DEF IInv, TypeOK
<1>1. UNCHANGED <<vault, bootstrap, deploy, notes, tracked, funded, disk>>
  BY DEF ResumePending, RefuseUnfunded, TransactionLost,
         FindActivated, FindCleaned, RefuseStaged, NoteLost,
         CheckCleaned, RefuseActivation, CheckActivated, RefuseUnverified,
         Fail
<1>2. faults' \in 0..MaxFaults
  BY <1>0, BoundAssumption
  DEF ResumePending, RefuseUnfunded, TransactionLost,
      FindActivated, FindCleaned, RefuseStaged, NoteLost,
      CheckCleaned, RefuseActivation, CheckActivated, RefuseUnverified,
      Fail, CountFault
<1>3. \/ \E stage \in {"staged", "activating", "verifying"} :
           /\ Enter(stage)
           /\ run.stage \notin Early \/ (run.stage = "launched" /\ run.pending)
      \/ \E verdict \in {"failed", "insufficient", "changed"} : Exit(verdict)
  BY DEF ResumePending, RefuseUnfunded, TransactionLost, PendingVault,
         FindActivated, FindCleaned, RefuseStaged, NoteLost,
         CheckCleaned, RefuseActivation, CheckActivated, RefuseUnverified,
         Fail, Stages, Early
<1>4. /\ run' \in RunType
      /\ \/ run'.stage = "idle"
         \/ /\ run'.stage \in {"staged", "activating", "verifying"}
            /\ run.stage \notin Early
                 \/ (run.stage = "launched" /\ run.pending)
  BY <1>0, <1>3, EnteredStage, EndedRun DEF Stages
<1>5. \/ run'.stage = "idle"
      \/ run'.stage \in {"staged", "activating", "verifying"}
            /\ Named /\ tracked
  BY <1>0, <1>4 DEF IInv, OnFile, Untracked, Early
<1> QED BY <1>1, <1>2, <1>4, <1>5, RunOnly

(* A run starts with what the file says.                                   *)
LEMMA LaunchStep == ASSUME IInv, Launch PROVE IInv'
<1>1. /\ UNCHANGED
           <<vault, bootstrap, deploy, notes, tracked, funded, disk, faults>>
      /\ run' = [stage |-> "launched", note |-> 0, pending |-> disk.pending,
                 policy |-> disk.policy, verdict |-> "none"]
      /\ run.stage = "idle"
  BY DEF Launch, Idle
<1>2. disk.policy \in Policies /\ disk.pending \in BOOLEAN
  BY DEF IInv, TypeOK, ConfigType
<1>3. /\ run' \in RunType /\ run'.stage = "launched"
      /\ run'.pending = disk.pending
  BY <1>1, <1>2 DEF RunType, Stages
<1>4. TypeOK'
  BY <1>1, <1>3 DEF IInv, TypeOK
<1>5. OnFile' /\ Fresh' /\ Untracked'
  BY <1>1, <1>3
  DEF IInv, OnFile, Fresh, Untracked, Early, Creating, Nothing, Named
<1> QED
  BY <1>1, <1>4, <1>5
  DEF IInv, SetupIsOnChain, RecordedIsFrozen, ActivationAfterCleanup

(* Writing the file records no vault.                                      *)
LEMMA FileStep ==
  ASSUME IInv, UNCHANGED <<vault, notes, faults>>,
         disk' \in ConfigType,
         disk'.vault = "recorded" => disk.vault = "recorded",
         bootstrap' \in TxStatuses, deploy' \in TxStatuses,
         tracked' \in BOOLEAN, funded' \in BOOLEAN, run' \in RunType,
         run'.stage \in {"cleaning", "freezing"} => run' = run,
         OnFile', Fresh', Untracked'
  PROVE  IInv'
<1>1. TypeOK'
  BY DEF IInv, TypeOK
<1> QED
  BY <1>1
  DEF IInv, SetupIsOnChain, RecordedIsFrozen, ActivationAfterCleanup

(* configure keeps the pending entry and never empties the other one.      *)
LEMMA ConfiguredFile ==
  ASSUME IInv, Reconfigure
  PROVE  /\ UNCHANGED
              <<vault, bootstrap, deploy, notes, tracked, funded, run, faults>>
         /\ tracked /\ disk' \in ConfigType /\ disk'.pending = disk.pending
         /\ disk'.vault = disk.vault \/ disk'.vault \in {"named", "other"}
<1>1. PICK policy \in Configured \cup {disk.policy},
           named \in Nameable \cup {disk.vault} : Configure(policy, named)
  BY DEF Reconfigure
<1>2. disk \in ConfigType /\ policy \in Policies /\ named \in Entries
      /\ (named = disk.vault \/ named \in {"named", "other"})
  BY ConfiguredAssumption DEF IInv, TypeOK, ConfigType, Policies, Entries
<1>3. disk' = [pending |-> disk.pending, vault |-> named, policy |-> policy]
  BY <1>1, <1>2 DEF Configure, ConfigType
<1> QED
  BY <1>1, <1>2, <1>3 DEF Configure, ConfigType

LEMMA ConfigureStep == ASSUME IInv, Reconfigure PROVE IInv'
<1>1. /\ UNCHANGED
           <<vault, bootstrap, deploy, notes, tracked, funded, run, faults>>
      /\ tracked /\ disk' \in ConfigType /\ disk'.pending = disk.pending
      /\ disk'.vault = disk.vault \/ disk'.vault \in {"named", "other"}
  BY ConfiguredFile
<1>2. OnFile' /\ Fresh' /\ Untracked'
  BY <1>1 DEF IInv, OnFile, Fresh, Untracked, Nothing, Named
<1> QED
  BY <1>1, <1>2, FileStep DEF IInv, TypeOK

(* A run that creates a vault submits, or saves a copy that names it.      *)
LEMMA CreatingStep ==
  ASSUME IInv, run.stage \in Creating,
         UNCHANGED <<vault, notes, tracked, faults>>, funded' \in BOOLEAN,
         bootstrap' \in TxStatuses, deploy' \in TxStatuses,
         NEW stage \in (Creating \ {"added"}) \cup {"staged"},
         Enter(stage) \/ Exit("failed"),
         \/ disk' = disk /\ run.stage # "added"
         \/ Save(TRUE, "none") \/ Save(run.pending, "none")
  PROVE  IInv'
<1>1. run \in RunType /\ disk \in ConfigType /\ tracked \in BOOLEAN
  BY DEF IInv, TypeOK
<1>2. /\ run' \in RunType
      /\ run'.stage = "idle"
           \/ (run'.stage = stage /\ run'.pending = run.pending)
  BY <1>1, EnteredStage, EndedRun DEF Stages, Creating
<1>3. run.pending /\ tracked
  BY DEF IInv, OnFile, Untracked, Creating
<1>4. /\ disk' \in ConfigType
      /\ disk'.vault = "recorded" => disk.vault = "recorded"
      /\ Named'
  <2>1. CASE disk' = disk /\ run.stage # "added"
    BY <1>1, <2>1 DEF IInv, OnFile, Early, Creating, Named
  <2>2. CASE Save(TRUE, "none") \/ Save(run.pending, "none")
    BY <1>1, <1>3, <2>2, SavedFile DEF Named, Entries
  <2> QED BY <2>1, <2>2
<1>5. OnFile' /\ Fresh' /\ Untracked'
  BY <1>2, <1>3, <1>4 DEF IInv, OnFile, Fresh, Untracked, Creating
<1>6. run'.stage \notin {"cleaning", "freezing"}
  BY <1>2 DEF Creating
<1> QED BY <1>1, <1>2, <1>4, <1>5, <1>6, FileStep

(* create_vault, up to the deployed vault.                                 *)
LEMMA CreateStep ==
  ASSUME IInv,
         \/ AddAccount \/ SaveProgress \/ PrepareBootstrap
         \/ SubmitBootstrap \/ SubmitDeploy \/ SaveDeployed
         \/ CheckDeployed
  PROVE  IInv'
<1>0. /\ run \in RunType /\ disk \in ConfigType /\ tracked \in BOOLEAN
      /\ bootstrap \in TxStatuses /\ deploy \in TxStatuses
      /\ funded \in BOOLEAN
  BY DEF IInv, TypeOK
<1>1. CASE AddAccount
  <2>1. /\ UNCHANGED <<vault, bootstrap, deploy, notes, funded, disk, faults>>
        /\ tracked' = TRUE /\ run.stage = "launched"
        /\ \/ ~tracked /\ run' = [run EXCEPT !.stage = "added",
                                            !.pending = TRUE]
           \/ Exit("failed")
    BY <1>1 DEF AddAccount, Add
  <2>2. /\ run' \in RunType
        /\ \/ run'.stage = "idle"
           \/ run'.stage = "added" /\ run'.pending /\ ~tracked
    <3>1. CASE Exit("failed")
      BY <3>1, EndedRun
    <3>2. CASE ~tracked /\ run' = [run EXCEPT !.stage = "added",
                                              !.pending = TRUE]
      BY <1>0, <3>2 DEF RunType, Stages
    <3> QED BY <2>1, <3>1, <3>2
  <2>3. OnFile' /\ Fresh' /\ Untracked'
    BY <2>1, <2>2
    DEF IInv, OnFile, Fresh, Untracked, Named, Nothing, Early, Creating
  <2> QED BY <1>0, <2>1, <2>2, <2>3, FileStep
<1>2. CASE SaveProgress
  <2>1. PICK stage \in {"saved", "bootstrapping", "deploying"} :
          /\ run.stage \in {"added", "sent", "signed"}
          /\ Save(run.pending, "none") /\ Enter(stage)
          /\ UNCHANGED
               <<vault, bootstrap, deploy, notes, tracked, funded, faults>>
    BY <1>2 DEF SaveProgress, SavedStage
  <2> QED BY <1>0, <2>1, CreatingStep DEF Creating
<1>3. CASE PrepareBootstrap \/ SubmitBootstrap \/ SubmitDeploy
             \/ SaveDeployed
  <2>1. PICK stage \in {"noted", "sent", "signed", "created"} :
          /\ UNCHANGED <<vault, notes, tracked, faults>>
          /\ funded' \in BOOLEAN
          /\ bootstrap' \in TxStatuses /\ deploy' \in TxStatuses
          /\ run.stage \in {"saved", "noted", "bootstrapping", "deploying"}
          /\ Enter(stage)
          /\ disk' = disk \/ Save(run.pending, "none")
    BY <1>0, <1>3 DEF PrepareBootstrap, SubmitBootstrap, SubmitDeploy,
      SaveDeployed, PaySponsorship, TxStatuses
  <2> QED BY <2>1, CreatingStep DEF Creating
<1>4. CASE CheckDeployed
  <2>1. /\ UNCHANGED
             <<vault, bootstrap, deploy, notes, tracked, funded, faults>>
        /\ run.stage = "created"
        /\ \/ Enter("staged") /\ Save(TRUE, "none")
           \/ Exit("failed") /\ UNCHANGED disk
    BY <1>4 DEF CheckDeployed
  <2> QED BY <1>0, <2>1, CreatingStep DEF Creating
<1> QED BY <1>1, <1>2, <1>3, <1>4

LEMMA SubmitStep ==
  ASSUME IInv, SubmitCleanup \/ SubmitActivation PROVE IInv'
<1> USE DEF IInv
<1>0. run \in RunType /\ notes \in Seq(NoteType)
  BY DEF TypeOK
<1>1. PICK kind \in {"config", "activate"},
           stage \in {"cleaning", "freezing"} :
        /\ Submit(kind, stage) /\ run.stage \in {"staged", "activating"}
        /\ kind = "activate" => vault.surface = "cleaned"
  BY DEF SubmitCleanup, SubmitActivation, Activatable, ExpectedSetup
<1>2. /\ UNCHANGED <<vault, bootstrap, deploy, tracked, disk, faults>>
      /\ funded' \in BOOLEAN
  BY <1>1 DEF Submit, PaySponsorship
<1>3. /\ notes' \in Seq(NoteType) /\ run' \in RunType
      /\ run'.stage = stage /\ run'.note \in DOMAIN notes'
      /\ \A i \in 1..Len(notes') :
           notes'[i].kind = kind \/ (i \in 1..Len(notes)
                                      /\ notes'[i].kind = notes[i].kind)
  BY <1>0, <1>1, SubmittedNote DEF Stages
<1>4. TypeOK'
  BY <1>2, <1>3 DEF TypeOK
<1>5. ActivationAfterCleanup'
  BY <1>1, <1>2, <1>3 DEF ActivationAfterCleanup, SetupIsOnChain
<1>6. Named /\ tracked
  BY <1>1 DEF OnFile, Untracked, Early
<1>7. OnFile' /\ Fresh' /\ Untracked'
  BY <1>2, <1>3, <1>6 DEF OnFile, Fresh, Untracked, Named, Creating
<1> QED
  BY <1>2, <1>4, <1>5, <1>7 DEF SetupIsOnChain, RecordedIsFrozen

LEMMA RecordStep == ASSUME IInv, Record PROVE IInv'
<1>1. /\ UNCHANGED
           <<vault, bootstrap, deploy, notes, tracked, funded, faults>>
      /\ Save(FALSE, "recorded") /\ run \in RunType
      /\ vault.exists /\ vault.surface = "frozen"
  BY DEF Record, Verified, Final, IInv, TypeOK
<1>2. run' \in RunType /\ run'.stage = "idle" /\ tracked
  BY EndedRun DEF Record, IInv, Untracked
<1>3. disk' \in ConfigType /\ Named'
  BY <1>1, SavedFile DEF Named, Entries
<1>4. TypeOK'
  BY <1>1, <1>2, <1>3 DEF IInv, TypeOK
<1>5. OnFile' /\ Fresh' /\ Untracked'
  BY <1>1, <1>2, <1>3 DEF OnFile, Fresh, Untracked, Creating
<1> QED
  BY <1>1, <1>3, <1>4, <1>5
  DEF IInv, SetupIsOnChain, RecordedIsFrozen, ActivationAfterCleanup

(* The invariant holds in every reachable state.                           *)
THEOREM InvariantHolds == Spec => []IInv
<1>1. IInv /\ Next => IInv'
  BY ChainStep, LookingStep, LaunchStep, CreateStep, SubmitStep, RecordStep,
     ConfigureStep
  DEF Next, Command, Create, Finalize
<1>2. IInv /\ UNCHANGED vars => IInv'
  BY DEF IInv, vars, TypeOK, SetupIsOnChain, RecordedIsFrozen,
         ActivationAfterCleanup, OnFile, Fresh, Untracked, Named, Nothing
<1> QED
  BY <1>1, <1>2, InitHolds, PTL DEF Spec

(* Every variable keeps its type, and a run that waits for a note waits    *)
(* for one it has submitted.                                               *)
THEOREM TypeCorrect == Spec => []TypeOK
<1>1. IInv => TypeOK BY DEF IInv
<1> QED BY <1>1, InvariantHolds, PTL

(* Whatever is interrupted and however often, and whatever configure names *)
(* on file meanwhile, the vault that deploy-vault has recorded is on chain *)
(* with the frozen allowlist.                                              *)
THEOREM RecordedStaysFrozen == Spec => []RecordedIsFrozen
<1>1. IInv => RecordedIsFrozen BY DEF IInv
<1> QED BY <1>1, InvariantHolds, PTL

(* No run ever signs an activation while P2ID is still allowed.            *)
THEOREM ActivationWaitsForCleanup == Spec => []ActivationAfterCleanup
<1>1. IInv => ActivationAfterCleanup BY DEF IInv
<1> QED BY <1>1, InvariantHolds, PTL

(* Nothing is submitted for a vault the file does not name, wherever a run *)
(* dies.                                                                   *)
THEOREM NothingSpentUnnamed == Spec => []NamedBeforeSpent
<1>1. IInv => NamedBeforeSpent
  BY DEF IInv, OnFile, Named, Nothing, NamedBeforeSpent
<1> QED BY <1>1, InvariantHolds, PTL

-----------------------------------------------------------------------------
(* Who writes the file.                                                    *)

Saving == SaveProgress \/ PrepareBootstrap \/ SaveDeployed \/ CheckDeployed

LEMMA ChainKeepsFile == ASSUME Chain PROVE UNCHANGED <<disk, run>>
BY DEF Chain, CommitBootstrap, CommitDeploy, CommitNote, DropBootstrap,
  DropDeploy, LoseNote, ExecuteNote, RejectNote, UseVault, FundOwner

LEMMA WhoWrites ==
  ASSUME [Next]_vars
  PROVE  \/ Record \/ Saving \/ Reconfigure
         \/ disk' = disk /\ (Chain \/ UNCHANGED vault)
<1>1. CASE Chain
  BY <1>1, ChainKeepsFile
<1> QED
  BY <1>1 DEF Saving, Next, vars, Command, Create, Finalize, Launch,
    ResumePending, AddAccount, Add, RefuseUnfunded, SubmitBootstrap,
    SubmitDeploy, TransactionLost, FindActivated, FindCleaned, RefuseStaged,
    Submit, SubmitCleanup, NoteLost, CheckCleaned, SubmitActivation,
    RefuseActivation, CheckActivated, RefuseUnverified, Fail

(* What a run saves while it creates a vault names none, and the vault is  *)
(* not frozen.                                                             *)
LEMMA SavingUnnamed ==
  ASSUME IInv, Saving
  PROVE  /\ vault.surface = "bootstrap"
         /\ disk' = disk \/ disk'.vault = "none"
<1>1. /\ run.stage \in Creating
      /\ disk' = disk \/ Save(TRUE, "none") \/ Save(run.pending, "none")
  BY DEF Saving, SaveProgress, SavedStage, PrepareBootstrap, SaveDeployed,
    CheckDeployed, Creating
<1>2. run \in RunType /\ run.pending \in BOOLEAN
  BY DEF IInv, TypeOK, RunType
<1>3. vault.surface = "bootstrap"
  BY <1>1 DEF IInv, Fresh
<1> QED BY <1>1, <1>2, <1>3, SavedFile DEF Entries

(* The file a run records a vault in holds the policy of that vault,       *)
(* whatever configure has written since the run read it.                   *)
THEOREM RecordedPolicyIsTheVaults == Spec => RecordedWithItsPolicy
<1> DEFINE A == disk.vault # "recorded" /\ disk'.vault = "recorded"
                  => disk'.policy = "asked"
<1>1. ASSUME IInv, [Next]_vars PROVE A
  <2>0. run \in RunType
    BY <1>1 DEF IInv, TypeOK
  <2>1. CASE Record
    BY <2>0, <2>1, SavedFile DEF Record, Verified, Entries
  <2>2. CASE Saving
    BY <2>0, <1>1, <2>2, SavingUnnamed
  <2>3. CASE Reconfigure
    BY <1>1, <2>3, ConfiguredFile
  <2>4. CASE disk' = disk
    BY <2>4
  <2> QED BY <1>1, <2>1, <2>2, <2>3, <2>4, WhoWrites
<1> QED
  BY <1>1, InvariantHolds, PTL DEF Spec, RecordedWithItsPolicy

(* The network never opens a frozen vault again.                           *)
LEMMA ChainKeepsFrozen ==
  ASSUME IInv, Chain, vault.exists, vault.surface = "frozen"
  PROVE  vault'.exists /\ vault'.surface = "frozen"
<1>1. vault \in VaultType
  BY DEF IInv, TypeOK
<1>2. CASE UNCHANGED vault
  BY <1>2
<1>3. CASE CommitDeploy \/ UseVault
  BY <1>1, <1>3 DEF CommitDeploy, UseVault, VaultType
<1>4. ASSUME NEW n \in 1..Len(notes), ExecuteNote(n)
      PROVE  FALSE
  BY <1>4 DEF ExecuteNote, Configurable
<1> QED
  BY <1>2, <1>3, <1>4 DEF Chain, CommitBootstrap, CommitNote, DropBootstrap,
    DropDeploy, LoseNote, RejectNote, FundOwner

(* A vault the commands have accepted is refused again only after configure*)
(* has changed the file: a run that writes it without the vault is still   *)
(* creating one, and then none is frozen.                                  *)
THEOREM AcceptedStaysAccepted == Spec => VerifiedStaysVerified
<1> DEFINE A == VerifyAccepts => VerifyAccepts' \/ Reconfigure
<1>1. ASSUME IInv, [Next]_vars PROVE A
  <2> SUFFICES ASSUME VerifyAccepts PROVE VerifyAccepts' \/ Reconfigure
    OBVIOUS
  <2>0. run \in RunType /\ vault.exists /\ vault.surface = "frozen"
    BY <1>1 DEF IInv, TypeOK, VerifyAccepts, Final
  <2>1. CASE Record
    <3>1. Save(FALSE, "recorded") /\ run.policy = "asked" /\ vault' = vault
      BY <2>1 DEF Record, Verified
    <3>2. disk'.vault = "recorded" /\ disk'.policy = "asked"
      BY <2>0, <3>1, SavedFile DEF Entries
    <3> QED BY <2>0, <3>1, <3>2 DEF VerifyAccepts, Final
  <2>2. ~Saving
    BY <1>1, <2>0, SavingUnnamed
  <2>3. CASE disk' = disk /\ (Chain \/ UNCHANGED vault)
    <3>1. vault'.exists /\ vault'.surface = "frozen"
      BY <1>1, <2>0, <2>3, ChainKeepsFrozen
    <3> QED BY <2>3, <3>1 DEF VerifyAccepts, Final
  <2> QED BY <1>1, <2>1, <2>2, <2>3, WhoWrites
<1> QED
  BY <1>1, InvariantHolds, PTL DEF Spec, VerifiedStaysVerified

-----------------------------------------------------------------------------
(* When what the program says of itself is true.                           *)

(* The conditions under which a file that names a pending vault names one  *)
(* that is deployed or just being deployed: the owner is funded from the   *)
(* start, and nothing is lost or dies from the first save on until the     *)
(* vault is on chain.                                                      *)
Pending == {"saved", "noted", "sent", "bootstrapping", "signed", "deploying"}

SmoothCreation ==
  StartsFunded = TRUE /\ FaultPoints \cap Pending = {}

(* The owner is funded until the first sponsorship is paid.                *)
OnChainInv ==
  /\ bootstrap # "dropped" /\ deploy # "dropped"
  /\ bootstrap = "none" => funded
  /\ run.stage \in {"added", "saved", "noted"} => bootstrap = "none"
  /\ deploy # "none" \/ vault.exists => bootstrap # "none"
  /\ deploy = "committed" => vault.exists
  /\ run.stage \in Finalizing \cup {"created"} => vault.exists
  /\ run.stage = "launched" /\ run.pending => vault.exists
  /\ disk.pending => vault.exists \/ run.stage \in Pending

LEMMA ChainKeepsOnChain ==
  ASSUME SmoothCreation, IInv, OnChainInv, Chain
  PROVE  OnChainInv'
<1>1. vault \in VaultType
  BY DEF IInv, TypeOK
<1>2. UNCHANGED <<disk, run>>
  BY ChainKeepsFile
<1>3. ASSUME UNCHANGED <<vault, bootstrap, deploy>>,
             funded' = funded \/ funded'
      PROVE  OnChainInv'
  BY <1>2, <1>3 DEF OnChainInv
<1>4. CASE CommitBootstrap \/ CommitDeploy
  <2>1. CASE CommitBootstrap
    BY <1>2, <2>1 DEF CommitBootstrap, OnChainInv
  <2>2. CASE CommitDeploy
    <3>1. /\ vault'.exists /\ deploy = "submitted"
          /\ deploy' = "committed" /\ UNCHANGED <<bootstrap, funded>>
      BY <1>1, <2>2 DEF CommitDeploy, VaultType
    <3> QED BY <1>2, <3>1 DEF OnChainInv
  <2> QED BY <1>4, <2>1, <2>2
<1>5. CASE DropBootstrap \/ DropDeploy
  BY <1>5 DEF DropBootstrap, DropDeploy, SmoothCreation, Pending
<1>6. CASE UseVault
  <2>1. vault'.exists = vault.exists
        /\ UNCHANGED <<bootstrap, deploy, funded>>
    BY <1>1, <1>6 DEF UseVault, VaultType
  <2> QED BY <1>2, <2>1 DEF OnChainInv
<1>7. ASSUME NEW n \in 1..Len(notes), ExecuteNote(n)
      PROVE  OnChainInv'
  <2>1. vault'.exists = vault.exists
        /\ UNCHANGED <<bootstrap, deploy, funded>>
    BY <1>1, <1>7 DEF ExecuteNote, VaultType
  <2> QED BY <1>2, <2>1 DEF OnChainInv
<1> QED
  BY <1>3, <1>4, <1>5, <1>6, <1>7
  DEF Chain, CommitNote, LoseNote, RejectNote, FundOwner

(* A run that ends, or goes on between stages of one half, changes neither *)
(* what is on chain nor what the file says.                                *)
LEMMA StageKeepsOnChain ==
  ASSUME OnChainInv, UNCHANGED <<vault, bootstrap, deploy, disk>>,
         bootstrap = "none" => funded',
         run'.stage \in Finalizing => vault.exists,
         run'.stage \in Finalizing \cup {"idle"},
         run.stage \in Pending /\ disk.pending => vault.exists
  PROVE  OnChainInv'
BY DEF OnChainInv, Finalizing, Pending

LEMMA CreateKeepsOnChain ==
  ASSUME SmoothCreation, IInv, OnChainInv, Create
  PROVE  OnChainInv'
<1>1. run \in RunType /\ disk \in ConfigType
  BY DEF IInv, TypeOK
<1> USE DEF Stages, Pending, Finalizing
<1>2. CASE AddAccount
  <2>1. /\ UNCHANGED <<vault, bootstrap, deploy, funded, disk>>
        /\ run.stage = "launched"
        /\ \/ ~tracked /\ run' = [run EXCEPT !.stage = "added",
                                            !.pending = TRUE]
           \/ Exit("failed")
    BY <1>2 DEF AddAccount, Add
  <2>2. \/ run'.stage = "added" /\ ~tracked
        \/ run'.stage = "idle"
    BY <1>1, <2>1, EndedRun DEF RunType
  <2>3. ~tracked => bootstrap = "none"
    BY DEF IInv, Untracked, Nothing
  <2> QED BY <2>1, <2>2, <2>3 DEF OnChainInv
<1>3. CASE SaveProgress \/ PrepareBootstrap
  <2>1. PICK stage \in {"saved", "noted", "bootstrapping", "deploying"} :
          /\ Enter(stage)
          /\ stage \in {"saved", "noted"} => run.stage \in {"added", "saved"}
          /\ UNCHANGED <<vault, bootstrap, deploy, funded>>
    BY <1>3 DEF SaveProgress, SavedStage, PrepareBootstrap
  <2>2. run'.stage = stage
    BY <1>1, <2>1, EnteredStage
  <2> QED BY <2>1, <2>2 DEF OnChainInv
<1>4. CASE TransactionLost
  BY <1>4 DEF TransactionLost, OnChainInv
<1>5. CASE SubmitBootstrap
  <2>1. run'.stage = "sent" /\ run.stage = "noted"
    BY <1>1, <1>5, EnteredStage DEF SubmitBootstrap
  <2> QED BY <1>5, <2>1 DEF SubmitBootstrap, OnChainInv
<1>6. CASE SubmitDeploy
  <2>1. run'.stage = "signed" /\ run.stage = "bootstrapping"
    BY <1>1, <1>6, EnteredStage DEF SubmitDeploy
  <2> QED BY <1>6, <2>1 DEF SubmitDeploy, OnChainInv
<1>7. CASE SaveDeployed \/ CheckDeployed
  <2>1. vault.exists /\ UNCHANGED <<vault, bootstrap, deploy, funded>>
    BY <1>7 DEF SaveDeployed, CheckDeployed, OnChainInv
  <2>2. run'.stage \in {"created", "staged", "idle"}
    BY <1>1, <1>7, EnteredStage, EndedRun DEF SaveDeployed, CheckDeployed
  <2> QED BY <2>1, <2>2 DEF OnChainInv
<1> QED
  BY <1>2, <1>3, <1>4, <1>5, <1>6, <1>7 DEF Create

LEMMA CommandKeepsOnChain ==
  ASSUME SmoothCreation, IInv, OnChainInv, Command \/ Fail
  PROVE  OnChainInv'
<1>1. run \in RunType /\ disk \in ConfigType /\ notes \in Seq(NoteType)
  BY DEF IInv, TypeOK
<1> USE DEF Stages, Pending, Finalizing
<1>2. CASE Launch
  <2>1. /\ run' = [Idle EXCEPT !.stage = "launched", !.pending = disk.pending,
                               !.policy = disk.policy]
        /\ run.stage = "idle"
        /\ UNCHANGED <<vault, bootstrap, deploy, funded, disk>>
    BY <1>2 DEF Launch
  <2>2. run'.stage = "launched" /\ run'.pending = disk.pending
    BY <2>1 DEF Idle
  <2> QED BY <2>1, <2>2 DEF OnChainInv
<1>3. CASE ResumePending
  <2>1. run.stage = "launched" /\ run'.stage = "staged" /\ run.pending
    BY <1>1, <1>3, EnteredStage DEF ResumePending, PendingVault
  <2>2. vault.exists
    BY <2>1 DEF OnChainInv
  <2>3. UNCHANGED <<vault, bootstrap, deploy, funded, disk>>
    BY <1>3 DEF ResumePending
  <2>4. bootstrap = "none" => funded'
    BY <2>3 DEF OnChainInv
  <2> QED BY <2>1, <2>2, <2>3, <2>4, StageKeepsOnChain
<1>4. CASE Create
  BY <1>4, CreateKeepsOnChain
<1>5. CASE RefuseUnfunded
  <2>1. /\ run.stage \in {"saved", "staged", "activating"} /\ ~funded
        /\ UNCHANGED <<vault, bootstrap, deploy, funded, disk>>
    BY <1>5 DEF RefuseUnfunded, Sufficient
  <2>2. run'.stage = "idle"
    BY <1>5, EndedRun DEF RefuseUnfunded
  <2>3. vault.exists
    BY <2>1 DEF OnChainInv
  <2>4. bootstrap = "none" => funded'
    BY <2>1 DEF OnChainInv
  <2> QED BY <2>1, <2>2, <2>3, <2>4, StageKeepsOnChain
<1>6. CASE Fail
  <2>1. run.stage \notin Pending
        /\ UNCHANGED <<vault, bootstrap, deploy, funded, disk>>
    BY <1>6 DEF Fail, SmoothCreation
  <2>2. run'.stage = "idle"
    BY <1>6, EndedRun DEF Fail
  <2>3. bootstrap = "none" => funded'
    BY <2>1 DEF OnChainInv
  <2> QED BY <2>1, <2>2, <2>3, StageKeepsOnChain
<1>7. CASE Record
  <2>1. vault.exists /\ UNCHANGED <<vault, bootstrap, deploy, funded>>
    BY <1>7 DEF Record, Verified
  <2>2. run'.stage = "idle"
    BY <1>7, EndedRun DEF Record
  <2> QED BY <2>1, <2>2 DEF OnChainInv
<1>8. CASE \/ FindActivated \/ FindCleaned \/ RefuseStaged
           \/ CheckCleaned \/ RefuseActivation
           \/ CheckActivated \/ NoteLost \/ RefuseUnverified
  <2>1. /\ run.stage \in Finalizing
        /\ UNCHANGED <<vault, bootstrap, deploy, funded, disk>>
    BY <1>8 DEF FindActivated, FindCleaned, RefuseStaged,
      CheckCleaned, RefuseActivation, CheckActivated, NoteLost,
      RefuseUnverified
  <2>2. \/ \E stage \in {"activating", "verifying"} : Enter(stage)
        \/ \E verdict \in {"failed", "changed"} : Exit(verdict)
    BY <1>8 DEF FindActivated, FindCleaned, RefuseStaged,
      CheckCleaned, RefuseActivation, CheckActivated, NoteLost,
      RefuseUnverified
  <2>3. run'.stage \in Finalizing \cup {"idle"}
    BY <1>1, <2>2, EnteredStage, EndedRun
  <2>4. vault.exists /\ (bootstrap = "none" => funded')
    BY <2>1 DEF OnChainInv
  <2> QED BY <2>1, <2>3, <2>4, StageKeepsOnChain
<1>9. CASE SubmitCleanup \/ SubmitActivation
  <2>1. PICK kind \in {"config", "activate"},
             stage \in {"cleaning", "freezing"} :
          Submit(kind, stage) /\ run.stage \in Finalizing
    BY <1>9 DEF SubmitCleanup, SubmitActivation
  <2>2. run'.stage = stage
    BY <1>1, <2>1, SubmittedNote
  <2>3. UNCHANGED <<vault, bootstrap, deploy, disk>> /\ vault.exists
    BY <2>1 DEF Submit, OnChainInv
  <2>4. bootstrap # "none"
    BY <2>3 DEF OnChainInv
  <2> QED BY <2>1, <2>2, <2>3, <2>4, StageKeepsOnChain
<1> QED
  BY <1>2, <1>3, <1>4, <1>5, <1>6, <1>7, <1>8, <1>9
  DEF Command, Finalize

(* "Fund the Owner wallet and retry" is sound advice only if nothing has   *)
(* gone wrong before: then what a run proceeds to finalize is deployed.    *)
THEOREM RetryDeploysAfterSmoothCreation ==
  ASSUME SmoothCreation
  PROVE  Spec => []RetryDeploys
<1>1. Init => OnChainInv
  BY DEF Init, Idle, OnChainInv, SmoothCreation, Finalizing, Pending
<1>2. IInv /\ OnChainInv /\ [Next]_vars => OnChainInv'
  <2> SUFFICES ASSUME IInv, OnChainInv, [Next]_vars PROVE OnChainInv'
    OBVIOUS
  <2>1. CASE Reconfigure
    BY <2>1, ConfiguredFile DEF OnChainInv
  <2>2. CASE UNCHANGED vars
    BY <2>2 DEF vars, OnChainInv
  <2> QED
    BY <2>1, <2>2, ChainKeepsOnChain, CommandKeepsOnChain DEF Next
<1>3. OnChainInv => RetryDeploys
  BY DEF OnChainInv, RetryDeploys, Finalizing
<1> QED BY <1>1, <1>2, <1>3, InvariantHolds, PTL DEF Spec

(* With the timeout the check after the cleanup expects, a vault reported  *)
(* as changed was changed by somebody.                                     *)
THEOREM ChangedMeansChangedAtTen ==
  ASSUME Timeout = 10
  PROVE  Spec => []ChangedMeansChanged
<1>1. Init => ChangedMeansChanged
  BY DEF Init, Idle, ChangedMeansChanged
<1>2. IInv /\ ChangedMeansChanged /\ [Next]_vars => ChangedMeansChanged'
  <2> SUFFICES ASSUME IInv, ChangedMeansChanged, [Next]_vars
               PROVE  ChangedMeansChanged'
    OBVIOUS
  <2>1. run \in RunType /\ vault \in VaultType
    BY DEF IInv, TypeOK
  <2>2. CASE UNCHANGED run
    <3>1. vault.beat => vault'.beat
      BY <2>1, <2>2 DEF VaultType, Next, Chain, CommitBootstrap, CommitDeploy,
        CommitNote, DropBootstrap, DropDeploy, LoseNote, ExecuteNote,
        RejectNote, UseVault, FundOwner, Command, Create, Finalize, Launch,
        ResumePending, AddAccount, Add, SaveProgress, PrepareBootstrap,
        RefuseUnfunded, SubmitBootstrap, SubmitDeploy, TransactionLost,
        SaveDeployed, CheckDeployed,
        FindActivated, FindCleaned, RefuseStaged, Submit, SubmitCleanup,
        CheckCleaned, SubmitActivation, RefuseActivation, CheckActivated,
        NoteLost, Record, RefuseUnverified, Fail, Reconfigure, Configure, vars
    <3> QED BY <2>2, <3>1 DEF ChangedMeansChanged
  <2>3. CASE Launch
    BY <2>3 DEF Launch, Idle, ChangedMeansChanged
  <2>4. CASE CheckCleaned
    <3>1. UNCHANGED vault
      BY <2>4 DEF CheckCleaned
    <3>2. /\ Exit("failed") \/ Enter("activating")
             \/ (vault.beat /\ Exit("changed"))
      BY <2>4 DEF CheckCleaned
    <3>3. run'.verdict = "failed" \/ run'.verdict = run.verdict \/ vault.beat
      BY <2>1, <3>2 DEF Exit, Enter, Idle, RunType
    <3> QED BY <3>1, <3>3 DEF ChangedMeansChanged
  <2>5. ASSUME UNCHANGED vault,
               \/ \E stage \in Stages : Enter(stage)
               \/ \E stage \in Stages, n \in Nat : Await(stage, n)
               \/ \E v \in {"failed", "insufficient", "deployed"} : Exit(v)
        PROVE  ChangedMeansChanged'
    <3>1. \/ run'.verdict = run.verdict
          \/ run'.verdict \in {"failed", "insufficient", "deployed"}
      BY <2>1, <2>5 DEF Enter, Await, Exit, Idle, RunType
    <3> QED BY <2>5, <3>1 DEF ChangedMeansChanged
  <2>6. CASE AddAccount
    <3>1. /\ vault' = vault
          /\ run' = [run EXCEPT !.stage = "added", !.pending = TRUE]
               \/ Exit("failed")
      BY <2>6 DEF AddAccount, Add
    <3>2. run'.verdict = run.verdict \/ run'.verdict = "failed"
      BY <2>1, <3>1 DEF Exit, Idle, RunType
    <3> QED BY <3>1, <3>2 DEF ChangedMeansChanged
  <2>7. CASE \/ ResumePending \/ SaveProgress \/ PrepareBootstrap
             \/ RefuseUnfunded \/ SubmitBootstrap \/ SubmitDeploy
             \/ TransactionLost \/ SaveDeployed \/ CheckDeployed
             \/ FindActivated \/ FindCleaned \/ RefuseStaged
             \/ RefuseActivation \/ CheckActivated \/ NoteLost
             \/ Record \/ RefuseUnverified \/ Fail
    <3>1. SaveProgress => \E stage \in Stages : Enter(stage)
      BY DEF SaveProgress, SavedStage, Stages
    <3>2. SaveProgress => UNCHANGED vault
      BY DEF SaveProgress
    <3> QED
      BY <2>5, <2>7, <3>1, <3>2 DEF Stages, ResumePending,
        PrepareBootstrap, RefuseUnfunded, SubmitBootstrap, SubmitDeploy,
        TransactionLost, SaveDeployed, CheckDeployed, FindActivated,
        FindCleaned, RefuseStaged, RefuseActivation, CheckActivated,
        NoteLost, Record, RefuseUnverified, Fail
  <2>8. CASE SubmitCleanup \/ SubmitActivation
    <3>1. NewNote \in Nat
      BY DEF IInv, TypeOK, NewNote
    <3> QED
      BY <2>5, <2>8, <3>1 DEF SubmitCleanup, SubmitActivation, Submit, Stages
  <2>9. CASE Chain \/ Reconfigure \/ UNCHANGED vars
    <3>1. UNCHANGED run
      BY <2>9, ChainKeepsFile, ConfiguredFile DEF vars
    <3> QED BY <2>2, <3>1
  <2> QED
    BY <2>3, <2>4, <2>6, <2>7, <2>8, <2>9 DEF Next, Command, Create, Finalize
<1> QED BY <1>1, <1>2, InvariantHolds, PTL DEF Spec
=============================================================================
