---------------------------- MODULE FeatureCommand ----------------------------
(***************************************************************************)
(* The lifecycle CLI's deposit, heartbeat and claim commands.              *)
(*                                                                         *)
(* A command checks the vault, publishes a feature note with its fee       *)
(* sponsorship, waits until the network has executed the note, checks what *)
(* it did and writes the outcome to the durable configuration file.  In    *)
(* between, the chain produces blocks, others deposit, the builder that    *)
(* executes network notes takes its time or gives up, and the process may  *)
(* die.  Every await of the code is a point where that can happen.         *)
(*                                                                         *)
(* As in HeirbeatVault, an operator placed right before one it could be    *)
(* mistaken for is a fault that no action uses.                            *)
(***************************************************************************)
EXTENDS Integers, Sequences, FiniteSets, FiniteSetsExt

CONSTANTS
  Sessions,      \* CLI processes that share one configuration file
  Timeout,       \* timeout_blocks of the vault
  Amounts,       \* what a deposit command may carry
  OtherAmounts,  \* what a stranger's deposit may carry
  SlowFunding,   \* may 15 sync attempts end before the funding is decided
  CrashPoints,   \* where a process may die
  MaxBlock,      \* bound of the chain explored
  MaxNotes       \* bound of the feature notes published

ASSUME VaultAssumption == Timeout \in Nat \ {0}
ASSUME AmountsAssumption ==
  Amounts \subseteq Nat \ {0} /\ OtherAmounts \subseteq Nat \ {0}
ASSUME EnvironmentAssumption == SlowFunding \in BOOLEAN
ASSUME BoundAssumption == MaxBlock \in Nat /\ MaxNotes \in Nat

VARIABLES
  block,    \* number of the latest block
  vault,    \* committed state of the vault
  notes,    \* feature notes published by the commands, by number
  history,  \* vault transactions on chain
  disk,     \* the configuration file
  cli       \* the process of each session

chain == <<block, vault, notes, history>>
vars == <<block, vault, notes, history, disk, cli>>

Kinds == {"deposit", "heartbeat", "claim"}

VaultType == [last : Nat, balance : Nat, claimed : BOOLEAN]

(* A note is submitted with its funding transaction, which commits or is   *)
(* dropped; a committed note is discovered by the builder, which executes  *)
(* it or gives it up.                                                      *)
Statuses == {"submitted", "dropped", "committed", "discovered",
             "executed", "discarded"}

FeatureNoteType ==
  [kind : Kinds, amount : Nat, status : Statuses, block : Nat]

(* A transaction of the vault, the note it consumed (0 for a stranger's)   *)
(* and what it paid to the beneficiary.                                    *)
VaultTxType == [block : Nat, note : Nat, payout : Nat]

(* The part of the file the commands decide by: the note recorded under    *)
(* {kind}_pending_feature_note, and the recorded payout.  0 is absent.     *)
ConfigType == [pending : [Kinds -> Nat], payout : Nat]

Stages == {"idle", "launched", "checked", "funding", "waiting", "polling",
           "executed", "payout"}

(* Where a process is, its command, its copy of the configuration, the     *)
(* vault it saw before submitting, its note, the header it polls with, the *)
(* block it attributes the execution to, and how the last command ended.   *)
SessionType ==
  [stage : Stages, kind : Kinds, amount : Nat, config : ConfigType,
   before : VaultType, note : Nat, header : Nat, from : Nat,
   verdict : {"none", "refused", "pending", "undecided", "gave_up",
              "wrong_amount", "wrong", "no_payout", "crashed", "success"}]

TypeOK ==
  /\ block \in 0..MaxBlock
  /\ vault \in VaultType
  /\ notes \in Seq(FeatureNoteType)
  /\ history \subseteq VaultTxType
  /\ disk \in ConfigType
  /\ cli \in [Sessions -> SessionType]

EmptyConfig == [pending |-> [k \in Kinds |-> 0], payout |-> 0]
FreshVault == [last |-> 0, balance |-> 0, claimed |-> FALSE]

Idle ==
  [stage |-> "idle", kind |-> "deposit", amount |-> 0,
   config |-> EmptyConfig, before |-> FreshVault, note |-> 0, header |-> 0,
   from |-> 0, verdict |-> "none"]

(* The vault has been activated and verified.                              *)
Init ==
  /\ block = 0
  /\ vault = FreshVault
  /\ notes = <<>>
  /\ history = {}
  /\ disk = EmptyConfig
  /\ cli = [s \in Sessions |-> Idle]

-----------------------------------------------------------------------------
(* The chain, as far as the commands can see it.                           *)

Published == 1..Len(notes)

MarkNote(n, status) == notes' = [notes EXCEPT ![n].status = status]

(* A block that carries one transaction of the vault.                      *)
NewVaultBlock(n, payout) ==
  /\ block < MaxBlock
  /\ block' = block + 1
  /\ history' = history \union
       {[block |-> block + 1, note |-> n, payout |-> payout]}

(* The sender's transaction that creates the note commits or is dropped.   *)
CommitFunding(n) ==
  /\ notes[n].status = "submitted"
  /\ block < MaxBlock
  /\ block' = block + 1
  /\ notes' = [notes EXCEPT ![n].status = "committed", ![n].block = block + 1]
  /\ UNCHANGED <<vault, history, disk, cli>>

DropFunding(n) ==
  /\ notes[n].status = "submitted"
  /\ MarkNote(n, "dropped")
  /\ UNCHANGED <<block, vault, history, disk, cli>>

(* The builder finds the note, and may give it up at any time.             *)
Discover(n) ==
  /\ notes[n].status = "committed"
  /\ MarkNote(n, "discovered")
  /\ UNCHANGED <<block, vault, history, disk, cli>>

Discard(n) ==
  /\ notes[n].status = "discovered"
  /\ MarkNote(n, "discarded")
  /\ UNCHANGED <<block, vault, history, disk, cli>>

(* The vault's procedures, see HeirbeatVault for their full guards.        *)
Debited(amount) == [vault EXCEPT !.balance = @ - amount]
Credited(amount) == [vault EXCEPT !.balance = @ + amount]

Effect(n, ref) ==
  CASE notes[n].kind = "deposit" -> Credited(notes[n].amount)
    [] notes[n].kind = "heartbeat" -> [vault EXCEPT !.last = ref]
    [] notes[n].kind = "claim" ->
         [vault EXCEPT !.claimed = TRUE, !.balance = 0]

Executable(n, ref) ==
  /\ ~vault.claimed
  /\ notes[n].kind = "heartbeat" => ref >= vault.last
  /\ notes[n].kind = "claim" => /\ ref >= vault.last + Timeout
                                /\ vault.balance > 0

ExecuteNote(n) ==
  /\ notes[n].status = "discovered"
  /\ \E ref \in notes[n].block..block :
       Executable(n, ref) /\ vault' = Effect(n, ref)
  /\ NewVaultBlock(n, IF notes[n].kind = "claim" THEN vault.balance ELSE 0)
  /\ MarkNote(n, "executed")
  /\ UNCHANGED <<disk, cli>>

(* Anyone may deposit without this CLI.                                    *)
OtherDeposit(amount) ==
  /\ ~vault.claimed
  /\ vault' = Credited(amount)
  /\ NewVaultBlock(0, 0)
  /\ UNCHANGED <<notes, disk, cli>>

(* A block without a transaction of interest.                              *)
EmptyBlock ==
  /\ block < MaxBlock
  /\ block' = block + 1
  /\ UNCHANGED <<vault, notes, history, disk, cli>>

Chain ==
  \/ EmptyBlock
  \/ \E amount \in OtherAmounts : OtherDeposit(amount)
  \/ \E n \in Published :
       CommitFunding(n) \/ DropFunding(n) \/ Discover(n) \/ Discard(n)
       \/ ExecuteNote(n)

-----------------------------------------------------------------------------
(* A command.                                                              *)

(* The session moves on; whatever it knew stays known.                     *)
Continue(s, stage) == cli' = [cli EXCEPT ![s].stage = stage]

(* The process ends; all that stays is what it said of which note.         *)
Report(s, verdict, note) ==
  cli' = [cli EXCEPT ![s] = [Idle EXCEPT !.note = note, !.verdict = verdict]]

Exit(s, verdict) == Report(s, verdict, cli[s].note)

(* What a starting process reads.                                          *)
Unread == EmptyConfig
Loaded == disk

(* main: parses the command and reads the configuration file.              *)
Launch(s, kind, amount) ==
  /\ cli[s].stage = "idle"
  /\ (kind = "deposit") = (amount > 0)
  /\ cli' = [cli EXCEPT ![s] = [Idle EXCEPT !.stage = "launched",
                                            !.kind = kind,
                                            !.amount = amount,
                                            !.config = Loaded]]
  /\ UNCHANGED <<chain, disk>>

(* ensure_claim_eligible, with the deadline of derive_deadline.            *)
ClaimEligible == block >= vault.last + Timeout

(* Reads the vault and refuses what the contract would refuse now.         *)
Preflight(s) ==
  /\ cli[s].stage = "launched"
  /\ ~vault.claimed
  /\ cli[s].kind = "claim" => ClaimEligible /\ vault.balance > 0
  /\ cli' = [cli EXCEPT ![s].stage = "checked", ![s].before = vault]
  /\ UNCHANGED <<chain, disk>>

(* A check fails: one of Preflight, or one on the sender's keys, assets    *)
(* and fees, which are not modelled.  A dry run and a run without --yes    *)
(* end here as well.                                                       *)
Refuse(s) ==
  /\ cli[s].stage \in {"launched", "checked"}
  /\ Exit(s, "refused")
  /\ UNCHANGED <<chain, disk>>

(* A note of this kind is on record and not known to be finished.          *)
PendingNote(s) == cli[s].config.pending[cli[s].kind]

RefuseDuplicate(s) ==
  /\ cli[s].stage = "checked"
  /\ PendingNote(s) # 0
  /\ Report(s, "pending", PendingNote(s))
  /\ UNCHANGED <<chain, disk>>

(* Publishes the note with its sponsorship in one funding transaction.     *)
Submit(s) ==
  /\ cli[s].stage = "checked"
  /\ PendingNote(s) = 0
  /\ Len(notes) < MaxNotes
  /\ notes' = Append(notes, [kind |-> cli[s].kind, amount |-> cli[s].amount,
                             status |-> "submitted", block |-> 0])
  /\ cli' = [cli EXCEPT ![s].stage = "funding", ![s].note = Len(notes) + 1]
  /\ UNCHANGED <<block, vault, history, disk>>

(* committed_block: polls the funding transaction, 15 times at most.       *)
AnyFunding(n) == n \in Published
FundingCommitted(n) == notes[n].status \notin {"submitted", "dropped"}

(* Once it has committed, the whole file is rewritten with the note in it. *)
RecordPending(s) ==
  LET config == [cli[s].config EXCEPT !.pending[cli[s].kind] = cli[s].note]
  IN /\ cli[s].stage = "funding"
     /\ FundingCommitted(cli[s].note)
     /\ disk' = config
     /\ cli' = [cli EXCEPT ![s].stage = "waiting", ![s].config = config]
     /\ UNCHANGED chain

GiveUpFunding(s) ==
  /\ cli[s].stage = "funding"
  /\ \/ notes[cli[s].note].status = "dropped"
     \/ notes[cli[s].note].status = "submitted" /\ SlowFunding
  /\ Exit(s, "undecided")
  /\ UNCHANGED <<chain, disk>>

(* wait_for_network_execution: each poll takes the latest header first and *)
(* then asks for the status of the note.                                   *)
ReadHeader(s) ==
  /\ cli[s].stage = "waiting"
  /\ cli' = [cli EXCEPT ![s].stage = "polling", ![s].header = block]
  /\ UNCHANGED <<chain, disk>>

SeenByBuilder(n) == notes[n].status \in {"discovered", "executed"}
NullifierCommitted(n) == notes[n].status = "executed"

(* The last vault transaction from the funding block to the header read    *)
(* before is taken to have consumed the note; if there is none, the block  *)
(* the client has synced to by now.                                        *)
Attribute(s) ==
  LET n == cli[s].note
      found == {t.block : t \in {h \in history :
                  h.block >= notes[n].block /\ h.block <= cli[s].header}}
  IN /\ cli[s].stage = "polling"
     /\ NullifierCommitted(n)
     /\ cli' = [cli EXCEPT ![s].stage = "executed",
                  ![s].from = IF found = {} THEN block ELSE Max(found)]
     /\ UNCHANGED <<chain, disk>>

PollAgain(s) ==
  /\ cli[s].stage = "polling"
  /\ notes[cli[s].note].status \in {"committed", "discovered"}
  /\ Continue(s, "waiting")
  /\ UNCHANGED <<chain, disk>>

(* timeout_seconds have passed, whether or not the builder knows the note. *)
OnlyUndiscovered(n) == notes[n].status = "committed"
StillUnexecuted(n) == notes[n].status \in {"committed", "discovered"}

TimeOut(s) ==
  /\ cli[s].stage = "polling"
  /\ StillUnexecuted(cli[s].note)
  /\ Exit(s, "gave_up")
  /\ UNCHANGED <<chain, disk>>

NoteDiscarded(s) ==
  /\ cli[s].stage = "polling"
  /\ notes[cli[s].note].status = "discarded"
  /\ Exit(s, "gave_up")
  /\ UNCHANGED <<chain, disk>>

(* The vault as read after the execution against the one read before.      *)
AsExpected(s) ==
  LET before == cli[s].before IN
  CASE cli[s].kind = "deposit" ->
         vault = [before EXCEPT !.balance = @ + cli[s].amount]
    [] cli[s].kind = "heartbeat" ->
         /\ vault.last > before.last
         /\ vault.balance = before.balance /\ ~vault.claimed
    [] cli[s].kind = "claim" ->
         vault = [before EXCEPT !.claimed = TRUE, !.balance = 0]

(* The amount a deposit added is the first thing checked.                  *)
WrongAmount(s) ==
  /\ cli[s].kind = "deposit"
  /\ vault.balance # cli[s].before.balance + cli[s].amount

WrongResult(s) ==
  /\ cli[s].stage = "executed"
  /\ ~AsExpected(s)
  /\ Exit(s, IF WrongAmount(s) THEN "wrong_amount" ELSE "wrong")
  /\ UNCHANGED <<chain, disk>>

(* Success: the pending entry goes, and the whole file is rewritten.       *)
Finish(s, payout) ==
  /\ disk' = [pending |-> [cli[s].config.pending EXCEPT ![cli[s].kind] = 0],
              payout |-> payout]
  /\ Exit(s, "success")
  /\ UNCHANGED chain

Complete(s) ==
  /\ cli[s].stage = "executed"
  /\ cli[s].kind # "claim"
  /\ AsExpected(s)
  /\ Finish(s, cli[s].config.payout)

LookForPayout(s) ==
  /\ cli[s].stage = "executed"
  /\ cli[s].kind = "claim"
  /\ AsExpected(s)
  /\ Continue(s, "payout")
  /\ UNCHANGED <<chain, disk>>

(* find_vault_payout: a payout of the balance read before submitting, in a *)
(* transaction not older than the one the execution was attributed to.     *)
AnyLaterTransactions(s) ==
  {t \in history : t.block >= cli[s].from}
FoundPayouts(s) ==
  {t \in history : t.block >= cli[s].from
                   /\ t.payout > 0 /\ t.payout = cli[s].before.balance}

CompleteClaim(s) ==
  /\ cli[s].stage = "payout"
  /\ \E t \in FoundPayouts(s) : Finish(s, t.note)

PayoutMissing(s) ==
  /\ cli[s].stage = "payout"
  /\ FoundPayouts(s) = {}
  /\ Exit(s, "no_payout")
  /\ UNCHANGED <<chain, disk>>

(* The process dies.  The file is replaced by a rename, so it is never     *)
(* half written.                                                           *)
Crash(s) ==
  /\ cli[s].stage \in CrashPoints \ {"idle"}
  /\ Exit(s, "crashed")
  /\ UNCHANGED <<chain, disk>>

(* What the program itself does next, once started.                        *)
Step(s) ==
  \/ Preflight(s) \/ Refuse(s) \/ RefuseDuplicate(s) \/ Submit(s)
  \/ RecordPending(s) \/ GiveUpFunding(s)
  \/ ReadHeader(s) \/ Attribute(s) \/ PollAgain(s) \/ TimeOut(s)
  \/ NoteDiscarded(s) \/ WrongResult(s) \/ Complete(s) \/ LookForPayout(s)
  \/ CompleteClaim(s) \/ PayoutMissing(s)

Next ==
  \/ Chain
  \/ \E s \in Sessions :
       \/ Launch(s, "heartbeat", 0)
       \/ Launch(s, "claim", 0)
       \/ \E amount \in Amounts : Launch(s, "deposit", amount)
       \/ Step(s)
       \/ Crash(s)

Spec == Init /\ [][Next]_vars

(* A running process takes its next step, its clock advances past the      *)
(* deadline of a poll that recurs, and a funding transaction is committed  *)
(* or expires.  Nothing else is asked of the chain or of the builder.      *)
DecideFunding == \E n \in Published : CommitFunding(n) \/ DropFunding(n)

FairSpec ==
  /\ Spec /\ WF_vars(DecideFunding)
  /\ \A s \in Sessions : WF_vars(Step(s)) /\ SF_vars(TimeOut(s))

-----------------------------------------------------------------------------
(* Properties.                                                             *)

Open(n) == notes[n].status \in {"submitted", "committed", "discovered"}

(* Running a command again never puts a second note of its kind on chain   *)
(* while the first may still execute.                                      *)
OneOpenNotePerKind ==
  \A m, n \in Published :
    Open(m) /\ Open(n) /\ notes[m].kind = notes[n].kind => m = n

(* The file never names, under any order of crashes and of processes       *)
(* rewriting it, a pending note the chain does not have.                   *)
PendingIsOnChain ==
  \A k \in Kinds :
    LET n == disk.pending[k] IN
    n # 0 => /\ n \in Published /\ notes[n].kind = k
             /\ notes[n].status \notin {"submitted", "dropped"}

(* A command that reports success had its own note executed: it does not   *)
(* take someone else's deposit or heartbeat for it.                        *)
SuccessIsReal ==
  \A s \in Sessions :
    cli[s].verdict = "success" =>
      /\ notes[cli[s].note].status = "executed"
      /\ \E t \in history : t.note = cli[s].note
           /\ t.block > notes[cli[s].note].block

(* The payout on record is one the vault made, of everything it held.      *)
RecordedPayoutIsReal ==
  disk.payout # 0 =>
    /\ vault.claimed /\ vault.balance = 0
    /\ \E t \in history : t.note = disk.payout /\ t.payout > 0

(* Every command comes to an end, whatever the chain and the builder do.   *)
CommandsEnd ==
  \A s \in Sessions : cli[s].stage # "idle" ~> cli[s].stage = "idle"

(* "claim committed but no [...] payout matching the full pre-claim        *)
(* balance was found": then the vault has not paid what it held.           *)
MissingPayoutIsMissing ==
  \A s \in Sessions :
    cli[s].verdict = "no_payout" =>
      ~\E t \in history : t.note = cli[s].note /\ t.payout > 0
=============================================================================
