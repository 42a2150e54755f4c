---------------------------- MODULE HeirbeatVault ----------------------------
(***************************************************************************)
(* The Heirbeat vault: a public Miden network account that holds one       *)
(* fungible asset for a beneficiary and pays it out after the owner has    *)
(* been silent for Timeout blocks.                                         *)
(*                                                                         *)
(* The vault changes only through transactions.  A transaction is executed *)
(* off chain against a reference block: it consumes a sequence of notes,   *)
(* the script of each note calls one account procedure, and either every   *)
(* assertion holds and the whole result is applied to the chain, or the    *)
(* transaction is dropped and nothing changes.  Several executors (the NTX *)
(* builder and anyone who runs a transaction for a network account) may    *)
(* work on the account at the same time; the chain applies a result only   *)
(* if it was computed from the current account state.                      *)
(*                                                                         *)
(* An operator placed right before one it could be mistaken for, such as   *)
(* AnyState before UpToDate, is a plausible fault of the code: no action   *)
(* uses it, and putting it in the other's place must break a property.     *)
(***************************************************************************)
EXTENDS Integers, Sequences, FiniteSets, FiniteSetsExt

CONSTANTS
  Accounts,     \* accounts that send notes
  Owner,        \* storage slot owner
  Beneficiary,  \* storage slot beneficiary
  Timeout,      \* storage slot timeout_blocks, a u32
  U32Max,       \* the largest u32, bound of block numbers
  MaxHeight,    \* bound of the chain explored, at most U32Max
  Notes,        \* the notes that exist on chain, each with its own id
  MaxInputs,    \* bound of the notes one transaction consumes
  Executors,    \* those who execute transactions of the vault
  NoTx          \* an executor without a transaction

(* Note scripts the vault's allowlist can name.  The first four are this   *)
(* repository's contracts, the last three the standard library's.          *)
Roots == {"activate", "check_in", "claim", "deposit",
          "config", "sponsorship", "p2id"}

(* Allowlist of a vault right after deployment.                            *)
SetupRoots == Roots

(* Roots that only a vault in setup may accept.                            *)
SetupOnlyRoots == {"activate", "config", "p2id"}

(* A note: its script, the sender the kernel exposes, the amounts it holds *)
(* of the configured asset and of any other, whether the recipient in its  *)
(* storage is this vault, the allowlist change of a config note and the    *)
(* feature note a sponsorship pays for.  Assets in a note whose script     *)
(* does not move them fail the kernel's balance check, so only deposits    *)
(* and P2ID notes carry any.                                               *)
NoteType ==
  [id : Nat, script : Roots, sender : Accounts, amount : Nat, foreign : Nat,
   bound : BOOLEAN, adds : BOOLEAN, root : Roots, feature : Nat]

ASSUME PartiesAssumption == Owner \in Accounts /\ Beneficiary \in Accounts
ASSUME TimeAssumption ==
  /\ Timeout \in Nat /\ U32Max \in Nat /\ MaxHeight \in Nat
  /\ Timeout <= U32Max /\ MaxHeight <= U32Max
ASSUME NotesAssumption ==
  /\ Notes \subseteq NoteType
  /\ IsFiniteSet(Notes)
  /\ \A m, n \in Notes : m.id = n.id => m = n
  /\ \A n \in Notes : n.script \notin {"deposit", "p2id"} =>
                         n.amount = 0 /\ n.foreign = 0
ASSUME BoundsAssumption == MaxInputs \in Nat
VARIABLES
  height,   \* number of the latest block
  account,  \* committed state of the vault
  nonce,    \* version of the committed state
  spent,    \* notes whose nullifier is on chain
  payouts,  \* P2ID notes the vault created
  tx        \* the transaction each executor is working on

vars == <<height, account, nonce, spent, payouts, tx>>

AccountType ==
  [allowed : SUBSET Roots, activated : BOOLEAN, claimed : BOOLEAN,
   last : Nat, balance : Nat, foreign : Nat]

PayoutType == [serial : Nat, target : Accounts, amount : Nat]

TxType ==
  [base : Nat, ref : Nat, inputs : Seq(Notes), next : Nat \ {0},
   work : AccountType, out : SUBSET PayoutType]

TypeOK ==
  /\ height \in 0..MaxHeight
  /\ account \in AccountType
  /\ nonce \in Nat
  /\ spent \subseteq Notes
  /\ payouts \subseteq PayoutType
  /\ tx \in [Executors -> TxType \union {NoTx}]

Init ==
  /\ height = 0
  /\ account = [allowed |-> SetupRoots, activated |-> FALSE,
                claimed |-> FALSE, last |-> 0, balance |-> 0, foreign |-> 0]
  /\ nonce = 0
  /\ spent = {}
  /\ payouts = {}
  /\ tx = [e \in Executors |-> NoTx]

-----------------------------------------------------------------------------
(* The kernel around the vault's procedures.                               *)

Elements(s) == {s[i] : i \in DOMAIN s}

(* Sequences of at most MaxInputs different notes.                         *)
InputLists(S) ==
  {s \in UNION {[1..k -> S] : k \in 1..MaxInputs} :
     \A i, j \in DOMAIN s : s[i] = s[j] => i = j}

(* The chain produces a block.                                             *)
AdvanceBlock ==
  /\ height < MaxHeight
  /\ height' = height + 1
  /\ UNCHANGED <<account, nonce, spent, payouts, tx>>

(* An executor starts a transaction on the current state with a reference  *)
(* block it already knows, possibly an old one.  AuthNetworkAccount checks *)
(* the scripts of all inputs against the allowlist of the initial state.   *)
BeginTransaction(e, inputs, ref) ==
  /\ tx[e] = NoTx
  /\ \A n \in Elements(inputs) : n.script \in account.allowed
  /\ tx' = [tx EXCEPT ![e] =
              [base |-> nonce, ref |-> ref, inputs |-> inputs, next |-> 1,
               work |-> account, out |-> {}]]
  /\ UNCHANGED <<height, account, nonce, spent, payouts>>

Begin(e) ==
  \E inputs \in InputLists(Notes \ spent), ref \in 0..height :
    BeginTransaction(e, inputs, ref)

(* The executor's transaction is at a note with script root.               *)
At(e, root) ==
  /\ tx[e] # NoTx
  /\ tx[e].next <= Len(tx[e].inputs)
  /\ tx[e].inputs[tx[e].next].script = root

ActiveNote(e) == tx[e].inputs[tx[e].next]

(* Transaction t after the active note's script ended without a failed     *)
(* assertion, leaving work and having created the output notes out.        *)
Finished(t, work, out) ==
  [base |-> t.base, ref |-> t.ref, inputs |-> t.inputs, next |-> t.next + 1,
   work |-> work, out |-> t.out \union out]

FinishNote(e, work, out) ==
  /\ tx' = [tx EXCEPT ![e] = Finished(tx[e], work, out)]
  /\ UNCHANGED <<height, account, nonce, spent, payouts>>

(* The account is still the one the transaction started from.              *)
AnyState(e) == tx[e] # NoTx
UpToDate(e) == tx[e].base = nonce

(* All notes ran: the chain applies an up-to-date result as a whole and    *)
(* publishes the nullifiers of the notes.                                  *)
CommitTransaction(e) ==
  /\ tx[e] # NoTx
  /\ tx[e].next > Len(tx[e].inputs)
  /\ UpToDate(e)
  /\ account' = tx[e].work
  /\ nonce' = nonce + 1
  /\ spent' = spent \union Elements(tx[e].inputs)
  /\ payouts' = payouts \union tx[e].out
  /\ tx' = [tx EXCEPT ![e] = NoTx]
  /\ UNCHANGED height

(* A failed assertion, a lost race for the account or a lost executor: the *)
(* transaction leaves no trace and its notes stay consumable.              *)
AbortKeepsStorage(e) ==
  /\ tx[e] # NoTx
  /\ account' = [tx[e].work EXCEPT !.balance = account.balance]
  /\ tx' = [tx EXCEPT ![e] = NoTx]
  /\ UNCHANGED <<height, nonce, spent, payouts>>

AbortTransaction(e) ==
  /\ tx[e] # NoTx
  /\ tx' = [tx EXCEPT ![e] = NoTx]
  /\ UNCHANGED <<height, account, nonce, spent, payouts>>

-----------------------------------------------------------------------------
(* The assertions the procedures share.                                    *)

SentByAnyone(e, party) == ActiveNote(e).sender \in Accounts
SentBy(e, party) == ActiveNote(e).sender = party

(* The recipient in the note's storage is this vault.                      *)
ForThisVault(e) == ActiveNote(e).bound

(* The feature procedures work between activation and claim.               *)
OpenForever(work) == work.activated
Open(work) == work.activated /\ ~work.claimed

(* The reference block is not older than the recorded heartbeat.           *)
AnyReference(e) == tx[e].ref \in Nat
NotStale(e) == tx[e].ref >= tx[e].work.last

(* First block at which the beneficiary may claim, widened to u64.         *)
WrappedDeadline(last) == (last + Timeout) % (U32Max + 1)
Deadline(last) == last + Timeout

PastDeadline(ref, last) == ref > Deadline(last)
Eligible(ref, last) ==
  /\ last <= U32Max /\ Timeout <= U32Max
  /\ ref >= Deadline(last)

(* A deposit holds the configured asset and nothing else.                  *)
AnyAsset(note) == note.amount + note.foreign > 0
OnlyConfiguredAsset(note) == note.amount > 0 /\ note.foreign = 0

(* The note's assets enter the vault.                                      *)
Debit(work, note) == [work EXCEPT !.balance = @ - note.amount]
Credit(work, note) ==
  [work EXCEPT !.balance = @ + note.amount, !.foreign = @ + note.foreign]

(* claim's terminal flag and the removal of the whole balance.             *)
DrainOnly(work) == [work EXCEPT !.balance = 0]
Close(work) == [work EXCEPT !.claimed = TRUE, !.balance = 0]

(* Activation runs alone or with one fee sponsorship.                      *)
ActivatedOnce(inputs) ==
  Cardinality({i \in DOMAIN inputs : inputs[i].script = "activate"}) = 1

IsolatedActivation(inputs) ==
  /\ Len(inputs) \in {1, 2}
  /\ \A n \in Elements(inputs) : n.script \in {"activate", "sponsorship"}
  /\ ActivatedOnce(inputs)

(* The roots activation clears from the allowlist.                         *)
OwnRoot == {"activate"}
ClearedRoots == {"activate", "config"}

-----------------------------------------------------------------------------
(* The vault's procedures, one per note script.                            *)

(* activate: the owner ends setup.  Clearing the config and activation     *)
(* roots freezes the allowlist for every later transaction.                *)
Activate(e) ==
  LET work == tx[e].work IN
  /\ At(e, "activate")
  /\ ~work.activated /\ ~work.claimed
  /\ SentBy(e, Owner)
  /\ IsolatedActivation(tx[e].inputs)
  /\ {"config", "activate"} \subseteq work.allowed
  /\ "p2id" \notin work.allowed
  /\ FinishNote(e, [work EXCEPT !.allowed = @ \ ClearedRoots,
                                !.activated = TRUE], {})

(* check_in: the owner's heartbeat records the reference block.            *)
CheckIn(e) ==
  /\ At(e, "check_in")
  /\ Open(tx[e].work)
  /\ SentBy(e, Owner)
  /\ NotStale(e)
  /\ FinishNote(e, [tx[e].work EXCEPT !.last = tx[e].ref], {})

(* claim: the beneficiary receives the whole balance in one P2ID note      *)
(* whose serial number is the claim note's.                                *)
Claim(e) ==
  LET work == tx[e].work IN
  /\ At(e, "claim")
  /\ Open(work)
  /\ SentBy(e, Beneficiary)
  /\ Eligible(tx[e].ref, work.last)
  /\ work.balance > 0
  /\ FinishNote(e, Close(work),
       {[serial |-> ActiveNote(e).id, target |-> Beneficiary,
         amount |-> work.balance]})

(* deposit: a note bound to this vault brings the configured asset.        *)
Deposit(e) ==
  /\ At(e, "deposit")
  /\ ForThisVault(e)
  /\ Open(tx[e].work)
  /\ OnlyConfiguredAsset(ActiveNote(e))
  /\ FinishNote(e, Credit(tx[e].work, ActiveNote(e)), {})

(* NetworkAccountConfigNote: the owner adds or removes an allowed script.  *)
Configure(e) ==
  LET note == ActiveNote(e) IN
  /\ At(e, "config")
  /\ SentBy(e, Owner)
  /\ FinishNote(e, [tx[e].work EXCEPT !.allowed =
                      IF note.adds THEN @ \union {note.root}
                                   ELSE @ \ {note.root}], {})

(* FeeSponsorshipNote: pays the fee of a feature note consumed with it and *)
(* touches neither the vault's storage nor the configured asset.           *)
Sponsor(e) ==
  /\ At(e, "sponsorship")
  /\ ForThisVault(e)
  /\ \E n \in Elements(tx[e].inputs) : n.id = ActiveNote(e).feature
  /\ FinishNote(e, tx[e].work, {})

(* P2ID, in setup only: the basic wallet component takes any asset.        *)
Receive(e) ==
  /\ At(e, "p2id")
  /\ ForThisVault(e)
  /\ FinishNote(e, Credit(tx[e].work, ActiveNote(e)), {})

Execute(e) ==
  \/ Activate(e) \/ CheckIn(e) \/ Claim(e) \/ Deposit(e)
  \/ Configure(e) \/ Sponsor(e) \/ Receive(e)

-----------------------------------------------------------------------------
Next ==
  \/ AdvanceBlock
  \/ \E e \in Executors :
       \/ Begin(e)
       \/ Execute(e)
       \/ CommitTransaction(e)
       \/ AbortTransaction(e)

Spec == Init /\ [][Next]_vars

(* The NTX builder keeps offering every claim to the vault at the newest   *)
(* block, follows through and gives up on what cannot finish: the          *)
(* operating assumption of the repository's threat model, without which no *)
(* note need ever execute.  Nothing is assumed of the other notes.         *)
Offers(e, n) == n \notin spent /\ BeginTransaction(e, <<n>>, height)

WorksOn(e, n) == tx[e] # NoTx /\ tx[e].inputs = <<n>>

Fairness(e) ==
  /\ WF_vars(AbortTransaction(e))
  /\ \A n \in {m \in Notes : m.script = "claim"} :
       /\ SF_vars(Offers(e, n))
       /\ SF_vars(WorksOn(e, n) /\ Execute(e))
       /\ SF_vars(WorksOn(e, n) /\ CommitTransaction(e))

Fair == WF_vars(AdvanceBlock) /\ \E e \in Executors : Fairness(e)

FairSpec == Spec /\ Fair

-----------------------------------------------------------------------------
(* Properties.                                                             *)

(* Once activate has run, no transaction can bring back the roots that     *)
(* reconfigure the vault or hand it assets outside deposit, not even one   *)
(* whose inputs were authorised against the allowlist before activation.   *)
SurfaceFrozen ==
  account.activated => account.allowed \cap SetupOnlyRoots = {}

(* Activation is one way and the policy it froze never changes again.      *)
PolicyNeverChanges ==
  [][account.activated =>
       account'.activated /\ account'.allowed = account.allowed]_vars

(* Amounts of the configured asset in all notes the vault consumed.        *)
Received == MapThenSumSet(LAMBDA n : n.amount, spent)

(* Every unit a consumed note brought is still in the vault until claim,   *)
(* and in the single payout to the beneficiary after it: transactions that *)
(* abort, race or claim move all of it or none.                            *)
CustodyConserved ==
  IF account.claimed
  THEN /\ account.balance = 0
       /\ Cardinality(payouts) = 1
       /\ \A p \in payouts : p.target = Beneficiary /\ p.amount = Received
  ELSE payouts = {} /\ account.balance = Received

(* claim sets the flag and creates the payout together, at most once, and  *)
(* leaves no balance behind it.                                            *)
PayoutOnce ==
  /\ account.claimed <=> payouts # {}
  /\ \A p, q \in payouts : p = q
  /\ \A p \in payouts : p.target = Beneficiary /\ p.amount > 0
  /\ account.claimed => account.balance = 0

(* A claimed vault is closed: no heartbeat, deposit, configuration or      *)
(* second claim changes it, whatever is still in flight when claim lands.  *)
ClaimedIsTerminal ==
  [][account.claimed => account' = account /\ payouts' = payouts]_vars

(* The vault pays only when Timeout blocks have passed since the last      *)
(* heartbeat it recorded, heartbeats in the same transaction included.     *)
ClaimOnlyAfterSilence ==
  [][~account.claimed /\ account'.claimed =>
       account'.last + Timeout <= height]_vars

(* A heartbeat executed against an old reference block, or applied after a *)
(* newer one, never moves the recorded heartbeat backwards.                *)
HeartbeatNeverRewinds == [][account'.last >= account.last]_vars

(* The step consumes a note of the given script and sender.                *)
Consumes(root, sender) ==
  \E n \in spent' \ spent : n.script = root /\ n.sender = sender

(* A committed change was asked for by a note of the party entitled to it, *)
(* consumed by that very transaction.                                      *)
ChangesAreAuthorised ==
  [][/\ account'.last # account.last => Consumes("check_in", Owner)
     /\ account'.claimed # account.claimed => Consumes("claim", Beneficiary)
     /\ account'.allowed # account.allowed =>
          Consumes("config", Owner) \/ Consumes("activate", Owner)
     /\ account'.balance > account.balance =>
          \E n \in spent' \ spent :
            n.bound /\ n.script \in {"deposit", "p2id"}]_vars

(* Assets other than the configured one cannot enter an active vault,      *)
(* where nothing could ever move them out.                                 *)
NoForeignAssetLocked ==
  [][account.activated =>
       /\ account'.foreign = account.foreign
       /\ \A n \in spent' \ spent : n.foreign = 0]_vars

(* The vault keeps the promise stated in InheritanceContract: its storage  *)
(* flags are the phase, its balance the pot, its payout notes what was     *)
(* paid.  Nothing a transaction computes before it commits can be seen.    *)
Phase ==
  CASE account.claimed                        -> "closed"
    [] account.activated /\ ~account.claimed  -> "active"
    [] ~account.activated /\ ~account.claimed -> "setup"

(* What the payout notes carry; there is at most one.                      *)
Paid == IF payouts = {} THEN 0 ELSE (CHOOSE p \in payouts : TRUE).amount

Contract == INSTANCE InheritanceContract WITH
  clock <- height, phase <- Phase, lastBeat <- account.last,
  pot <- account.balance, paid <- Paid

KeepsContract == Contract!Spec

(* A note of the beneficiary that could claim does not stay unexecuted     *)
(* while the vault is claimable.                                           *)
Claimable(n) ==
  /\ n.script = "claim" /\ n.sender = Beneficiary /\ n \notin spent
  /\ account.activated /\ ~account.claimed /\ account.balance > 0
  /\ "claim" \in account.allowed
  /\ height >= Deadline(account.last)

EventuallyPaid == \A n \in Notes : ~<>[]Claimable(n)
=============================================================================
