-------------------- MODULE HeirbeatVaultAuthority_proofs --------------------
(***************************************************************************)
(* Who may change the vault, what may enter it and that all of it is       *)
(* accounted for, for any notes and any executors.                         *)
(*                                                                         *)
(* A commit writes what a transaction computed while the account may have  *)
(* been another.  So the argument is made about the transactions in        *)
(* flight: as long as one still starts from the committed account, each    *)
(* difference of its working copy is justified by one of its own inputs,   *)
(* none of which has been consumed before, and the copy with its payouts   *)
(* holds exactly what those inputs and the notes consumed brought.         *)
(***************************************************************************)
EXTENDS HeirbeatVault_proofs, WellFoundedInduction

(* Some input of t has the script and the sender.                          *)
Holds(t, root, party) ==
  \E n \in Elements(t.inputs) : n.script = root /\ n.sender = party

Justified(t, a) ==
  /\ t.work.last # a.last => Holds(t, "check_in", Owner)
  /\ t.work.claimed # a.claimed => Holds(t, "claim", Beneficiary)
  /\ t.work.allowed # a.allowed =>
       Holds(t, "config", Owner) \/ Holds(t, "activate", Owner)
  /\ t.work.balance > a.balance =>
       \E n \in Elements(t.inputs) : n.bound /\ n.script \in {"deposit", "p2id"}
  /\ t.work.foreign # a.foreign => "p2id" \in Scripts(t.inputs)

(* Only a P2ID note that has run brought another asset.                    *)
NothingForeign(t) ==
  \A k \in DOMAIN t.inputs :
    k < t.next => t.inputs[k].foreign = 0 \/ t.inputs[k].script = "p2id"

Accountable(t, a, v, s) ==
  /\ NothingForeign(t)
  /\ t.base = v => Elements(t.inputs) \cap s = {} /\ Justified(t, a)

AuthorityInv ==
  \A e \in Executors : tx[e] # NoTx => Accountable(tx[e], account, nonce, spent)

-----------------------------------------------------------------------------
(* A script that changes of the working copy only what its note entitles   *)
(* it to keeps the transaction accountable.                                *)
LEMMA ScriptIsAccountable ==
  ASSUME IInv, AuthorityInv, NEW e \in Executors, NEW root, At(e, root),
         NEW w \in AccountType, NEW o, FinishNote(e, w, o),
         ActiveNote(e).foreign = 0 \/ root = "p2id",
         w.last = tx[e].work.last \/
           (root = "check_in" /\ ActiveNote(e).sender = Owner),
         w.claimed = tx[e].work.claimed \/
           (root = "claim" /\ ActiveNote(e).sender = Beneficiary),
         w.allowed = tx[e].work.allowed \/
           (root \in {"config", "activate"} /\ ActiveNote(e).sender = Owner),
         w.balance <= tx[e].work.balance \/
           (root \in {"deposit", "p2id"} /\ ActiveNote(e).bound),
         w.foreign = tx[e].work.foreign \/ root = "p2id"
  PROVE  AuthorityInv'
<1> DEFINE t == tx[e]
           f == Finished(t, w, o)
           n == ActiveNote(e)
<1>1. /\ t # NoTx /\ t \in TxType /\ t.work \in AccountType
      /\ account \in AccountType /\ tx \in [Executors -> TxType \union {NoTx}]
  BY InFlight DEF IInv, TypeOK
<1>2. /\ t.inputs \in Seq(Notes) /\ t.next \in 1..Len(t.inputs)
      /\ n = t.inputs[t.next] /\ n.script = root
      /\ n \in Elements(t.inputs)
  BY <1>1 DEF TxType, At, ActiveNote, Elements
<1>3. Accountable(t, account, nonce, spent)
  BY <1>1 DEF AuthorityInv
<1>4. /\ f.base = t.base /\ f.inputs = t.inputs /\ f.work = w
      /\ f.next = t.next + 1
  BY DEF Finished
<1>5. /\ tx' = [tx EXCEPT ![e] = f]
      /\ UNCHANGED <<account, nonce, spent>>
  BY DEF FinishNote
<1> HIDE DEF t, f, n
<1>6. NothingForeign(f)
  <2> SUFFICES ASSUME NEW k \in DOMAIN f.inputs, k < f.next
               PROVE  f.inputs[k].foreign = 0 \/ f.inputs[k].script = "p2id"
    BY DEF NothingForeign
  <2>1. CASE k = t.next
    BY <1>2, <1>4, <2>1 DEF n
  <2>2. CASE k # t.next
    <3>1. k \in DOMAIN t.inputs /\ k < t.next
      BY <1>2, <1>4, <2>2
    <3> QED BY <1>3, <1>4, <3>1 DEF Accountable, NothingForeign
  <2> QED BY <2>1, <2>2
<1>7. ASSUME t.base = nonce PROVE Justified(f, account)
  <2>1. Justified(t, account)
    BY <1>3, <1>7 DEF Accountable
  <2>2. w.last # account.last => Holds(f, "check_in", Owner)
    BY <1>2, <1>4, <2>1 DEF Justified, Holds, t, n
  <2>3. w.claimed # account.claimed => Holds(f, "claim", Beneficiary)
    BY <1>2, <1>4, <2>1 DEF Justified, Holds, t, n
  <2>4. w.allowed # account.allowed =>
          Holds(f, "config", Owner) \/ Holds(f, "activate", Owner)
    BY <1>2, <1>4, <2>1 DEF Justified, Holds, t, n
  <2>5. w.balance > account.balance =>
          \E m \in Elements(f.inputs) :
            m.bound /\ m.script \in {"deposit", "p2id"}
    <3>1. CASE w.balance <= t.work.balance
      <4>1. w.balance \in Nat /\ t.work.balance \in Nat
            /\ account.balance \in Nat
        BY <1>1 DEF AccountType
      <4>2. w.balance > account.balance => t.work.balance > account.balance
        BY <3>1, <4>1
      <4> QED BY <1>4, <2>1, <4>2 DEF Justified
    <3>2. CASE root \in {"deposit", "p2id"} /\ n.bound
      BY <1>2, <1>4, <3>2
    <3> QED BY <3>1, <3>2 DEF t, n
  <2>6. w.foreign # account.foreign => "p2id" \in Scripts(f.inputs)
    BY <1>2, <1>4, <2>1 DEF Justified, Scripts, t
  <2> QED BY <1>4, <2>2, <2>3, <2>4, <2>5, <2>6 DEF Justified
<1>8. Accountable(f, account, nonce, spent)
  BY <1>3, <1>4, <1>6, <1>7 DEF Accountable
<1> SUFFICES ASSUME NEW d \in Executors, tx'[d] # NoTx
             PROVE  Accountable(tx'[d], account, nonce, spent)
  BY <1>5 DEF AuthorityInv
<1> QED BY <1>1, <1>5, <1>8 DEF AuthorityInv

(* What each script is called with.                                        *)
LEMMA Called ==
  ASSUME IInv, NEW e \in Executors, NEW root, At(e, root)
  PROVE  /\ tx[e].work \in AccountType /\ tx[e].work.balance \in Nat
         /\ tx[e].work.foreign \in Nat
         /\ ActiveNote(e) \in NoteType /\ ActiveNote(e).script = root
         /\ root \notin {"deposit", "p2id"} => ActiveNote(e).foreign = 0
<1>1. tx[e].work \in AccountType
  BY InFlight
<1>2. ActiveNote(e) \in Notes /\ ActiveNote(e) \in NoteType
  BY ActiveNoteIsInput DEF IInv
<1>3. ActiveNote(e).script = root
  BY DEF At, ActiveNote
<1> QED BY <1>1, <1>2, <1>3, NotesAssumption DEF AccountType

(* Credit raises the two balances by what the note holds.                  *)
LEMMA CreditForeign ==
  ASSUME NEW w \in AccountType, NEW n \in NoteType
  PROVE  Credit(w, n).foreign = w.foreign + n.foreign
BY DEF Credit, AccountType

LEMMA ExecuteIsAccountable ==
  ASSUME IInv, AuthorityInv, NEW e \in Executors, Execute(e)
  PROVE  AuthorityInv'
<1> DEFINE work == tx[e].work
           note == ActiveNote(e)
<1>1. CASE Activate(e)
  <2> DEFINE w == [work EXCEPT !.allowed = @ \ ClearedRoots, !.activated = TRUE]
  <2>1. /\ At(e, "activate") /\ note.sender = Owner /\ FinishNote(e, w, {})
    BY <1>1 DEF Activate, SentBy
  <2>2. work \in AccountType /\ work.balance \in Nat /\ note.foreign = 0
    BY <2>1, Called
  <2>3. /\ w \in AccountType /\ w.last = work.last /\ w.claimed = work.claimed
        /\ w.balance = work.balance /\ w.foreign = work.foreign
    BY <2>2 DEF AccountType
  <2>4. w.balance <= work.balance
    BY <2>2, <2>3
  <2> HIDE DEF w
  <2> QED BY <2>1, <2>2, <2>3, <2>4, ScriptIsAccountable
<1>2. CASE CheckIn(e)
  <2> DEFINE w == [work EXCEPT !.last = tx[e].ref]
  <2>1. /\ At(e, "check_in") /\ note.sender = Owner /\ FinishNote(e, w, {})
    BY <1>2 DEF CheckIn, SentBy
  <2>2. work \in AccountType /\ work.balance \in Nat /\ note.foreign = 0
        /\ tx[e].ref \in Nat
    BY <2>1, Called, InFlight DEF TxType
  <2>3. /\ w \in AccountType /\ w.claimed = work.claimed
        /\ w.allowed = work.allowed
        /\ w.balance = work.balance /\ w.foreign = work.foreign
    BY <2>2 DEF AccountType
  <2>4. w.balance <= work.balance
    BY <2>2, <2>3
  <2> HIDE DEF w
  <2> QED BY <2>1, <2>2, <2>3, <2>4, ScriptIsAccountable
<1>3. CASE Claim(e)
  <2> DEFINE w == Close(work)
             o == {[serial |-> note.id, target |-> Beneficiary,
                    amount |-> work.balance]}
  <2>1. /\ At(e, "claim") /\ note.sender = Beneficiary /\ FinishNote(e, w, o)
    BY <1>3 DEF Claim, SentBy
  <2>2. work \in AccountType /\ work.balance \in Nat /\ note.foreign = 0
    BY <2>1, Called
  <2>3. /\ w \in AccountType /\ w.last = work.last /\ w.allowed = work.allowed
        /\ w.balance = 0 /\ w.foreign = work.foreign
    BY <2>2, CloseFields DEF Close, AccountType
  <2>4. w.balance <= work.balance
    BY <2>2, <2>3
  <2> HIDE DEF w, o
  <2> QED BY <2>1, <2>2, <2>3, <2>4, ScriptIsAccountable
<1>4. CASE Deposit(e) \/ Receive(e)
  <2> DEFINE w == Credit(work, note)
  <2>1. PICK root \in {"deposit", "p2id"} :
          /\ At(e, root) /\ note.bound /\ FinishNote(e, w, {})
          /\ note.foreign = 0 \/ root = "p2id"
    BY <1>4 DEF Deposit, Receive, ForThisVault, OnlyConfiguredAsset
  <2>2. work \in AccountType /\ work.foreign \in Nat /\ note \in NoteType
    BY <2>1, Called
  <2>3. /\ w \in AccountType /\ w.last = work.last /\ w.claimed = work.claimed
        /\ w.allowed = work.allowed
        /\ w.foreign = work.foreign + note.foreign
    BY <2>2, CreditFields, CreditForeign
  <2>4. w.foreign = work.foreign \/ root = "p2id"
    BY <2>1, <2>2, <2>3
  <2> HIDE DEF w
  <2> QED BY <2>1, <2>3, <2>4, ScriptIsAccountable
<1>5. CASE Configure(e)
  <2> DEFINE allowed == IF note.adds THEN work.allowed \union {note.root}
                                     ELSE work.allowed \ {note.root}
             w == [work EXCEPT !.allowed = allowed]
  <2>1. At(e, "config") /\ note.sender = Owner
    BY <1>5 DEF Configure, SentBy
  <2>2. work \in AccountType /\ work.balance \in Nat /\ note.foreign = 0
        /\ note \in NoteType
    BY <2>1, Called
  <2>3. FinishNote(e, w, {})
    BY <1>5 DEF Configure
  <2>4. allowed \in SUBSET Roots
    BY <2>2 DEF AccountType, NoteType
  <2> HIDE DEF allowed
  <2>5. /\ w \in AccountType /\ w.last = work.last /\ w.claimed = work.claimed
        /\ w.balance = work.balance /\ w.foreign = work.foreign
    BY <2>2, <2>4 DEF AccountType
  <2>6. w.balance <= work.balance
    BY <2>2, <2>5
  <2> HIDE DEF w
  <2> QED BY <2>1, <2>2, <2>3, <2>5, <2>6, ScriptIsAccountable
<1>6. CASE Sponsor(e)
  <2>1. /\ At(e, "sponsorship") /\ FinishNote(e, work, {})
    BY <1>6 DEF Sponsor
  <2>2. work \in AccountType /\ work.balance \in Nat /\ note.foreign = 0
    BY <2>1, Called
  <2>3. work.balance <= work.balance
    BY <2>2
  <2> QED BY <2>1, <2>2, <2>3, ScriptIsAccountable
<1> QED BY <1>1, <1>2, <1>3, <1>4, <1>5, <1>6 DEF Execute

(* A transaction starts from the committed account, with notes nobody has  *)
(* consumed, and has changed nothing.                                      *)
LEMMA BeginIsAccountable ==
  ASSUME IInv, AuthorityInv, NEW e \in Executors, Begin(e)
  PROVE  AuthorityInv'
<1>1. PICK inputs \in InputLists(Notes \ spent), ref \in 0..height :
        BeginTransaction(e, inputs, ref)
  BY DEF Begin
<1> DEFINE t == [base |-> nonce, ref |-> ref, inputs |-> inputs, next |-> 1,
                 work |-> account, out |-> {}]
<1>2. /\ tx' = [tx EXCEPT ![e] = t] /\ UNCHANGED <<account, nonce, spent>>
  BY <1>1 DEF BeginTransaction
<1>3. tx \in [Executors -> TxType \union {NoTx}] /\ account.balance \in Nat
  BY DEF IInv, TypeOK, AccountType
<1>4. Elements(inputs) \cap spent = {} /\ DOMAIN inputs \subseteq Nat \ {0}
  <2>1. PICK k \in 1..MaxInputs : inputs \in [1..k -> Notes \ spent]
    BY DEF InputLists
  <2> QED BY <2>1, BoundsAssumption DEF Elements
<1>5. Accountable(t, account, nonce, spent)
  BY <1>3, <1>4 DEF Accountable, NothingForeign, Justified
<1> HIDE DEF t
<1> SUFFICES ASSUME NEW d \in Executors, tx'[d] # NoTx
             PROVE  Accountable(tx'[d], account, nonce, spent)
  BY <1>2 DEF AuthorityInv
<1> QED BY <1>2, <1>3, <1>5 DEF AuthorityInv

(* A commit leaves nothing in flight that starts from the new account.     *)
LEMMA CommitIsAccountable ==
  ASSUME IInv, AuthorityInv, NEW e \in Executors, CommitTransaction(e)
  PROVE  AuthorityInv'
<1>1. /\ nonce' = nonce + 1 /\ tx' = [tx EXCEPT ![e] = NoTx]
      /\ nonce \in Nat /\ tx \in [Executors -> TxType \union {NoTx}]
  BY DEF CommitTransaction, IInv, TypeOK
<1> SUFFICES ASSUME NEW d \in Executors, tx'[d] # NoTx
             PROVE  Accountable(tx'[d], account', nonce', spent')
  BY DEF AuthorityInv
<1>2. tx'[d] = tx[d] /\ tx[d] # NoTx /\ tx[d] \in TxType
  BY <1>1
<1>3. tx[d].base <= nonce /\ tx[d].base \in Nat
  BY <1>2 DEF IInv, TxInv, TxType
<1>4. NothingForeign(tx[d])
  BY <1>2 DEF AuthorityInv, Accountable
<1> QED BY <1>1, <1>2, <1>3, <1>4 DEF Accountable

LEMMA NextIsAccountable ==
  ASSUME IInv, AuthorityInv, [Next]_vars
  PROVE  AuthorityInv'
<1>1. CASE AdvanceBlock \/ UNCHANGED vars
  BY <1>1 DEF AdvanceBlock, vars, AuthorityInv
<1>2. ASSUME NEW e \in Executors, AbortTransaction(e)
      PROVE  AuthorityInv'
  <2>1. /\ tx' = [tx EXCEPT ![e] = NoTx] /\ UNCHANGED <<account, nonce, spent>>
        /\ tx \in [Executors -> TxType \union {NoTx}]
    BY <1>2 DEF AbortTransaction, IInv, TypeOK
  <2> QED BY <2>1 DEF AuthorityInv
<1> QED BY <1>1, <1>2, ExecuteIsAccountable, BeginIsAccountable,
           CommitIsAccountable DEF Next

(* Every transaction in flight is accountable, in every reachable state.   *)
THEOREM AuthorityHolds == Spec => [](IInv /\ AuthorityInv)
<1>1. Init => AuthorityInv
  BY DEF Init, AuthorityInv
<1>2. IInv /\ AuthorityInv /\ [Next]_vars => AuthorityInv'
  BY NextIsAccountable
<1> QED BY <1>1, <1>2, InvariantHolds, PTL DEF Spec

-----------------------------------------------------------------------------
(* What a commit consumes is what its transaction has run.                 *)
LEMMA CommittedNotes ==
  ASSUME IInv, AuthorityInv, NEW e \in Executors, CommitTransaction(e)
  PROVE  /\ spent' \ spent = Elements(tx[e].inputs)
         /\ Justified(tx[e], account) /\ account' = tx[e].work
         /\ WorkInv(tx[e], height) /\ StepInv(tx[e], account, height)
         /\ \A n \in Elements(tx[e].inputs) :
              n.foreign = 0 \/ n.script = "p2id"
<1>1. /\ tx[e] # NoTx /\ tx[e] \in TxType /\ account' = tx[e].work
      /\ WorkInv(tx[e], height) /\ StepInv(tx[e], account, height)
  BY CommittedResult
<1>2. /\ tx[e].base = nonce /\ spent' = spent \union Elements(tx[e].inputs)
      /\ tx[e].next > Len(tx[e].inputs)
  BY DEF CommitTransaction, UpToDate
<1>3. Accountable(tx[e], account, nonce, spent)
  BY <1>1 DEF AuthorityInv
<1>4. tx[e].inputs \in Seq(Notes) /\ tx[e].next \in Nat
  BY <1>1 DEF TxType
<1>5. \A n \in Elements(tx[e].inputs) : n.foreign = 0 \/ n.script = "p2id"
  BY <1>2, <1>3, <1>4 DEF Accountable, NothingForeign, Elements
<1> QED BY <1>1, <1>2, <1>3, <1>5 DEF Accountable

LEMMA OnlyCommitsConsume ==
  ASSUME IInv, [Next]_vars
  PROVE  \/ UNCHANGED <<account, spent>>
         \/ \E e \in Executors : CommitTransaction(e)
BY DEF Next, Execute, Activate, CheckIn, Claim, Deposit, Configure, Sponsor,
       Receive, FinishNote, Begin, BeginTransaction, AbortTransaction,
       AdvanceBlock, vars

(* Whatever a commit changes of the vault, the party entitled to that      *)
(* change asked for it in a note the same commit consumed.                 *)
THEOREM ChangesAreAskedFor == Spec => ChangesAreAuthorised
<1> DEFINE A == /\ account'.last # account.last => Consumes("check_in", Owner)
                /\ account'.claimed # account.claimed =>
                     Consumes("claim", Beneficiary)
                /\ account'.allowed # account.allowed =>
                     Consumes("config", Owner) \/ Consumes("activate", Owner)
                /\ account'.balance > account.balance =>
                     \E n \in spent' \ spent :
                       n.bound /\ n.script \in {"deposit", "p2id"}
<1>1. IInv /\ AuthorityInv /\ [Next]_vars => [A]_vars
  <2> SUFFICES ASSUME IInv, AuthorityInv, [Next]_vars PROVE A
    OBVIOUS
  <2>1. ASSUME NEW e \in Executors, CommitTransaction(e) PROVE A
    BY <2>1, CommittedNotes DEF Justified, Holds, Consumes
  <2>2. CASE UNCHANGED <<account, spent>>
    <3>1. account.balance \in Nat
      BY DEF IInv, TypeOK, AccountType
    <3> QED BY <2>2, <3>1
  <2> QED BY <2>1, <2>2, OnlyCommitsConsume
<1> QED BY <1>1, AuthorityHolds, PTL DEF Spec, ChangesAreAuthorised

(* No note with another asset is ever consumed by an active vault, so that *)
(* the claim leaves nothing locked in it.                                  *)
THEOREM NothingIsLocked == Spec => NoForeignAssetLocked
<1> DEFINE A == account.activated =>
                  /\ account'.foreign = account.foreign
                  /\ \A n \in spent' \ spent : n.foreign = 0
<1>1. IInv /\ AuthorityInv /\ [Next]_vars => [A]_vars
  <2> SUFFICES ASSUME IInv, AuthorityInv, [Next]_vars, account.activated
               PROVE  /\ account'.foreign = account.foreign
                      /\ \A n \in spent' \ spent : n.foreign = 0
    OBVIOUS
  <2>1. ASSUME NEW e \in Executors, CommitTransaction(e)
        PROVE  /\ account'.foreign = account.foreign
               /\ \A n \in spent' \ spent : n.foreign = 0
    <3>1. "p2id" \notin Scripts(tx[e].inputs)
      BY <2>1, CommittedNotes DEF StepInv, WorkInv
    <3> QED BY <2>1, <3>1, CommittedNotes DEF Justified, Scripts
  <2> QED BY <2>1, OnlyCommitsConsume
<1> QED BY <1>1, AuthorityHolds, PTL DEF Spec, NoForeignAssetLocked
-----------------------------------------------------------------------------
(* Sums of amounts.  Received folds over the notes consumed; that it adds   *)
(* up is an induction, made by looking at a smallest counterexample.       *)

(* The amounts a set of notes carries; Received is Total(spent).           *)
Total(S) == MapThenSumSet(LAMBDA n : n.amount, S)

(* The note a fold over S takes first.                                     *)
Any(S) == CHOOSE n \in S : TRUE

(* The equation of a fold over the subsets of S.                           *)
FoldEquation(g, S) ==
  g = [s \in SUBSET S |-> IF s = {} THEN 0
                          ELSE Any(s).amount + g[s \ {Any(s)}]]

(* Sets of at most k notes, and a sum on them.                             *)
Small(k) == {s \in SUBSET Notes : Cardinality(s) <= k}

SumsUpTo(g, k) ==
  /\ g \in [Small(k) -> Nat]
  /\ \A s \in Small(k) :
       g[s] = IF s = {} THEN 0 ELSE Any(s).amount + g[s \ {Any(s)}]

(* Every set of natural numbers that has an element has a least one.  The  *)
(* proofs by induction below take it of the sizes of counterexamples.      *)
LEMMA LeastNumber ==
  ASSUME NEW T, T \subseteq Nat, T # {}
  PROVE  \E m \in T : \A k \in T : m <= k
<1> DEFINE R == OpToRel(<, Nat)
<1>1. IsWellFoundedOn(R, Nat)
  BY NatLessThanWellFounded, Zenon DEF R
<1> HIDE DEF R
<1>2. \E m \in T : \A k \in T : ~ (<<k, m>> \in R)
  BY <1>1, WFMin
<1>3. PICK m \in T : \A k \in T : ~ (<<k, m>> \in R)
  BY <1>2
<1>4. \A k \in T : ~ (k < m)
  BY <1>3 DEF R, OpToRel
<1>5. \A k \in T : m <= k
  BY <1>4
<1> QED BY <1>5

(* Sets of notes are finite and carry natural numbers.                     *)
LEMMA NoteSets ==
  ASSUME NEW S, S \subseteq Notes
  PROVE  /\ IsFiniteSet(S) /\ Cardinality(S) \in Nat
         /\ Cardinality(S) = 0 <=> S = {}
         /\ \A n \in S : /\ n.amount \in Nat
                         /\ Cardinality(S \ {n}) = Cardinality(S) - 1
<1>1. IsFiniteSet(S) /\ Cardinality(S) \in Nat
  BY NotesAssumption, FS_Subset, FS_CardinalityType
<1>2. Cardinality(S) = 0 <=> S = {}
  BY <1>1, FS_EmptySet
<1>3. ASSUME NEW n \in S PROVE n.amount \in Nat
  BY NotesAssumption DEF NoteType
<1>4. ASSUME NEW n \in S PROVE Cardinality(S \ {n}) = Cardinality(S) - 1
  BY <1>1, FS_RemoveElement
<1> QED BY <1>1, <1>2, <1>3, <1>4

LEMMA AnyIsMember ==
  ASSUME NEW S, S # {}
  PROVE  Any(S) \in S
BY DEF Any

(* There is a sum on the sets of at most k notes, for every k.             *)
LEMMA SumsExist ==
  ASSUME NEW k \in Nat
  PROVE  \E g : SumsUpTo(g, k)
<1> DEFINE Bad == {j \in Nat : ~\E g : SumsUpTo(g, j)}
<1> SUFFICES ASSUME Bad # {} PROVE FALSE
  OBVIOUS
<1>1. PICK j \in Bad : \A i \in Bad : j <= i
  <2>1. Bad \subseteq Nat
    OBVIOUS
  <2> HIDE DEF Bad
  <2> QED BY <2>1, LeastNumber
<1>2. j \in Nat /\ ~\E g : SumsUpTo(g, j)
  OBVIOUS
<1>3. j # 0
  <2> DEFINE z == [s \in Small(0) |-> 0]
  <2>1. \A s \in Small(0) : s = {}
    BY NoteSets DEF Small
  <2>2. SumsUpTo(z, 0)
    BY <2>1 DEF SumsUpTo
  <2> QED BY <1>2, <2>2
<1>4. j - 1 \in Nat /\ j - 1 \notin Bad
  BY <1>1, <1>2, <1>3
<1>5. PICK g : SumsUpTo(g, j - 1)
  BY <1>4
<1> DEFINE h == [s \in Small(j) |-> IF s = {} THEN 0
                                    ELSE Any(s).amount + g[s \ {Any(s)}]]
<1>6. ASSUME NEW s \in Small(j), s # {}
      PROVE  /\ s \ {Any(s)} \in Small(j - 1) /\ s \ {Any(s)} \in Small(j)
             /\ Any(s).amount \in Nat
  <2>1. Any(s) \in s /\ s \subseteq Notes /\ Cardinality(s) <= j
    BY <1>6, AnyIsMember DEF Small
  <2>2. /\ Cardinality(s) \in Nat /\ Any(s).amount \in Nat
        /\ Cardinality(s \ {Any(s)}) = Cardinality(s) - 1
    BY <2>1, NoteSets
  <2> QED BY <1>2, <2>1, <2>2 DEF Small
<1>7. h \in [Small(j) -> Nat]
  BY <1>5, <1>6 DEF SumsUpTo
<1>8. ASSUME NEW s \in Small(j - 1), s \in Small(j)
      PROVE  h[s] = g[s]
  BY <1>5, <1>8 DEF SumsUpTo
<1>9. SumsUpTo(h, j)
  <2> SUFFICES ASSUME NEW s \in Small(j)
               PROVE  h[s] = IF s = {} THEN 0
                             ELSE Any(s).amount + h[s \ {Any(s)}]
    BY <1>7 DEF SumsUpTo
  <2>1. CASE s = {}
    BY <2>1
  <2>2. CASE s # {}
    <3>1. h[s \ {Any(s)}] = g[s \ {Any(s)}]
      BY <1>6, <1>8, <2>2
    <3> QED BY <2>2, <3>1
  <2> QED BY <2>1, <2>2
<1> HIDE DEF h
<1> QED BY <1>2, <1>9

(* Hence the fold over the subsets of any set of notes is well defined,    *)
(* and Total of it is a natural number that satisfies the equation.        *)
LEMMA TotalUnfolds ==
  ASSUME NEW S, S \subseteq Notes
  PROVE  /\ Total(S) \in Nat
         /\ S = {} => Total(S) = 0
         /\ S # {} => Total(S) = Any(S).amount + Total(S \ {Any(S)})
<1> DEFINE c == Cardinality(Notes)
<1>1. c \in Nat /\ Small(c) = SUBSET Notes
  BY NotesAssumption, FS_CardinalityType, FS_Subset DEF Small
<1>2. PICK g : SumsUpTo(g, c)
  BY <1>1, SumsExist
<1> HIDE DEF c
<1>3. /\ g \in [SUBSET Notes -> Nat]
      /\ \A s \in SUBSET Notes :
           g[s] = IF s = {} THEN 0 ELSE Any(s).amount + g[s \ {Any(s)}]
  BY <1>1, <1>2 DEF SumsUpTo
<1>4. ASSUME NEW T, T \subseteq Notes PROVE Total(T) = g[T]
  <2> DEFINE r == [s \in SUBSET T |-> g[s]]
             f == CHOOSE h : FoldEquation(h, T)
  <2>1. FoldEquation(r, T)
    <3>1. ASSUME NEW s \in SUBSET T
          PROVE  r[s] = IF s = {} THEN 0 ELSE Any(s).amount + r[s \ {Any(s)}]
      BY <1>3, <1>4
    <3> QED BY <3>1 DEF FoldEquation
  <2>2. FoldEquation(f, T)
    BY <2>1
  <2>3. Total(T) = f[T]
    BY DEF Total, MapThenSumSet, MapThenFoldSet, FoldEquation, Any
  <2> HIDE DEF r, f
  <2>4. ASSUME NEW s \in SUBSET T
        PROVE  f[s] = IF s = {} THEN 0 ELSE Any(s).amount + f[s \ {Any(s)}]
    BY <2>2 DEF FoldEquation
  <2> DEFINE Bad == {s \in SUBSET T : f[s] # g[s]}
             Sizes == {Cardinality(s) : s \in Bad}
  <2> SUFFICES ASSUME Bad # {} PROVE FALSE
    BY <2>3
  <2>5. \A s \in Bad : s \subseteq Notes /\ Cardinality(s) \in Nat
    BY <1>4, NoteSets
  <2>6. PICK m \in Sizes : \A k \in Sizes : m <= k
    <3>1. Sizes \subseteq Nat /\ Sizes # {}
      BY <2>5
    <3> HIDE DEF Sizes
    <3> QED BY <3>1, LeastNumber
  <2>7. PICK s \in Bad : \A u \in Bad : Cardinality(s) <= Cardinality(u)
    BY <2>6
  <2>8. s # {}
    BY <1>3, <2>4, <2>5
  <2>9. /\ Any(s) \in s /\ s \ {Any(s)} \in SUBSET T
        /\ Cardinality(s \ {Any(s)}) = Cardinality(s) - 1
    BY <2>5, <2>8, NoteSets, AnyIsMember
  <2>10. s \ {Any(s)} \notin Bad
    <3>1. Cardinality(s) \in Nat /\ ~(Cardinality(s) <= Cardinality(s) - 1)
      BY <2>5
    <3> HIDE DEF Bad
    <3> QED BY <2>7, <2>9, <3>1
  <2>11. f[s \ {Any(s)}] = g[s \ {Any(s)}]
    BY <2>9, <2>10
  <2> QED BY <1>3, <1>4, <2>4, <2>8, <2>11
<1>5. S \ {Any(S)} \subseteq Notes
  OBVIOUS
<1> QED BY <1>3, <1>4, <1>5

(* One note more adds its amount, whichever note the fold takes first.     *)
LEMMA TotalAdds ==
  ASSUME NEW S, S \subseteq Notes, NEW n \in Notes, n \notin S
  PROVE  Total(S \union {n}) = Total(S) + n.amount
<1> DEFINE Wrong(T, m) == /\ T \subseteq Notes /\ m \in Notes \ T
                          /\ Total(T \union {m}) # Total(T) + m.amount
           Bad == {T \in SUBSET Notes : \E m \in Notes : Wrong(T, m)}
           Sizes == {Cardinality(T) : T \in Bad}
<1> SUFFICES ASSUME Bad # {} PROVE FALSE
  OBVIOUS
<1>1. PICK k \in Sizes : \A j \in Sizes : k <= j
  <2>1. Bad \subseteq SUBSET Notes
    OBVIOUS
  <2> HIDE DEF Bad
  <2>2. Sizes \subseteq Nat /\ Sizes # {}
    BY <2>1, NoteSets
  <2> HIDE DEF Sizes
  <2> QED BY <2>2, LeastNumber
<1>2. PICK T \in Bad : \A U \in Bad : Cardinality(T) <= Cardinality(U)
  BY <1>1
<1>3. PICK m \in Notes : Wrong(T, m)
  BY <1>2
<1>4. ASSUME NEW U \in SUBSET Notes, Cardinality(U) < Cardinality(T),
             NEW x \in Notes \ U
      PROVE  Total(U \union {x}) = Total(U) + x.amount
  <2>1. Cardinality(T) \in Nat /\ Cardinality(U) \in Nat
    BY NoteSets
  <2>2. U \notin Bad
    <3>1. ~(Cardinality(T) <= Cardinality(U))
      BY <1>4, <2>1
    <3> HIDE DEF Bad
    <3> QED BY <1>2, <3>1
  <2> QED BY <2>2
<1> DEFINE U == T \union {m}
           a == Any(U)
<1>5. U \subseteq Notes /\ U # {} /\ a \in U
  BY <1>3, AnyIsMember
<1>6. Total(U) = a.amount + Total(U \ {a})
  BY <1>5, TotalUnfolds
<1>7. Total(T) \in Nat /\ m.amount \in Nat /\ a.amount \in Nat
  BY <1>3, <1>5, TotalUnfolds, NoteSets
<1> HIDE DEF Bad, Sizes, a
<1>8. CASE a = m
  <2>1. U \ {a} = T
    BY <1>3, <1>8
  <2>2. Total(U) = Total(T) + m.amount
    <3>1. Total(U) = m.amount + Total(T)
      BY <1>6, <1>8, <2>1
    <3> HIDE DEF U
    <3> QED BY <1>7, <3>1
  <2> QED BY <1>3, <2>2
<1>9. CASE a # m
  <2> DEFINE V == T \ {a}
  <2>1. a \in T /\ V \subseteq Notes /\ m \in Notes \ V /\ a \in Notes \ V
    BY <1>3, <1>5, <1>9
  <2>2. Cardinality(V) < Cardinality(T)
    BY <1>3, <2>1, NoteSets
  <2>3. Total(V) \in Nat
    BY <2>1, TotalUnfolds
  <2>4. V \union {a} = T /\ V \union {m} = U \ {a}
    BY <2>1, <1>3, <1>9
  <2> HIDE DEF V, U
  <2>5. Total(T) = Total(V) + a.amount
    BY <1>4, <2>1, <2>2, <2>4
  <2>6. Total(U \ {a}) = Total(V) + m.amount
    BY <1>4, <2>1, <2>2, <2>4
  <2>7. Total(U) = Total(T) + m.amount
    BY <1>6, <1>7, <2>3, <2>5, <2>6
  <2> QED BY <1>3, <2>7 DEF U
<1> QED BY <1>8, <1>9

-----------------------------------------------------------------------------
(* Custody.                                                                *)

(* The notes of t that have run.                                           *)
Ran(t) == {t.inputs[k] : k \in {j \in DOMAIN t.inputs : j < t.next}}

(* Account state a with the payouts p holds or has paid all that the notes *)
(* s brought.                                                              *)
Conserved(a, p, s) ==
  IF a.claimed
  THEN /\ a.balance = 0
       /\ Cardinality(p) = 1
       /\ \A q \in p : q.target = Beneficiary /\ q.amount = Total(s)
  ELSE p = {} /\ a.balance = Total(s)

(* As long as t may commit, it would leave a conserving vault behind if it *)
(* ended now.                                                              *)
InCustody(t, p, s, v) ==
  /\ \A j, k \in DOMAIN t.inputs : t.inputs[j] = t.inputs[k] => j = k
  /\ t.base = v => Conserved(t.work, p \union t.out, s \union Ran(t))

CustodyInv ==
  /\ Conserved(account, payouts, spent)
  /\ \A e \in Executors : tx[e] # NoTx => InCustody(tx[e], payouts, spent, nonce)

(* A script that accounts for its note's amount keeps custody.             *)
LEMMA ScriptKeepsCustody ==
  ASSUME IInv, AuthorityInv, CustodyInv, NEW e \in Executors, NEW root,
         At(e, root), NEW w, NEW o, FinishNote(e, w, o),
         \A p, s : /\ s \subseteq Notes \ {ActiveNote(e)}
                   /\ Conserved(tx[e].work, p, s)
                   => Conserved(w, p \union o, s \union {ActiveNote(e)})
  PROVE  CustodyInv'
<1> DEFINE t == tx[e]
           f == Finished(t, w, o)
           n == ActiveNote(e)
<1>1. /\ t # NoTx /\ t \in TxType /\ spent \subseteq Notes
      /\ tx \in [Executors -> TxType \union {NoTx}]
  BY InFlight DEF IInv, TypeOK
<1>2. /\ t.inputs \in Seq(Notes) /\ t.next \in 1..Len(t.inputs)
      /\ n = t.inputs[t.next]
  BY <1>1 DEF TxType, At, ActiveNote
<1>3. Accountable(t, account, nonce, spent) /\ InCustody(t, payouts, spent, nonce)
  BY <1>1 DEF AuthorityInv, CustodyInv
<1>4. /\ f.base = t.base /\ f.inputs = t.inputs /\ f.work = w
      /\ f.next = t.next + 1 /\ f.out = t.out \union o
  BY DEF Finished
<1>5. /\ tx' = [tx EXCEPT ![e] = f]
      /\ UNCHANGED <<account, nonce, spent, payouts>>
  BY DEF FinishNote
<1>6. \A p, s : s \subseteq Notes \ {n} /\ Conserved(t.work, p, s)
                  => Conserved(w, p \union o, s \union {n})
  OBVIOUS
<1> HIDE DEF t, f, n
<1>7. ASSUME t.base = nonce
      PROVE  Conserved(w, payouts \union f.out, spent \union Ran(f))
  <2>1. /\ Conserved(t.work, payouts \union t.out, spent \union Ran(t))
        /\ Elements(t.inputs) \cap spent = {}
    BY <1>3, <1>7 DEF InCustody, Accountable
  <2>2. Ran(f) = Ran(t) \union {n}
    BY <1>2, <1>4 DEF Ran
  <2>3. n \notin Ran(t) /\ n \notin spent /\ Ran(t) \subseteq Notes
    BY <1>2, <1>3, <2>1 DEF InCustody, Ran, Elements
  <2>4. spent \union Ran(t) \subseteq Notes \ {n}
    BY <1>1, <2>3
  <2>5. Conserved(w, (payouts \union t.out) \union o,
                     (spent \union Ran(t)) \union {n})
    BY <1>6, <2>1, <2>4
  <2>6. /\ (payouts \union t.out) \union o = payouts \union f.out
        /\ (spent \union Ran(t)) \union {n} = spent \union Ran(f)
    BY <1>4, <2>2
  <2> QED BY <2>5, <2>6
<1>8. InCustody(f, payouts, spent, nonce)
  BY <1>3, <1>4, <1>7 DEF InCustody
<1> QED BY <1>1, <1>5, <1>8 DEF CustodyInv

(* A note without the asset leaves a conserving state conserving, if the   *)
(* script leaves the balance and the flag alone.                           *)
LEMMA EmptyNoteConserves ==
  ASSUME NEW a, NEW w, w.claimed = a.claimed, w.balance = a.balance,
         NEW n \in Notes, n.amount = 0, NEW p, NEW s, s \subseteq Notes \ {n},
         Conserved(a, p, s)
  PROVE  Conserved(w, p \union {}, s \union {n})
<1>1. Total(s) \in Nat /\ Total(s \union {n}) = Total(s) + n.amount
  BY TotalUnfolds, TotalAdds
<1>2. Total(s \union {n}) = Total(s) /\ p \union {} = p
  BY <1>1
<1> QED BY <1>2 DEF Conserved

LEMMA ExecuteKeepsCustody ==
  ASSUME IInv, AuthorityInv, CustodyInv, NEW e \in Executors, Execute(e)
  PROVE  CustodyInv'
<1> DEFINE work == tx[e].work
           n == ActiveNote(e)
<1>1. PICK root : At(e, root)
  BY DEF Execute, Activate, CheckIn, Claim, Deposit, Configure, Sponsor, Receive
<1>2. /\ work \in AccountType /\ n \in Notes /\ n \in NoteType
      /\ tx[e] # NoTx /\ WorkInv(tx[e], height)
  BY <1>1, Called, ActiveNoteIsInput, InFlight DEF IInv, TxInv
<1>3. ASSUME NEW r, At(e, r), r \notin {"deposit", "p2id"}, NEW w,
             w.claimed = work.claimed, w.balance = work.balance,
             FinishNote(e, w, {})
      PROVE  CustodyInv'
  <2>1. n.amount = 0
    BY <1>2, <1>3, NotesAssumption DEF At, ActiveNote
  <2>2. ASSUME NEW p, NEW s, s \subseteq Notes \ {n}, Conserved(work, p, s)
        PROVE  Conserved(w, p \union {}, s \union {n})
    BY <1>2, <1>3, <2>1, <2>2, EmptyNoteConserves
  <2> QED BY <1>3, <2>2, ScriptKeepsCustody
<1>4. CASE Activate(e)
  <2> DEFINE w == [work EXCEPT !.allowed = @ \ ClearedRoots, !.activated = TRUE]
  <2>1. w.claimed = work.claimed /\ w.balance = work.balance
    BY <1>2 DEF AccountType
  <2>2. At(e, "activate") /\ FinishNote(e, w, {})
    BY <1>4 DEF Activate
  <2> HIDE DEF w
  <2> QED BY <1>3, <2>1, <2>2
<1>5. CASE CheckIn(e)
  <2> DEFINE w == [work EXCEPT !.last = tx[e].ref]
  <2>1. w.claimed = work.claimed /\ w.balance = work.balance
    BY <1>2 DEF AccountType
  <2>2. At(e, "check_in") /\ FinishNote(e, w, {})
    BY <1>5 DEF CheckIn
  <2> HIDE DEF w
  <2> QED BY <1>3, <2>1, <2>2
<1>6. CASE Configure(e)
  <2> DEFINE w == [work EXCEPT !.allowed =
                     IF n.adds THEN @ \union {n.root} ELSE @ \ {n.root}]
  <2>1. w.claimed = work.claimed /\ w.balance = work.balance
    BY <1>2 DEF AccountType
  <2>2. At(e, "config") /\ FinishNote(e, w, {})
    BY <1>6 DEF Configure
  <2> HIDE DEF w
  <2> QED BY <1>3, <2>1, <2>2
<1>7. CASE Sponsor(e)
  BY <1>3, <1>7 DEF Sponsor
<1>8. CASE Deposit(e) \/ Receive(e)
  <2> DEFINE w == Credit(work, n)
  <2>1. PICK r \in {"deposit", "p2id"} : At(e, r) /\ FinishNote(e, w, {})
    BY <1>8 DEF Deposit, Receive
  <2>2. ~work.claimed
    <3>1. CASE Deposit(e)
      BY <3>1 DEF Deposit, Open
    <3>2. CASE Receive(e)
      <4>1. "p2id" \in Scripts(tx[e].inputs)
        BY <3>2, ActiveNoteIsInput DEF Receive, Scripts, At, ActiveNote, IInv
      <4> QED BY <1>2, <4>1 DEF WorkInv
    <3> QED BY <1>8, <3>1, <3>2
  <2>3. w.claimed = work.claimed /\ w.balance = work.balance + n.amount
    BY <1>2, CreditFields
  <2>4. ASSUME NEW p, NEW s, s \subseteq Notes \ {n}, Conserved(work, p, s)
        PROVE  Conserved(w, p \union {}, s \union {n})
    <3>1. Total(s \union {n}) = Total(s) + n.amount
      BY <1>2, <2>4, TotalAdds
    <3>2. p = {} /\ work.balance = Total(s)
      BY <2>2, <2>4 DEF Conserved
    <3> HIDE DEF w
    <3> QED BY <2>2, <2>3, <3>1, <3>2 DEF Conserved
  <2> HIDE DEF w
  <2> QED BY <2>1, <2>4, ScriptKeepsCustody
<1>9. CASE Claim(e)
  <2> DEFINE w == Close(work)
             q == [serial |-> n.id, target |-> Beneficiary,
                   amount |-> work.balance]
  <2>1. At(e, "claim") /\ FinishNote(e, w, {q}) /\ ~work.claimed
    BY <1>9 DEF Claim, Open
  <2>2. w.claimed /\ w.balance = 0
    BY <1>2, CloseFields
  <2>3. n.amount = 0
    BY <1>2, <2>1, NotesAssumption DEF At, ActiveNote
  <2>4. q.target = Beneficiary /\ q.amount = work.balance
    OBVIOUS
  <2> HIDE DEF w, q
  <2>5. ASSUME NEW p, NEW s, s \subseteq Notes \ {n}, Conserved(work, p, s)
        PROVE  Conserved(w, p \union {q}, s \union {n})
    <3>1. Total(s) \in Nat /\ Total(s \union {n}) = Total(s) + n.amount
      BY <1>2, <2>5, TotalUnfolds, TotalAdds
    <3>2. p \union {q} = {q} /\ work.balance = Total(s)
      BY <2>1, <2>5 DEF Conserved
    <3>3. Cardinality({q}) = 1
      BY FS_Singleton
    <3>4. q.amount = Total(s \union {n})
      BY <2>3, <2>4, <3>1, <3>2
    <3> QED BY <2>2, <2>4, <3>2, <3>3, <3>4 DEF Conserved
  <2> QED BY <2>1, <2>5, ScriptKeepsCustody
<1> QED BY <1>4, <1>5, <1>6, <1>7, <1>8, <1>9 DEF Execute

(* A transaction starts from the committed account and has run nothing.    *)
LEMMA BeginKeepsCustody ==
  ASSUME IInv, CustodyInv, NEW e \in Executors, Begin(e)
  PROVE  CustodyInv'
<1>1. PICK inputs \in InputLists(Notes \ spent), ref \in 0..height :
        BeginTransaction(e, inputs, ref)
  BY DEF Begin
<1> DEFINE t == [base |-> nonce, ref |-> ref, inputs |-> inputs, next |-> 1,
                 work |-> account, out |-> {}]
<1>2. /\ tx' = [tx EXCEPT ![e] = t]
      /\ UNCHANGED <<account, nonce, spent, payouts>>
  BY <1>1 DEF BeginTransaction
<1>3. tx \in [Executors -> TxType \union {NoTx}]
  BY DEF IInv, TypeOK
<1>4. /\ \A j, k \in DOMAIN inputs : inputs[j] = inputs[k] => j = k
      /\ DOMAIN inputs \subseteq Nat \ {0}
  <2>1. PICK k \in 1..MaxInputs : inputs \in [1..k -> Notes \ spent]
    BY DEF InputLists
  <2> QED BY <2>1, BoundsAssumption DEF InputLists
<1>5. Ran(t) = {}
  BY <1>4 DEF Ran
<1>6. payouts \union t.out = payouts /\ spent \union Ran(t) = spent
  BY <1>5
<1>7. InCustody(t, payouts, spent, nonce)
  BY <1>4, <1>6 DEF InCustody, CustodyInv
<1> HIDE DEF t
<1> QED BY <1>2, <1>3, <1>7 DEF CustodyInv

(* What a transaction that has run all its notes leaves is what it         *)
(* commits; nothing else in flight starts from the new account.            *)
LEMMA CommitKeepsCustody ==
  ASSUME IInv, CustodyInv, NEW e \in Executors, CommitTransaction(e)
  PROVE  CustodyInv'
<1>1. /\ tx[e] # NoTx /\ tx[e] \in TxType /\ account' = tx[e].work
  BY CommittedResult
<1>2. /\ tx[e].base = nonce /\ spent' = spent \union Elements(tx[e].inputs)
      /\ payouts' = payouts \union tx[e].out /\ nonce' = nonce + 1
      /\ tx' = [tx EXCEPT ![e] = NoTx] /\ tx[e].next > Len(tx[e].inputs)
  BY DEF CommitTransaction, UpToDate
<1>3. Ran(tx[e]) = Elements(tx[e].inputs)
  <2>1. tx[e].inputs \in Seq(Notes) /\ tx[e].next \in Nat
    BY <1>1 DEF TxType
  <2> QED BY <1>2, <2>1 DEF Ran, Elements
<1>4. Conserved(account', payouts', spent')
  BY <1>1, <1>2, <1>3 DEF CustodyInv, InCustody
<1>5. ASSUME NEW d \in Executors, tx'[d] # NoTx
      PROVE  InCustody(tx'[d], payouts', spent', nonce')
  <2>1. /\ tx \in [Executors -> TxType \union {NoTx}] /\ nonce \in Nat
    BY DEF IInv, TypeOK
  <2>2. tx'[d] = tx[d] /\ tx[d] # NoTx /\ tx[d] \in TxType
    BY <1>2, <1>5, <2>1
  <2>3. tx[d].base <= nonce /\ tx[d].base \in Nat
    BY <2>2 DEF IInv, TxInv, TxType
  <2>4. tx[d].base # nonce'
    BY <1>2, <2>1, <2>3
  <2>5. \A j, k \in DOMAIN tx[d].inputs :
          tx[d].inputs[j] = tx[d].inputs[k] => j = k
    BY <2>2 DEF CustodyInv, InCustody
  <2> QED BY <2>2, <2>4, <2>5 DEF InCustody
<1> QED BY <1>4, <1>5 DEF CustodyInv, Conserved

LEMMA NextKeepsCustody ==
  ASSUME IInv, AuthorityInv, CustodyInv, [Next]_vars
  PROVE  CustodyInv'
<1>1. CASE AdvanceBlock \/ UNCHANGED vars
  BY <1>1 DEF AdvanceBlock, vars, CustodyInv
<1>2. ASSUME NEW e \in Executors, AbortTransaction(e)
      PROVE  CustodyInv'
  <2>1. /\ tx' = [tx EXCEPT ![e] = NoTx]
        /\ UNCHANGED <<account, nonce, spent, payouts>>
        /\ tx \in [Executors -> TxType \union {NoTx}]
    BY <1>2 DEF AbortTransaction, IInv, TypeOK
  <2> QED BY <2>1 DEF CustodyInv
<1> QED BY <1>1, <1>2, ExecuteKeepsCustody, BeginKeepsCustody,
           CommitKeepsCustody DEF Next

(* Every transaction in flight that can still commit accounts for every    *)
(* unit, in every reachable state.                                         *)
THEOREM CustodyHolds == Spec => []CustodyInv
<1>1. Init => CustodyInv
  <2> SUFFICES ASSUME Init PROVE CustodyInv
    OBVIOUS
  <2>1. Total({}) = 0
    BY TotalUnfolds
  <2> QED BY <2>1 DEF Init, CustodyInv, Conserved
<1>2. IInv /\ AuthorityInv /\ CustodyInv /\ [Next]_vars => CustodyInv'
  BY NextKeepsCustody
<1> QED BY <1>1, <1>2, AuthorityHolds, PTL DEF Spec

(* What consumed notes brought is in the vault or in its single payout,    *)
(* whatever aborted, raced or was claimed.                                 *)
THEOREM CustodyIsConserved == Spec => []CustodyConserved
<1>1. CustodyInv => CustodyConserved
  BY DEF CustodyInv, Conserved, CustodyConserved, Received, Total
<1> QED BY <1>1, CustodyHolds, PTL
=============================================================================
