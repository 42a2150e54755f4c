------------------------ MODULE HeirbeatVault_proofs ------------------------
(***************************************************************************)
(* Safety of the vault for every set of notes, executors and bounds.       *)
(*                                                                         *)
(* The committed account alone is not an inductive statement: what commits *)
(* next was computed earlier, by a transaction in flight.  The invariant   *)
(* therefore also says, of each transaction, what its working copy can     *)
(* look like, and, if it started from the state that is still committed,   *)
(* how the copy differs from that state.                                   *)
(***************************************************************************)
EXTENDS HeirbeatVault, SequenceTheorems, FiniteSetTheorems, TLAPS

-----------------------------------------------------------------------------
(* The inductive invariant.                                                *)

Scripts(inputs) == {n.script : n \in Elements(inputs)}

(* A working copy on its own: the setup surface is closed once activated,  *)
(* also against the notes still to run, and a closed vault is empty.       *)
WorkInv(t, h) ==
  /\ t.ref <= h
  /\ t.work.last <= h
  /\ t.work.activated => /\ Scripts(t.inputs) \cap {"config", "p2id"} = {}
                         /\ t.work.allowed \cap SetupOnlyRoots = {}
  /\ t.work.claimed => t.work.activated /\ t.work.balance = 0
  /\ \A p \in t.out : p.target = Beneficiary /\ p.amount > 0
  /\ \A p, q \in t.out : p = q
  /\ t.out # {} => t.work.claimed

(* What an activating transaction has done: nothing but activate.          *)
OnlyActivated(t, a) ==
  /\ Scripts(t.inputs) \subseteq {"activate", "sponsorship"}
  /\ t.work.balance = a.balance /\ t.work.last = a.last
  /\ ~t.work.claimed

(* A working copy against the account state a it started from.             *)
StepInv(t, a, h) ==
  /\ a.activated => t.work.activated /\ t.work.allowed = a.allowed
  /\ t.work.last >= a.last
  /\ a.claimed => t.work = a /\ t.out = {}
  /\ ~t.work.activated => t.work.last = a.last /\ ~t.work.claimed
  /\ ~t.work.activated /\ "p2id" \notin Scripts(t.inputs) =>
       t.work.balance = a.balance
  /\ t.work.activated /\ ~a.activated => OnlyActivated(t, a)
  /\ ~t.work.claimed => t.work.balance >= a.balance
  /\ t.work.claimed /\ ~a.claimed =>
       /\ t.out # {}
       /\ \A p \in t.out : p.amount >= a.balance
       /\ t.work.last + Timeout <= h

TxInv(t, a, h, v) ==
  /\ t.base <= v
  /\ WorkInv(t, h)
  /\ t.base = v => StepInv(t, a, h)

AccountInv ==
  /\ account.last <= height
  /\ account.claimed => account.activated
  /\ SurfaceFrozen
  /\ PayoutOnce

IInv ==
  /\ TypeOK
  /\ AccountInv
  /\ \A e \in Executors : tx[e] # NoTx => TxInv(tx[e], account, height, nonce)

-----------------------------------------------------------------------------
(* Lemmas about the kernel's operators.                                    *)

(* The inputs of a transaction are a sequence of notes.                    *)
LEMMA InputListsAreSequences ==
  ASSUME NEW S, S \subseteq Notes, NEW s \in InputLists(S)
  PROVE  s \in Seq(Notes)
<1>1. PICK k \in 1..MaxInputs : s \in [1..k -> S]
  BY DEF InputLists
<1>2. k \in Nat
  BY BoundsAssumption
<1>3. s \in [1..k -> Notes]
  BY <1>1
<1> QED
  BY <1>2, <1>3, SeqDef

(* The active note is one of the inputs.                                   *)
LEMMA ActiveNoteIsInput ==
  ASSUME TypeOK, NEW e \in Executors, NEW root, At(e, root)
  PROVE  /\ tx[e] \in TxType
         /\ ActiveNote(e) \in Notes
         /\ ActiveNote(e) \in NoteType
         /\ root \in Scripts(tx[e].inputs)
<1>1. tx[e] \in TxType
  BY DEF TypeOK, At
<1>2. /\ tx[e].inputs \in Seq(Notes)
      /\ tx[e].next \in 1..Len(tx[e].inputs)
  BY <1>1 DEF TxType, At
<1>3. ActiveNote(e) \in Elements(tx[e].inputs)
  BY <1>2 DEF ActiveNote, Elements
<1>4. ActiveNote(e) \in Notes
  BY <1>2 DEF ActiveNote
<1>5. ActiveNote(e).script = root
  BY DEF At, ActiveNote
<1> QED
  BY <1>1, <1>3, <1>4, <1>5, NotesAssumption DEF Scripts

(* A note's script touches only its own transaction: if the new working    *)
(* copy is sound, so is everything else.                                   *)
LEMMA FinishNoteKeepsInvariant ==
  ASSUME IInv, NEW e \in Executors, tx[e] # NoTx,
         NEW w \in AccountType, NEW o \in SUBSET PayoutType,
         FinishNote(e, w, o),
         TxInv(Finished(tx[e], w, o), account, height, nonce)
  PROVE  IInv'
<1> DEFINE t == Finished(tx[e], w, o)
<1>1. tx[e] \in TxType /\ tx \in [Executors -> TxType \union {NoTx}]
  BY DEF IInv, TypeOK
<1>2. t \in TxType
  BY <1>1 DEF TxType, Finished
<1>3. tx' = [tx EXCEPT ![e] = t]
  BY DEF FinishNote
<1>4. UNCHANGED <<height, account, nonce, spent, payouts>>
  BY DEF FinishNote
<1>5. TypeOK'
  <2>1. tx' \in [Executors -> TxType \union {NoTx}]
    BY <1>1, <1>2, <1>3
  <2> QED
    BY <2>1, <1>4 DEF IInv, TypeOK
<1>6. AccountInv'
  BY <1>4 DEF IInv, AccountInv, SurfaceFrozen, PayoutOnce
<1>7. ASSUME NEW d \in Executors, tx'[d] # NoTx
      PROVE  TxInv(tx'[d], account, height, nonce)
  <2>1. CASE d = e
    BY <2>1, <1>1, <1>3
  <2>2. CASE d # e
    BY <2>2, <1>1, <1>3, <1>7 DEF IInv
  <2> QED
    BY <2>1, <2>2
<1> QED
  BY <1>4, <1>5, <1>6, <1>7 DEF IInv

-----------------------------------------------------------------------------
(* Lemmas about the updates of a working copy.                             *)

(* Crediting a note's assets changes the two balances only.                *)
LEMMA CreditFields ==
  ASSUME NEW w \in AccountType, NEW n \in NoteType
  PROVE  /\ Credit(w, n) \in AccountType
         /\ Credit(w, n).balance = w.balance + n.amount
         /\ Credit(w, n).balance >= w.balance
         /\ Credit(w, n).allowed = w.allowed
         /\ Credit(w, n).activated = w.activated
         /\ Credit(w, n).claimed = w.claimed
         /\ Credit(w, n).last = w.last
<1>1. ASSUME NEW x \in Nat, NEW y \in Nat
      PROVE  [w EXCEPT !.balance = x, !.foreign = y] \in AccountType
  BY DEF AccountType
<1>2. w.balance + n.amount \in Nat /\ w.foreign + n.foreign \in Nat
  BY DEF AccountType, NoteType
<1>3. Credit(w, n) \in AccountType
  BY <1>1, <1>2 DEF Credit
<1> QED
  BY <1>3 DEF Credit, AccountType, NoteType

(* Closing the vault changes the flag and the balance only.                *)
LEMMA CloseFields ==
  ASSUME NEW w \in AccountType
  PROVE  /\ Close(w) \in AccountType
         /\ Close(w).balance = 0
         /\ Close(w).claimed
         /\ Close(w).allowed = w.allowed
         /\ Close(w).activated = w.activated
         /\ Close(w).last = w.last
BY DEF Close, AccountType

-----------------------------------------------------------------------------
(* Each procedure keeps the invariant.                                     *)

(* What every procedure can assume.                                        *)
LEMMA InFlight ==
  ASSUME IInv, NEW e \in Executors, NEW root, At(e, root)
  PROVE  /\ tx[e] # NoTx
         /\ tx[e] \in TxType
         /\ tx[e].work \in AccountType
         /\ account \in AccountType
         /\ height \in Nat /\ nonce \in Nat
         /\ TxInv(tx[e], account, height, nonce)
         /\ ActiveNote(e) \in NoteType
         /\ root \in Scripts(tx[e].inputs)
         /\ account.claimed => account.activated
<1>1. TypeOK
  BY DEF IInv
<1>2. tx[e] \in TxType /\ ActiveNote(e) \in NoteType
      /\ root \in Scripts(tx[e].inputs)
  BY <1>1, ActiveNoteIsInput
<1> QED
  BY <1>1, <1>2, TimeAssumption DEF IInv, TypeOK, AccountInv, TxType, At

(* A heartbeat or a deposit: an open working copy keeps its flags and its  *)
(* allowlist, and neither its heartbeat nor its balance goes down.         *)
LEMMA ServiceKeepsInvariant ==
  ASSUME IInv, NEW e \in Executors, NEW root \in {"check_in", "deposit"},
         At(e, root), Open(tx[e].work),
         NEW w \in AccountType, FinishNote(e, w, {}),
         w.allowed = tx[e].work.allowed,
         w.activated = tx[e].work.activated,
         w.claimed = tx[e].work.claimed,
         w.last >= tx[e].work.last, w.last <= height,
         w.balance >= tx[e].work.balance
  PROVE  IInv'
<1> DEFINE t == tx[e]
           f == Finished(t, w, {})
<1>1. /\ t # NoTx /\ t \in TxType /\ t.work \in AccountType
      /\ account \in AccountType /\ TxInv(t, account, height, nonce)
      /\ root \in Scripts(t.inputs)
      /\ account.claimed => account.activated
  BY InFlight
<1>2. /\ f.base = t.base /\ f.ref = t.ref /\ f.inputs = t.inputs
      /\ f.work = w /\ f.out = t.out
  BY DEF Finished
<1>3. FinishNote(e, w, {}) /\ f = Finished(t, w, {})
  OBVIOUS
<1> HIDE DEF f
<1>4. WorkInv(f, height)
  BY <1>1, <1>2 DEF TxInv, WorkInv, Open
<1>5. ASSUME t.base = nonce
      PROVE  StepInv(f, account, height)
  <2>1. StepInv(t, account, height) /\ WorkInv(t, height)
    BY <1>1, <1>5 DEF TxInv
  <2>2. ~account.claimed /\ account.activated
    BY <1>1, <2>1 DEF StepInv, OnlyActivated, Open
  <2>3. f.work.last >= account.last
    BY <1>1, <1>2, <2>1 DEF StepInv, AccountType
  <2>4. f.work.activated /\ ~f.work.claimed
    BY <1>1, <1>2 DEF Open
  <2>5. f.work.allowed = account.allowed
    BY <1>2, <2>1, <2>2 DEF StepInv
  <2>6. f.work.balance >= account.balance
    BY <1>1, <1>2, <2>1 DEF StepInv, Open, AccountType
  <2> QED
    BY <2>2, <2>3, <2>4, <2>5, <2>6 DEF StepInv
<1>6. TxInv(f, account, height, nonce)
  BY <1>1, <1>2, <1>4, <1>5 DEF TxInv
<1> QED
  BY <1>1, <1>3, <1>6, FinishNoteKeepsInvariant

(* deposit adds to the balance of an open working copy.                    *)
LEMMA DepositKeepsInvariant ==
  ASSUME IInv, NEW e \in Executors, Deposit(e)
  PROVE  IInv'
<1> DEFINE w == Credit(tx[e].work, ActiveNote(e))
<1>1. At(e, "deposit") /\ Open(tx[e].work) /\ FinishNote(e, w, {})
  BY DEF Deposit
<1>2. /\ tx[e].work \in AccountType /\ ActiveNote(e) \in NoteType
      /\ height \in Nat /\ tx[e].work.last <= height
  BY <1>1, InFlight DEF TxInv, WorkInv
<1>3. /\ w \in AccountType
      /\ w.balance >= tx[e].work.balance
      /\ w.allowed = tx[e].work.allowed
      /\ w.activated = tx[e].work.activated
      /\ w.claimed = tx[e].work.claimed /\ w.last = tx[e].work.last
  BY <1>2, CreditFields
<1>4. w.last >= tx[e].work.last /\ w.last <= height
  BY <1>2, <1>3 DEF AccountType
<1> HIDE DEF w
<1> QED
  BY <1>1, <1>3, <1>4, ServiceKeepsInvariant

(* check_in records a reference block not older than the last heartbeat.   *)
LEMMA CheckInKeepsInvariant ==
  ASSUME IInv, NEW e \in Executors, CheckIn(e)
  PROVE  IInv'
<1> DEFINE w == [tx[e].work EXCEPT !.last = tx[e].ref]
<1>1. /\ At(e, "check_in") /\ Open(tx[e].work) /\ FinishNote(e, w, {})
      /\ tx[e].ref >= tx[e].work.last
  BY DEF CheckIn, NotStale
<1>2. /\ tx[e] \in TxType /\ tx[e].work \in AccountType
      /\ tx[e].ref <= height
  BY <1>1, InFlight DEF TxInv, WorkInv
<1>3. tx[e].ref \in Nat
  BY <1>2 DEF TxType
<1>4. /\ w \in AccountType
      /\ w.allowed = tx[e].work.allowed
      /\ w.activated = tx[e].work.activated
      /\ w.claimed = tx[e].work.claimed
      /\ w.balance = tx[e].work.balance /\ w.last = tx[e].ref
  BY <1>2, <1>3 DEF AccountType
<1>5. w.last >= tx[e].work.last /\ w.last <= height
      /\ w.balance >= tx[e].work.balance
  BY <1>1, <1>2, <1>4 DEF AccountType
<1> HIDE DEF w
<1> QED
  BY <1>1, <1>4, <1>5, ServiceKeepsInvariant

(* claim empties an open working copy into its first payout.               *)
LEMMA ClaimKeepsInvariant ==
  ASSUME IInv, NEW e \in Executors, Claim(e)
  PROVE  IInv'
<1> DEFINE t == tx[e]
           w == Close(t.work)
           p == [serial |-> ActiveNote(e).id, target |-> Beneficiary,
                 amount |-> t.work.balance]
           f == Finished(t, w, {p})
<1>1. /\ At(e, "claim") /\ Open(t.work) /\ FinishNote(e, w, {p})
      /\ t.ref >= t.work.last + Timeout /\ t.work.balance > 0
  BY DEF Claim, Eligible, Deadline
<1>2. /\ t # NoTx /\ t \in TxType /\ t.work \in AccountType
      /\ account \in AccountType /\ TxInv(t, account, height, nonce)
      /\ ActiveNote(e) \in NoteType /\ height \in Nat
      /\ "claim" \in Scripts(t.inputs)
      /\ account.claimed => account.activated
  BY <1>1, InFlight
<1>3. p \in PayoutType /\ p.target = Beneficiary /\ p.amount = t.work.balance
  BY <1>2, PartiesAssumption DEF PayoutType, NoteType, AccountType
<1>4. /\ w \in AccountType /\ w.balance = 0 /\ w.claimed
      /\ w.allowed = t.work.allowed /\ w.activated = t.work.activated
      /\ w.last = t.work.last
  BY <1>2, CloseFields
<1>5. t.out = {}
  BY <1>1, <1>2 DEF TxInv, WorkInv, Open
<1>6. /\ f.base = t.base /\ f.ref = t.ref /\ f.inputs = t.inputs
      /\ f.work = w /\ f.out = {p}
  BY <1>5 DEF Finished
<1>7. f = Finished(t, w, {p})
  OBVIOUS
<1> HIDE DEF w, p, f
<1>8. WorkInv(f, height)
  BY <1>1, <1>2, <1>3, <1>4, <1>6 DEF TxInv, WorkInv, Open
<1>9. ASSUME t.base = nonce
      PROVE  StepInv(f, account, height)
  <2>1. StepInv(t, account, height) /\ WorkInv(t, height)
    BY <1>2, <1>9 DEF TxInv
  <2>2. ~account.claimed /\ account.activated
    BY <1>1, <1>2, <2>1 DEF StepInv, OnlyActivated, Open
  <2>3. f.work.last >= account.last
    BY <1>4, <1>6, <2>1 DEF StepInv
  <2>4. f.work.activated /\ f.work.claimed
    BY <1>1, <1>4, <1>6 DEF Open
  <2>5. f.work.allowed = account.allowed
    BY <1>4, <1>6, <2>1, <2>2 DEF StepInv
  <2>6. f.out # {} /\ \A q \in f.out : q.amount >= account.balance
    BY <1>1, <1>3, <1>6, <2>1 DEF StepInv, Open
  <2>7. f.work.last + Timeout <= height
    <3>1. f.work.last = t.work.last
      BY <1>4, <1>6
    <3>2. t.ref \in Nat /\ t.work.last \in Nat /\ t.ref <= height
      BY <1>2, <2>1 DEF WorkInv, TxType, AccountType
    <3> QED
      BY <1>1, <1>2, <3>1, <3>2, TimeAssumption
  <2> QED
    BY <2>2, <2>3, <2>4, <2>5, <2>6, <2>7 DEF StepInv
<1>10. TxInv(f, account, height, nonce)
  BY <1>2, <1>6, <1>8, <1>9 DEF TxInv
<1>11. {p} \in SUBSET PayoutType
  BY <1>3
<1> QED
  BY <1>1, <1>2, <1>4, <1>7, <1>10, <1>11, FinishNoteKeepsInvariant

(* Setup steps, on a working copy that is not activated: configuration     *)
(* changes the allowlist, P2ID adds to the balance.                        *)
LEMMA SetupKeepsInvariant ==
  ASSUME IInv, NEW e \in Executors, NEW root \in {"config", "p2id"},
         At(e, root),
         NEW w \in AccountType, FinishNote(e, w, {}),
         w.activated = tx[e].work.activated,
         w.claimed = tx[e].work.claimed,
         w.last = tx[e].work.last,
         w.balance >= tx[e].work.balance,
         root # "p2id" => w.balance = tx[e].work.balance
  PROVE  IInv'
<1> DEFINE t == tx[e]
           f == Finished(t, w, {})
<1>1. /\ t # NoTx /\ t \in TxType /\ t.work \in AccountType
      /\ account \in AccountType /\ TxInv(t, account, height, nonce)
      /\ root \in Scripts(t.inputs)
      /\ account.claimed => account.activated
  BY InFlight
<1>2. /\ f.base = t.base /\ f.ref = t.ref /\ f.inputs = t.inputs
      /\ f.work = w /\ f.out = t.out
  BY DEF Finished
<1>3. FinishNote(e, w, {}) /\ f = Finished(t, w, {})
  OBVIOUS
<1> HIDE DEF f
<1>4. ~t.work.activated /\ ~t.work.claimed
  BY <1>1 DEF TxInv, WorkInv
<1>5. WorkInv(f, height)
  BY <1>1, <1>2, <1>4 DEF TxInv, WorkInv
<1>6. ASSUME t.base = nonce
      PROVE  StepInv(f, account, height)
  <2>1. StepInv(t, account, height)
    BY <1>1, <1>6 DEF TxInv
  <2>2. ~account.activated /\ ~account.claimed
    BY <1>1, <1>4, <2>1 DEF StepInv
  <2>3. f.work.last = account.last /\ f.work.last >= account.last
    BY <1>2, <1>4, <2>1 DEF StepInv
  <2>4. ~f.work.activated /\ ~f.work.claimed
    BY <1>2, <1>4
  <2>5. "p2id" \notin Scripts(f.inputs) => f.work.balance = account.balance
    BY <1>1, <1>2, <1>4, <2>1 DEF StepInv
  <2>6. f.work.balance >= account.balance
    BY <1>1, <1>2, <1>4, <2>1 DEF StepInv, AccountType
  <2> QED
    BY <2>2, <2>3, <2>4, <2>5, <2>6 DEF StepInv
<1>7. TxInv(f, account, height, nonce)
  BY <1>1, <1>2, <1>5, <1>6 DEF TxInv
<1> QED
  BY <1>1, <1>3, <1>7, FinishNoteKeepsInvariant

(* A configuration note edits the allowlist of a vault in setup.           *)
LEMMA ConfigureKeepsInvariant ==
  ASSUME IInv, NEW e \in Executors, Configure(e)
  PROVE  IInv'
<1> DEFINE note == ActiveNote(e)
           a == IF note.adds THEN tx[e].work.allowed \union {note.root}
                             ELSE tx[e].work.allowed \ {note.root}
           w == [tx[e].work EXCEPT !.allowed = a]
<1>1. At(e, "config") /\ FinishNote(e, w, {})
  BY DEF Configure
<1>2. tx[e].work \in AccountType /\ note \in NoteType
  BY <1>1, InFlight
<1>3. a \in SUBSET Roots
  BY <1>2 DEF AccountType, NoteType
<1>4. /\ w \in AccountType
      /\ w.activated = tx[e].work.activated
      /\ w.claimed = tx[e].work.claimed
      /\ w.last = tx[e].work.last /\ w.balance = tx[e].work.balance
  <2> HIDE DEF a
  <2> QED
    BY <1>2, <1>3 DEF AccountType
<1>5. w.balance >= tx[e].work.balance
  BY <1>2, <1>4 DEF AccountType
<1> HIDE DEF w
<1> QED
  BY <1>1, <1>4, <1>5, SetupKeepsInvariant

(* A P2ID note adds assets to a vault in setup.                            *)
LEMMA ReceiveKeepsInvariant ==
  ASSUME IInv, NEW e \in Executors, Receive(e)
  PROVE  IInv'
<1> DEFINE w == Credit(tx[e].work, ActiveNote(e))
<1>1. At(e, "p2id") /\ FinishNote(e, w, {})
  BY DEF Receive
<1>2. tx[e].work \in AccountType /\ ActiveNote(e) \in NoteType
  BY <1>1, InFlight
<1>3. /\ w \in AccountType
      /\ w.balance >= tx[e].work.balance
      /\ w.activated = tx[e].work.activated
      /\ w.claimed = tx[e].work.claimed /\ w.last = tx[e].work.last
  BY <1>2, CreditFields
<1> HIDE DEF w
<1> QED
  BY <1>1, <1>3, SetupKeepsInvariant

(* A sponsorship leaves the working copy alone.                            *)
LEMMA SponsorKeepsInvariant ==
  ASSUME IInv, NEW e \in Executors, Sponsor(e)
  PROVE  IInv'
<1> DEFINE t == tx[e]
           f == Finished(t, t.work, {})
<1>1. At(e, "sponsorship") /\ FinishNote(e, t.work, {})
  BY DEF Sponsor
<1>2. t # NoTx /\ t.work \in AccountType /\ TxInv(t, account, height, nonce)
  BY <1>1, InFlight
<1>3. /\ f.base = t.base /\ f.ref = t.ref /\ f.inputs = t.inputs
      /\ f.work = t.work /\ f.out = t.out
  BY DEF Finished
<1>4. f = Finished(t, t.work, {})
  OBVIOUS
<1> HIDE DEF f
<1>5. WorkInv(f, height)
  BY <1>2, <1>3 DEF TxInv, WorkInv
<1>6. t.base = nonce => StepInv(f, account, height)
  BY <1>2, <1>3 DEF TxInv, StepInv, OnlyActivated
<1>7. TxInv(f, account, height, nonce)
  BY <1>2, <1>3, <1>5, <1>6 DEF TxInv
<1> QED
  BY <1>1, <1>2, <1>4, <1>7, FinishNoteKeepsInvariant

(* activate, isolated from every note but a sponsorship, closes setup.     *)
LEMMA ActivateKeepsInvariant ==
  ASSUME IInv, NEW e \in Executors, Activate(e)
  PROVE  IInv'
<1> DEFINE t == tx[e]
           w == [t.work EXCEPT !.allowed = t.work.allowed \ ClearedRoots,
                               !.activated = TRUE]
           f == Finished(t, w, {})
<1>1. /\ At(e, "activate") /\ FinishNote(e, w, {})
      /\ ~t.work.activated /\ ~t.work.claimed
      /\ "p2id" \notin t.work.allowed
      /\ Scripts(t.inputs) \subseteq {"activate", "sponsorship"}
  BY DEF Activate, IsolatedActivation, Scripts
<1>2. /\ t # NoTx /\ t \in TxType /\ t.work \in AccountType
      /\ account \in AccountType /\ TxInv(t, account, height, nonce)
      /\ account.claimed => account.activated
  BY <1>1, InFlight
<1>3. /\ w \in AccountType /\ w.activated
      /\ w.allowed = t.work.allowed \ {"activate", "config"}
      /\ w.claimed = t.work.claimed /\ w.last = t.work.last
      /\ w.balance = t.work.balance
  BY <1>2 DEF AccountType, ClearedRoots
<1>4. /\ f.base = t.base /\ f.ref = t.ref /\ f.inputs = t.inputs
      /\ f.work = w /\ f.out = t.out
  BY DEF Finished
<1>5. f = Finished(t, w, {})
  OBVIOUS
<1> HIDE DEF w, f
<1>6. WorkInv(f, height)
  <2>1. w.allowed \cap SetupOnlyRoots = {}
    BY <1>1, <1>3 DEF SetupOnlyRoots
  <2>2. Scripts(t.inputs) \cap {"config", "p2id"} = {}
    BY <1>1
  <2>3. WorkInv(t, height)
    BY <1>2 DEF TxInv
  <2> HIDE DEF t
  <2> QED
    BY <1>1, <1>3, <1>4, <2>1, <2>2, <2>3 DEF WorkInv
<1>7. ASSUME t.base = nonce
      PROVE  StepInv(f, account, height)
  <2>1. StepInv(t, account, height)
    BY <1>2, <1>7 DEF TxInv
  <2>2. ~account.activated /\ ~account.claimed
    BY <1>1, <1>2, <2>1 DEF StepInv
  <2>3. "p2id" \notin Scripts(t.inputs)
    BY <1>1
  <2>4. t.work.balance = account.balance /\ t.work.last = account.last
        /\ t.work.last >= account.last
    BY <1>1, <2>1, <2>3 DEF StepInv
  <2>5. f.work.activated /\ ~f.work.claimed
    BY <1>1, <1>3, <1>4
  <2>6. f.work.balance = account.balance /\ f.work.last = account.last
        /\ f.work.last >= account.last /\ f.work.balance >= account.balance
    BY <1>2, <1>3, <1>4, <2>4 DEF AccountType
  <2>7. OnlyActivated(f, account)
    BY <1>1, <1>4, <2>5, <2>6 DEF OnlyActivated
  <2> QED
    BY <2>2, <2>5, <2>6, <2>7 DEF StepInv
<1>8. TxInv(f, account, height, nonce)
  BY <1>2, <1>4, <1>6, <1>7 DEF TxInv
<1>9. {} \in SUBSET PayoutType
  OBVIOUS
<1> QED
  BY <1>1, <1>2, <1>3, <1>5, <1>8, <1>9, FinishNoteKeepsInvariant

-----------------------------------------------------------------------------
(* The other actions keep the invariant.                                   *)

(* A new block moves only the upper bound of recorded block numbers.       *)
LEMMA AdvanceBlockKeepsInvariant ==
  ASSUME IInv, AdvanceBlock
  PROVE  IInv'
<1>1. /\ height \in Nat /\ height' = height + 1 /\ height' \in 0..MaxHeight
      /\ UNCHANGED <<account, nonce, spent, payouts, tx>>
  BY TimeAssumption DEF IInv, TypeOK, AdvanceBlock
<1>2. TypeOK'
  BY <1>1 DEF IInv, TypeOK
<1>3. AccountInv'
  BY <1>1 DEF IInv, TypeOK, AccountInv, AccountType, SurfaceFrozen, PayoutOnce
<1>4. ASSUME NEW e \in Executors, tx[e] # NoTx
      PROVE  TxInv(tx[e], account, height', nonce)
  <2>1. TxInv(tx[e], account, height, nonce)
    BY <1>4 DEF IInv
  <2>2. tx[e].ref \in Nat /\ tx[e].work.last \in Nat /\ Timeout \in Nat
    BY <1>4, TimeAssumption DEF IInv, TypeOK, TxType, AccountType
  <2>3. WorkInv(tx[e], height')
    BY <1>1, <2>1, <2>2 DEF TxInv, WorkInv
  <2>4. StepInv(tx[e], account, height) => StepInv(tx[e], account, height')
    BY <1>1, <2>2 DEF StepInv
  <2> QED
    BY <2>1, <2>3, <2>4 DEF TxInv
<1> QED
  BY <1>1, <1>2, <1>3, <1>4 DEF IInv

(* A new transaction's working copy is the committed state, and the        *)
(* allowlist check has closed the setup surface to its notes.              *)
LEMMA BeginKeepsInvariant ==
  ASSUME IInv, NEW e \in Executors, Begin(e)
  PROVE  IInv'
<1>1. PICK inputs \in InputLists(Notes \ spent), ref \in 0..height :
        BeginTransaction(e, inputs, ref)
  BY DEF Begin
<1> DEFINE t == [base |-> nonce, ref |-> ref, inputs |-> inputs, next |-> 1,
                 work |-> account, out |-> {}]
<1>2. inputs \in Seq(Notes)
  BY InputListsAreSequences
<1>3. /\ account \in AccountType /\ nonce \in Nat /\ height \in Nat
      /\ ref \in Nat /\ ref <= height
      /\ tx \in [Executors -> TxType \union {NoTx}]
  BY TimeAssumption DEF IInv, TypeOK
<1>4. t \in TxType
  BY <1>2, <1>3 DEF TxType
<1>5. /\ tx' = [tx EXCEPT ![e] = t]
      /\ UNCHANGED <<height, account, nonce, spent, payouts>>
      /\ Scripts(inputs) \subseteq account.allowed
  BY <1>1 DEF BeginTransaction, Scripts
<1>6. /\ t.base = nonce /\ t.ref = ref /\ t.inputs = inputs
      /\ t.work = account /\ t.out = {}
  OBVIOUS
<1> HIDE DEF t
<1>7. TypeOK'
  <2>1. tx' \in [Executors -> TxType \union {NoTx}]
    BY <1>3, <1>4, <1>5
  <2> QED
    BY <2>1, <1>5 DEF IInv, TypeOK
<1>8. AccountInv'
  BY <1>5 DEF IInv, AccountInv, SurfaceFrozen, PayoutOnce
<1>9. WorkInv(t, height)
  <2>1. account.activated => Scripts(inputs) \cap {"config", "p2id"} = {}
    BY <1>5 DEF IInv, AccountInv, SurfaceFrozen, SetupOnlyRoots
  <2> QED
    BY <1>3, <1>6, <2>1
       DEF IInv, AccountInv, SurfaceFrozen, PayoutOnce, WorkInv
<1>10. StepInv(t, account, height)
  BY <1>3, <1>6 DEF IInv, AccountInv, AccountType, StepInv
<1>11. TxInv(t, account, height, nonce)
  BY <1>3, <1>6, <1>9, <1>10 DEF TxInv
<1>12. ASSUME NEW d \in Executors, tx'[d] # NoTx
       PROVE  TxInv(tx'[d], account, height, nonce)
  BY <1>3, <1>5, <1>11, <1>12 DEF IInv
<1> QED
  BY <1>5, <1>7, <1>8, <1>12 DEF IInv

(* Dropping a transaction leaves the others as they are.                   *)
LEMMA AbortKeepsInvariant ==
  ASSUME IInv, NEW e \in Executors, AbortTransaction(e)
  PROVE  IInv'
<1>1. /\ tx \in [Executors -> TxType \union {NoTx}]
      /\ tx' = [tx EXCEPT ![e] = NoTx]
      /\ UNCHANGED <<height, account, nonce, spent, payouts>>
  BY DEF IInv, TypeOK, AbortTransaction
<1>2. TypeOK'
  BY <1>1 DEF IInv, TypeOK
<1>3. AccountInv'
  BY <1>1 DEF IInv, AccountInv, SurfaceFrozen, PayoutOnce
<1>4. ASSUME NEW d \in Executors, tx'[d] # NoTx
      PROVE  TxInv(tx'[d], account, height, nonce)
  BY <1>1, <1>4 DEF IInv
<1> QED
  BY <1>1, <1>2, <1>3, <1>4 DEF IInv

(* What a transaction that can commit is known to have computed.           *)
LEMMA CommittedResult ==
  ASSUME IInv, NEW e \in Executors, CommitTransaction(e)
  PROVE  /\ tx[e] # NoTx /\ tx[e] \in TxType
         /\ account \in AccountType /\ account' \in AccountType
         /\ height \in Nat /\ nonce \in Nat /\ UNCHANGED height
         /\ account' = tx[e].work
         /\ payouts' = payouts \union tx[e].out
         /\ WorkInv(tx[e], height)
         /\ StepInv(tx[e], account, height)
<1>1. /\ tx[e] # NoTx /\ tx[e].base = nonce
      /\ account' = tx[e].work /\ payouts' = payouts \union tx[e].out
      /\ UNCHANGED height
  BY DEF CommitTransaction, UpToDate
<1>2. TxInv(tx[e], account, height, nonce)
  BY <1>1 DEF IInv
<1> QED
  BY <1>1, <1>2, TimeAssumption DEF IInv, TypeOK, TxType, TxInv

(* A commit publishes a sound working copy, and makes every other          *)
(* transaction in flight obsolete.                                         *)
LEMMA CommitKeepsInvariant ==
  ASSUME IInv, NEW e \in Executors, CommitTransaction(e)
  PROVE  IInv'
<1> DEFINE t == tx[e]
<1>1. /\ t # NoTx /\ t \in TxType
      /\ account \in AccountType /\ account' \in AccountType
      /\ nonce \in Nat /\ UNCHANGED height
      /\ account' = t.work /\ payouts' = payouts \union t.out
      /\ WorkInv(t, height) /\ StepInv(t, account, height)
  BY CommittedResult
<1>2. /\ nonce' = nonce + 1
      /\ spent' = spent \union Elements(t.inputs)
      /\ tx' = [tx EXCEPT ![e] = NoTx]
      /\ tx \in [Executors -> TxType \union {NoTx}]
  BY DEF CommitTransaction, IInv, TypeOK
<1>3. TypeOK'
  <2>1. Elements(t.inputs) \subseteq Notes /\ t.out \subseteq PayoutType
    BY <1>1 DEF TxType, Elements
  <2>2. tx' \in [Executors -> TxType \union {NoTx}]
    BY <1>2
  <2> QED
    BY <1>1, <1>2, <2>1, <2>2 DEF IInv, TypeOK
<1>4. PayoutOnce'
  <2>1. PayoutOnce
    BY DEF IInv, AccountInv
  <2>2. CASE account.claimed
    BY <1>1, <2>1, <2>2 DEF PayoutOnce, StepInv
  <2>3. CASE ~account.claimed
    <3>1. payouts' = t.out
      BY <1>1, <2>1, <2>3 DEF PayoutOnce
    <3> QED
      BY <1>1, <2>3, <3>1 DEF PayoutOnce, WorkInv, StepInv
  <2> QED
    BY <2>2, <2>3
<1>5. AccountInv'
  BY <1>1, <1>4 DEF AccountInv, SurfaceFrozen, WorkInv
<1>6. ASSUME NEW d \in Executors, tx'[d] # NoTx
      PROVE  TxInv(tx'[d], account', height', nonce')
  <2>1. tx'[d] = tx[d] /\ tx[d] # NoTx
    BY <1>2, <1>6
  <2>2. TxInv(tx[d], account, height, nonce) /\ tx[d] \in TxType
    BY <1>2, <2>1 DEF IInv
  <2>3. tx[d].base <= nonce' /\ tx[d].base # nonce'
    BY <1>1, <1>2, <2>2 DEF TxInv, TxType
  <2> QED
    BY <1>1, <2>1, <2>2, <2>3 DEF TxInv
<1> QED
  BY <1>3, <1>5, <1>6 DEF IInv

-----------------------------------------------------------------------------
(* The invariant.                                                          *)

(* The deployed vault satisfies the invariant.                             *)
LEMMA InitHasInvariant ==
  ASSUME Init
  PROVE  IInv
<1>1. TypeOK
  <2>1. account \in AccountType
    BY DEF Init, AccountType, SetupRoots
  <2> QED
    BY <2>1, TimeAssumption DEF Init, TypeOK
<1>2. AccountInv
  BY DEF Init, AccountInv, SurfaceFrozen, PayoutOnce
<1> QED
  BY <1>1, <1>2 DEF Init, IInv

(* Every step of the specification keeps the invariant.                    *)
LEMMA NextKeepsInvariant ==
  ASSUME IInv, [Next]_vars
  PROVE  IInv'
<1>1. CASE AdvanceBlock
  BY <1>1, AdvanceBlockKeepsInvariant
<1>2. ASSUME NEW e \in Executors, Begin(e)
      PROVE  IInv'
  BY <1>2, BeginKeepsInvariant
<1>3. ASSUME NEW e \in Executors, Execute(e)
      PROVE  IInv'
  BY <1>3, ActivateKeepsInvariant, CheckInKeepsInvariant,
     ClaimKeepsInvariant, DepositKeepsInvariant, ConfigureKeepsInvariant,
     SponsorKeepsInvariant, ReceiveKeepsInvariant DEF Execute
<1>4. ASSUME NEW e \in Executors, CommitTransaction(e)
      PROVE  IInv'
  BY <1>4, CommitKeepsInvariant
<1>5. ASSUME NEW e \in Executors, AbortTransaction(e)
      PROVE  IInv'
  BY <1>5, AbortKeepsInvariant
<1>6. CASE UNCHANGED vars
  BY <1>6 DEF vars, IInv, TypeOK, AccountInv, SurfaceFrozen, PayoutOnce
<1> QED
  BY <1>1, <1>2, <1>3, <1>4, <1>5, <1>6 DEF Next

(* The invariant holds in every reachable state.                           *)
THEOREM InvariantHolds == Spec => []IInv
<1>1. Init => IInv
  BY InitHasInvariant
<1>2. IInv /\ [Next]_vars => IInv'
  BY NextKeepsInvariant
<1> QED
  BY <1>1, <1>2, PTL DEF Spec

(* Every variable keeps its type.                                          *)
THEOREM TypeCorrect == Spec => []TypeOK
<1>1. IInv => TypeOK
  BY DEF IInv
<1> QED
  BY <1>1, InvariantHolds, PTL

(* Once activated, the vault never again allows a setup script, whatever   *)
(* transactions were in flight when activate committed.                    *)
THEOREM SurfaceStaysFrozen == Spec => []SurfaceFrozen
<1>1. IInv => SurfaceFrozen
  BY DEF IInv, AccountInv
<1> QED
  BY <1>1, InvariantHolds, PTL

(* The vault is claimed exactly when it has created a payout, there is one *)
(* payout at most, it is the beneficiary's, and it leaves nothing behind.  *)
THEOREM AtMostOnePayout == Spec => []PayoutOnce
<1>1. IInv => PayoutOnce
  BY DEF IInv, AccountInv
<1> QED
  BY <1>1, InvariantHolds, PTL

-----------------------------------------------------------------------------
(* What a step may never do.                                               *)

(* Only a commit changes what the chain knows of the vault, and a new      *)
(* block changes nothing else.                                             *)
LEMMA OnlyCommitsChangeTheAccount ==
  ASSUME IInv, [Next]_vars
  PROVE  \/ UNCHANGED <<height, account, payouts>>
         \/ /\ height < MaxHeight /\ height' = height + 1
            /\ UNCHANGED <<account, payouts>>
         \/ \E e \in Executors : CommitTransaction(e)
<1>1. ASSUME NEW e \in Executors, Execute(e)
      PROVE  UNCHANGED <<height, account, payouts>>
  BY <1>1 DEF Execute, Activate, CheckIn, Claim, Deposit, Configure,
              Sponsor, Receive, FinishNote
<1>2. ASSUME NEW e \in Executors, Begin(e) \/ AbortTransaction(e)
      PROVE  UNCHANGED <<height, account, payouts>>
  BY <1>2 DEF Begin, BeginTransaction, AbortTransaction
<1>3. CASE AdvanceBlock
  BY <1>3 DEF AdvanceBlock
<1>4. CASE UNCHANGED vars
  BY <1>4 DEF vars
<1> QED
  BY <1>1, <1>2, <1>3, <1>4 DEF Next

(* Activation is never undone and the allowlist it froze never changes.    *)
THEOREM PolicyIsFrozen == Spec => PolicyNeverChanges
<1>1. IInv /\ [Next]_vars =>
        [account.activated =>
           account'.activated /\ account'.allowed = account.allowed]_vars
  <2> SUFFICES ASSUME IInv, [Next]_vars, account.activated
               PROVE  account'.activated /\ account'.allowed = account.allowed
    OBVIOUS
  <2>1. ASSUME NEW e \in Executors, CommitTransaction(e)
        PROVE  account'.activated /\ account'.allowed = account.allowed
    BY <2>1, CommittedResult DEF StepInv
  <2> QED
    BY <2>1, OnlyCommitsChangeTheAccount
<1> QED
  BY <1>1, InvariantHolds, PTL DEF Spec, PolicyNeverChanges

(* Nothing that lands after claim changes the account or pays again.       *)
THEOREM ClaimedStaysClosed == Spec => ClaimedIsTerminal
<1>1. IInv /\ [Next]_vars =>
        [account.claimed => account' = account /\ payouts' = payouts]_vars
  <2> SUFFICES ASSUME IInv, [Next]_vars, account.claimed
               PROVE  account' = account /\ payouts' = payouts
    OBVIOUS
  <2>1. ASSUME NEW e \in Executors, CommitTransaction(e)
        PROVE  account' = account /\ payouts' = payouts
    BY <2>1, CommittedResult DEF StepInv
  <2> QED
    BY <2>1, OnlyCommitsChangeTheAccount
<1> QED
  BY <1>1, InvariantHolds, PTL DEF Spec, ClaimedIsTerminal

(* The recorded heartbeat never moves to an earlier block.                 *)
THEOREM HeartbeatIsMonotonic == Spec => HeartbeatNeverRewinds
<1>1. IInv /\ [Next]_vars => [account'.last >= account.last]_vars
  <2> SUFFICES ASSUME IInv, [Next]_vars
               PROVE  account'.last >= account.last
    OBVIOUS
  <2>1. ASSUME NEW e \in Executors, CommitTransaction(e)
        PROVE  account'.last >= account.last
    BY <2>1, CommittedResult DEF StepInv
  <2>2. account.last >= account.last
    BY DEF IInv, TypeOK, AccountType
  <2> QED
    BY <2>1, <2>2, OnlyCommitsChangeTheAccount
<1> QED
  BY <1>1, InvariantHolds, PTL DEF Spec, HeartbeatNeverRewinds

(* A claim commits only Timeout blocks after the heartbeat on record.      *)
THEOREM ClaimWaitsForSilence == Spec => ClaimOnlyAfterSilence
<1>1. IInv /\ [Next]_vars =>
        [~account.claimed /\ account'.claimed =>
           account'.last + Timeout <= height]_vars
  <2> SUFFICES ASSUME IInv, [Next]_vars, ~account.claimed, account'.claimed
               PROVE  account'.last + Timeout <= height
    OBVIOUS
  <2>1. ASSUME NEW e \in Executors, CommitTransaction(e)
        PROVE  account'.last + Timeout <= height
    BY <2>1, CommittedResult DEF StepInv
  <2> QED
    BY <2>1, OnlyCommitsChangeTheAccount
<1> QED
  BY <1>1, InvariantHolds, PTL DEF Spec, ClaimOnlyAfterSilence

-----------------------------------------------------------------------------
(* The vault implements InheritanceContract.                               *)

(* The payout notes of an open vault carry nothing.                        *)
LEMMA PaidBeforeAndAfter ==
  ASSUME IInv
  PROVE  /\ ~account.claimed => payouts = {} /\ Paid = 0
         /\ account.claimed => /\ \E p \in payouts : Paid = p.amount
                               /\ Paid > 0
BY DEF IInv, AccountInv, PayoutOnce, Paid

(* A commit is a step of the contract: setup, the start of service,        *)
(* service, or the payout; after the payout it is no step at all.          *)
LEMMA CommitKeepsContract ==
  ASSUME IInv, NEW e \in Executors, CommitTransaction(e)
  PROVE  [Contract!Next]_(Contract!vars)
<1> DEFINE t == tx[e]
<1>1. /\ account \in AccountType /\ account' \in AccountType
      /\ height \in Nat /\ UNCHANGED height
      /\ account' = t.work /\ payouts' = payouts \union t.out
      /\ WorkInv(t, height) /\ StepInv(t, account, height)
  BY CommittedResult
<1>2. IInv'
  BY CommitKeepsInvariant
<1>3. /\ ~account.claimed => Paid = 0 /\ payouts = {}
      /\ ~account'.claimed => Paid' = 0
      /\ account'.claimed => /\ \E p \in payouts' : Paid' = p.amount
                             /\ Paid' > 0
  <2>1. IInv' => /\ ~account'.claimed => Paid' = 0
                 /\ account'.claimed => /\ \E p \in payouts' : Paid' = p.amount
                                        /\ Paid' > 0
    BY DEF IInv, AccountInv, PayoutOnce, Paid
  <2> QED
    BY <1>2, <2>1, PaidBeforeAndAfter
<1> HIDE DEF t
<1>4. CASE account.claimed
  <2>1. account' = account /\ payouts' = payouts
    BY <1>1, <1>4 DEF StepInv
  <2>2. Phase' = Phase /\ Paid' = Paid
    BY <2>1 DEF Phase, Paid
  <2>3. UNCHANGED Contract!vars
    BY <1>1, <2>1, <2>2 DEF Contract!vars
  <2> QED
    BY <2>3
<1>5. CASE ~account.activated /\ ~account.claimed /\ ~account'.activated
  <2>1. ~account'.claimed /\ account'.last = account.last
    BY <1>1, <1>5 DEF StepInv
  <2>2. account'.balance >= account.balance
    BY <1>1, <2>1 DEF StepInv
  <2>3. Contract!SetUp
    BY <1>1, <1>3, <1>5, <2>1, <2>2 DEF Contract!SetUp, Phase
  <2> QED
    BY <2>3 DEF Contract!Next
<1>6. CASE ~account.activated /\ ~account.claimed /\ account'.activated
  <2>1. /\ ~account'.claimed /\ account'.last = account.last
        /\ account'.balance = account.balance
    BY <1>1, <1>6 DEF StepInv, OnlyActivated
  <2>2. Contract!Start
    BY <1>1, <1>3, <1>6, <2>1 DEF Contract!Start, Phase
  <2> QED
    BY <2>2 DEF Contract!Next
<1>7. CASE account.activated /\ ~account.claimed /\ ~account'.claimed
  <2>1. account'.activated /\ account'.balance >= account.balance
    BY <1>1, <1>7 DEF StepInv
  <2>2. account'.last \in account.last..height
    BY <1>1 DEF StepInv, WorkInv, AccountType
  <2>3. Contract!Serve
    BY <1>1, <1>3, <1>7, <2>1, <2>2
    DEF Contract!Serve, Contract!Executes, Phase
  <2> QED
    BY <2>3 DEF Contract!Next
<1>8. CASE account.activated /\ ~account.claimed /\ account'.claimed
  <2>1. /\ account'.balance = 0
        /\ account'.last + Timeout <= height
    BY <1>1, <1>8 DEF StepInv, WorkInv
  <2>2. account'.last \in account.last..height
    BY <1>1 DEF StepInv, WorkInv, AccountType
  <2>3. payouts' = t.out /\ \A p \in t.out : p.amount >= account.balance
    BY <1>1, <1>3, <1>8 DEF StepInv
  <2>4. Paid' >= account.balance /\ Paid' > 0
    BY <1>3, <1>8, <2>3
  <2>5. Phase = "active" /\ Phase' = "closed"
    BY <1>8 DEF Phase
  <2>6. Contract!PayOut
    BY <1>1, <2>1, <2>2, <2>4, <2>5
    DEF Contract!PayOut, Contract!Executes
  <2> QED
    BY <2>6 DEF Contract!Next
<1> QED
  BY <1>4, <1>5, <1>6, <1>7, <1>8

(* The vault keeps the contract stated in InheritanceContract: every       *)
(* behaviour of the notes, executors and races is one of the contract.     *)
THEOREM VaultKeepsContract == Spec => KeepsContract
<1>1. Init => Contract!Init
  BY DEF Init, Contract!Init, Phase, Paid
<1>2. IInv /\ [Next]_vars => [Contract!Next]_(Contract!vars)
  <2> SUFFICES ASSUME IInv, [Next]_vars
               PROVE  [Contract!Next]_(Contract!vars)
    OBVIOUS
  <2>1. CASE UNCHANGED <<height, account, payouts>>
    BY <2>1 DEF Contract!vars, Phase, Paid
  <2>2. CASE /\ height < MaxHeight /\ height' = height + 1
             /\ UNCHANGED <<account, payouts>>
    <3>1. Contract!Tick
      BY <2>2 DEF Contract!Tick, Contract!NextBlock, Phase, Paid
    <3> QED
      BY <3>1 DEF Contract!Next
  <2>3. ASSUME NEW e \in Executors, CommitTransaction(e)
        PROVE  [Contract!Next]_(Contract!vars)
    BY <2>3, CommitKeepsContract
  <2> QED
    BY <2>1, <2>2, <2>3, OnlyCommitsChangeTheAccount
<1> QED
  BY <1>1, <1>2, InvariantHolds, PTL DEF Spec, KeepsContract, Contract!Spec

-----------------------------------------------------------------------------
(* The vault of the commands is this vault.                                *)

(* FeatureCommand has a vault of three fields and executes one note at a   *)
(* time.  Here is its view of the copy an executor works on, with the      *)
(* notes named by themselves; of its processes nothing is meant.           *)
FeatureScripts == {"check_in", "claim", "deposit"}

AsVault(work) ==
  [last |-> work.last, balance |-> work.balance, claimed |-> work.claimed]

AsFeatureNote(n) ==
  [kind |-> IF n.script = "check_in" THEN "heartbeat" ELSE n.script,
   amount |-> n.amount, status |-> "discovered", block |-> 0]

Command(e) == INSTANCE FeatureCommand WITH
  Sessions <- {}, Amounts <- {}, OtherAmounts <- {}, SlowFunding <- TRUE,
  CrashPoints <- {}, MaxBlock <- MaxHeight, MaxNotes <- 0,
  block <- height, vault <- AsVault(tx[e].work),
  notes <- [n \in Notes |-> AsFeatureNote(n)],
  history <- {}, disk <- {}, cli <- {}

(* A procedure ran on an activated copy as the commands take it to.        *)
RunsAsCommanded(e) ==
  LET n == ActiveNote(e) IN
  /\ Command(e)!Executable(n, tx[e].ref)
  /\ AsVault(tx'[e].work) = Command(e)!Effect(n, tx[e].ref)
  /\ {p.amount : p \in tx'[e].out \ tx[e].out} =
       IF n.script = "claim" THEN {tx[e].work.balance} ELSE {}

ProceduresRunAsCommanded ==
  \A e \in Executors :
    /\ Execute(e)
    /\ ActiveNote(e).script \in FeatureScripts
    => RunsAsCommanded(e)

CommandsKnowTheVault == [][ProceduresRunAsCommanded]_vars

(* A procedure's guards and its effect on the copy, in the words of        *)
(* FeatureCommand.                                                         *)
LEMMA CommandGuards ==
  ASSUME NEW e \in Executors, NEW n \in Notes, n.script \in FeatureScripts
  PROVE  Command(e)!Executable(n, tx[e].ref) <=>
           /\ ~tx[e].work.claimed
           /\ n.script = "check_in" => tx[e].ref >= tx[e].work.last
           /\ n.script = "claim" => /\ tx[e].ref >= tx[e].work.last + Timeout
                                    /\ tx[e].work.balance > 0
<1>1. PICK w : w = tx[e].work
  OBVIOUS
<1>2. AsFeatureNote(n).kind =
        IF n.script = "check_in" THEN "heartbeat" ELSE n.script
  BY DEF AsFeatureNote
<1>3. [m \in Notes |-> AsFeatureNote(m)][n] = AsFeatureNote(n)
  OBVIOUS
<1>4. /\ AsVault(w).last = w.last /\ AsVault(w).balance = w.balance
      /\ AsVault(w).claimed = w.claimed
  BY DEF AsVault
<1>5. n.script \in {"check_in", "claim", "deposit"}
  BY DEF FeatureScripts
<1> QED
  BY <1>1, <1>2, <1>3, <1>4, <1>5 DEF Command!Executable

LEMMA CommandEffects ==
  ASSUME NEW e \in Executors, NEW n \in Notes
  PROVE  /\ n.script = "check_in" =>
              Command(e)!Effect(n, tx[e].ref) =
                [last |-> tx[e].ref, balance |-> tx[e].work.balance,
                 claimed |-> tx[e].work.claimed]
         /\ n.script = "claim" =>
              Command(e)!Effect(n, tx[e].ref) =
                [last |-> tx[e].work.last, balance |-> 0, claimed |-> TRUE]
         /\ n.script = "deposit" =>
              Command(e)!Effect(n, tx[e].ref) =
                [last |-> tx[e].work.last,
                 balance |-> tx[e].work.balance + n.amount,
                 claimed |-> tx[e].work.claimed]
<1>1. PICK w : w = tx[e].work
  OBVIOUS
<1>2. PICK v : v = AsVault(w)
  OBVIOUS
<1>3. /\ AsFeatureNote(n).kind =
           IF n.script = "check_in" THEN "heartbeat" ELSE n.script
      /\ AsFeatureNote(n).amount = n.amount
  BY DEF AsFeatureNote
<1>4. [m \in Notes |-> AsFeatureNote(m)][n] = AsFeatureNote(n)
  OBVIOUS
<1>5. PICK r : r = tx[e].ref
  OBVIOUS
<1>6. /\ v = [last |-> w.last, balance |-> w.balance, claimed |-> w.claimed]
      /\ v.balance = w.balance
  BY <1>2 DEF AsVault
<1>7. CASE n.script = "check_in"
  <2>1. Command(e)!Effect(n, r) = [v EXCEPT !.last = r]
    BY <1>1, <1>2, <1>3, <1>4, <1>7 DEF Command!Effect
  <2>2. [v EXCEPT !.last = r] =
          [last |-> r, balance |-> w.balance, claimed |-> w.claimed]
    BY <1>6
  <2> QED
    BY <1>1, <1>5, <1>7, <2>1, <2>2
<1>8. CASE n.script = "claim"
  <2>1. Command(e)!Effect(n, r) = [v EXCEPT !.claimed = TRUE, !.balance = 0]
    BY <1>1, <1>2, <1>3, <1>4, <1>8 DEF Command!Effect
  <2>2. PICK u : u = [v EXCEPT !.claimed = TRUE]
    OBVIOUS
  <2>3. PICK yes : yes = TRUE
    OBVIOUS
  <2>4. u = [last |-> w.last, balance |-> w.balance, claimed |-> yes]
    BY <1>6, <2>2, <2>3
  <2>5. [u EXCEPT !.balance = 0] =
          [last |-> w.last, balance |-> 0, claimed |-> yes]
    BY <2>4
  <2>6. [v EXCEPT !.claimed = TRUE, !.balance = 0] = [u EXCEPT !.balance = 0]
    BY <2>2
  <2> QED
    BY <1>1, <1>5, <1>8, <2>1, <2>3, <2>5, <2>6
<1>9. CASE n.script = "deposit"
  <2>1. Command(e)!Effect(n, r) = [v EXCEPT !.balance = w.balance + n.amount]
    BY <1>1, <1>2, <1>3, <1>4, <1>6, <1>9
    DEF Command!Effect, Command!Credited
  <2>2. [v EXCEPT !.balance = w.balance + n.amount] =
          [last |-> w.last, balance |-> w.balance + n.amount,
           claimed |-> w.claimed]
    BY <1>6
  <2> QED
    BY <1>1, <1>5, <1>9, <2>1, <2>2
<1> QED
  BY <1>7, <1>8, <1>9

LEMMA RunCopy ==
  ASSUME IInv, NEW e \in Executors, tx[e] # NoTx, NEW w, NEW o,
         FinishNote(e, w, o)
  PROVE  tx'[e].work = w /\ tx'[e].out = tx[e].out \union o
<1>1. tx \in [Executors -> TxType \union {NoTx}]
  BY DEF IInv, TypeOK
<1>2. tx'[e] = Finished(tx[e], w, o)
  BY <1>1 DEF FinishNote
<1> QED
  BY <1>2 DEF Finished

LEMMA HeartbeatRunsAsCommanded ==
  ASSUME IInv, NEW e \in Executors, CheckIn(e)
  PROVE  RunsAsCommanded(e)
<1>1. PICK n : n = ActiveNote(e)
  OBVIOUS
<1>2. PICK w : w = [tx[e].work EXCEPT !.last = tx[e].ref]
  OBVIOUS
<1>3. /\ At(e, "check_in") /\ Open(tx[e].work) /\ FinishNote(e, w, {})
      /\ tx[e].ref >= tx[e].work.last
  BY <1>2 DEF CheckIn, NotStale
<1>4. /\ tx[e] # NoTx /\ tx[e].work \in AccountType
      /\ n \in Notes /\ n.script = "check_in"
  BY <1>1, <1>3, InFlight, ActiveNoteIsInput DEF At, ActiveNote, IInv
<1>5. tx'[e].work = w /\ tx'[e].out \ tx[e].out = {}
  BY <1>3, <1>4, RunCopy
<1>6. /\ w.last = tx[e].ref /\ w.balance = tx[e].work.balance
      /\ w.claimed = tx[e].work.claimed
  BY <1>2, <1>4 DEF AccountType
<1>7. Command(e)!Executable(n, tx[e].ref)
  BY <1>3, <1>4, CommandGuards DEF FeatureScripts, Open
<1>8. Command(e)!Effect(n, tx[e].ref) = AsVault(w)
  BY <1>4, <1>6, CommandEffects DEF AsVault
<1>9. {p.amount : p \in tx'[e].out \ tx[e].out} = {}
  BY <1>5
<1> QED
  BY <1>1, <1>4, <1>5, <1>7, <1>8, <1>9 DEF RunsAsCommanded

LEMMA ClaimRunsAsCommanded ==
  ASSUME IInv, NEW e \in Executors, Claim(e)
  PROVE  RunsAsCommanded(e)
<1>1. PICK n : n = ActiveNote(e)
  OBVIOUS
<1>2. PICK w : w = Close(tx[e].work)
  OBVIOUS
<1>3. PICK p : p = [serial |-> n.id, target |-> Beneficiary,
                    amount |-> tx[e].work.balance]
  OBVIOUS
<1>4. /\ At(e, "claim") /\ Open(tx[e].work) /\ FinishNote(e, w, {p})
      /\ tx[e].ref >= tx[e].work.last + Timeout /\ tx[e].work.balance > 0
  BY <1>1, <1>2, <1>3 DEF Claim, Eligible, Deadline
<1>5. /\ tx[e] # NoTx /\ tx[e].work \in AccountType
      /\ n \in Notes /\ n.script = "claim"
  BY <1>1, <1>4, InFlight, ActiveNoteIsInput DEF At, ActiveNote, IInv
<1>6. tx[e].out = {}
  BY <1>4, InFlight DEF TxInv, WorkInv, Open
<1>7. tx'[e].work = w /\ tx'[e].out \ tx[e].out = {p}
  BY <1>4, <1>5, <1>6, RunCopy
<1>8. /\ w.last = tx[e].work.last /\ w.balance = 0 /\ w.claimed = TRUE
  BY <1>2, <1>5 DEF Close, AccountType
<1>9. Command(e)!Executable(n, tx[e].ref)
  BY <1>4, <1>5, CommandGuards DEF FeatureScripts, Open
<1>10. Command(e)!Effect(n, tx[e].ref) = AsVault(w)
  BY <1>5, <1>8, CommandEffects DEF AsVault
<1>11. {q.amount : q \in tx'[e].out \ tx[e].out} = {tx[e].work.balance}
  BY <1>3, <1>7
<1> QED
  BY <1>1, <1>5, <1>7, <1>9, <1>10, <1>11 DEF RunsAsCommanded

LEMMA DepositRunsAsCommanded ==
  ASSUME IInv, NEW e \in Executors, Deposit(e)
  PROVE  RunsAsCommanded(e)
<1>1. PICK n : n = ActiveNote(e)
  OBVIOUS
<1>2. PICK w : w = Credit(tx[e].work, n)
  OBVIOUS
<1>3. At(e, "deposit") /\ Open(tx[e].work) /\ FinishNote(e, w, {})
  BY <1>1, <1>2 DEF Deposit
<1>4. /\ tx[e] # NoTx /\ tx[e].work \in AccountType
      /\ n \in Notes /\ n.script = "deposit"
  BY <1>1, <1>3, InFlight, ActiveNoteIsInput DEF At, ActiveNote, IInv
<1>5. tx'[e].work = w /\ tx'[e].out \ tx[e].out = {}
  BY <1>3, <1>4, RunCopy
<1>6. /\ w.last = tx[e].work.last /\ w.claimed = tx[e].work.claimed
      /\ w.balance = tx[e].work.balance + n.amount
  BY <1>2, <1>4 DEF Credit, AccountType
<1>7. Command(e)!Executable(n, tx[e].ref)
  BY <1>3, <1>4, CommandGuards DEF FeatureScripts, Open
<1>8. Command(e)!Effect(n, tx[e].ref) = AsVault(w)
  BY <1>4, <1>6, CommandEffects DEF AsVault
<1>9. {p.amount : p \in tx'[e].out \ tx[e].out} = {}
  BY <1>5
<1> QED
  BY <1>1, <1>4, <1>5, <1>7, <1>8, <1>9 DEF RunsAsCommanded

(* Whatever bundle a feature note is executed in, by whatever executor and *)
(* on whatever reference block, its script runs only if FeatureCommand     *)
(* takes it to be executable there, and changes and pays what              *)
(* FeatureCommand says: what is proved of the commands on their simpler    *)
(* vault leaves out nothing the contract can do to them.                   *)
THEOREM CommandsKnowWhatRuns == Spec => CommandsKnowTheVault
<1>1. IInv /\ [Next]_vars => [ProceduresRunAsCommanded]_vars
  <2> SUFFICES ASSUME IInv, NEW e \in Executors, Execute(e),
                      ActiveNote(e).script \in FeatureScripts
               PROVE  RunsAsCommanded(e)
    BY DEF ProceduresRunAsCommanded
  <2>1. CheckIn(e) \/ Claim(e) \/ Deposit(e)
    BY DEF Execute, FeatureScripts, Activate, Configure, Sponsor, Receive,
           At, ActiveNote
  <2> QED
    BY <2>1, HeartbeatRunsAsCommanded, ClaimRunsAsCommanded,
       DepositRunsAsCommanded
<1> QED
  BY <1>1, InvariantHolds, PTL DEF Spec, CommandsKnowTheVault

(* And the other way: a note the commands take to be executable is run by  *)
(* the contract, if the right party sent it and it is for this vault; no   *)
(* assertion on the width of a block number stands in the way.             *)
THEOREM CommandsPromiseNoMore ==
  ASSUME IInv, NEW e \in Executors, tx[e] # NoTx, tx[e].work.activated,
         ActiveNote(e) \in Notes,
         Command(e)!Executable(ActiveNote(e), tx[e].ref)
  PROVE  /\ At(e, "check_in") /\ SentBy(e, Owner) =>
              (CheckIn(e) <=>
                 FinishNote(e, [tx[e].work EXCEPT !.last = tx[e].ref], {}))
         /\ At(e, "claim") /\ SentBy(e, Beneficiary) =>
              (Claim(e) <=>
                 FinishNote(e, Close(tx[e].work),
                   {[serial |-> ActiveNote(e).id, target |-> Beneficiary,
                     amount |-> tx[e].work.balance]}))
         /\ At(e, "deposit") /\ ForThisVault(e)
              /\ OnlyConfiguredAsset(ActiveNote(e)) =>
              (Deposit(e) <=>
                 FinishNote(e, Credit(tx[e].work, ActiveNote(e)), {}))
<1>1. ASSUME ActiveNote(e).script \in FeatureScripts
      PROVE  /\ Open(tx[e].work)
             /\ ActiveNote(e).script = "check_in" => NotStale(e)
             /\ ActiveNote(e).script = "claim" =>
                  /\ tx[e].ref >= Deadline(tx[e].work.last)
                  /\ tx[e].work.balance > 0
  BY <1>1, CommandGuards DEF Open, NotStale, Deadline
<1>2. CASE At(e, "check_in")
  <2>1. ActiveNote(e).script = "check_in"
    BY <1>2 DEF At, ActiveNote
  <2> QED
    BY <1>1, <1>2, <2>1 DEF FeatureScripts, CheckIn, At
<1>3. CASE At(e, "claim")
  <2>1. ActiveNote(e).script = "claim"
    BY <1>3 DEF At, ActiveNote
  <2>2. tx[e].work.last <= height /\ tx[e].work.last \in Nat /\ height \in Nat
    BY <1>3, InFlight DEF TxInv, WorkInv, AccountType
  <2>3. tx[e].work.last <= U32Max
    BY <2>2, TimeAssumption DEF IInv, TypeOK
  <2>4. Eligible(tx[e].ref, tx[e].work.last)
    BY <1>1, <2>1, <2>3, TimeAssumption DEF FeatureScripts, Eligible
  <2> QED
    BY <1>1, <1>3, <2>1, <2>4 DEF FeatureScripts, Claim, At
<1>4. CASE At(e, "deposit")
  <2>1. ActiveNote(e).script = "deposit"
    BY <1>4 DEF At, ActiveNote
  <2> QED
    BY <1>1, <1>4, <2>1 DEF FeatureScripts, Deposit, At
<1> QED
  BY <1>2, <1>3, <1>4
=============================================================================
