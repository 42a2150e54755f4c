------------------------ MODULE FeatureCommand_proofs ------------------------
(***************************************************************************)
(* What the feature commands guarantee for any number of processes, notes, *)
(* blocks and crashes, what only a single patient process guarantees, and  *)
(* when the messages of a command can be believed.                         *)
(***************************************************************************)
EXTENDS FeatureCommand, WellFoundedInduction, TLAPS

-----------------------------------------------------------------------------
(* The inductive invariant: a process and the file know only notes that    *)
(* are on chain, and what they conclude from a note stays true of it.      *)

Undecided == {"submitted", "dropped"}

OnRecord(n, k) ==
  n \in Published /\ notes[n].kind = k /\ notes[n].status \notin Undecided

Drained == vault.claimed /\ vault.balance = 0

RealPayout(n) ==
  n # 0 => Drained /\ \E t \in history : t.note = n /\ t.payout > 0

SoundConfig(c) ==
  /\ \A k \in Kinds : c.pending[k] # 0 => OnRecord(c.pending[k], k)
  /\ RealPayout(c.payout)

Executed(n) == n \in Published /\ notes[n].status = "executed"

SoundSession(x) ==
  /\ SoundConfig(x.config)
  /\ x.stage # "idle" => x.verdict = "none"
  /\ x.stage \in {"funding", "waiting", "polling", "executed", "payout"} =>
       x.note \in Published /\ notes[x.note].kind = x.kind
  /\ x.stage \in {"executed", "payout"} => Executed(x.note)
  /\ x.verdict = "success" => Executed(x.note)

SoundChain ==
  /\ \A n \in Published : notes[n].block <= block
  /\ \A n \in Published :
       notes[n].status = "executed" =>
         \E t \in history : t.note = n /\ t.block > notes[n].block
  /\ \A t \in history : t.payout > 0 => Drained

IInv ==
  /\ TypeOK
  /\ SoundChain
  /\ SoundConfig(disk)
  /\ \A s \in Sessions : SoundSession(cli[s])

-----------------------------------------------------------------------------
(* Lemmas about data.                                                      *)

(* A set of numbers with an upper bound has a maximum.                     *)
LEMMA BoundedMax ==
  ASSUME NEW h \in Nat, NEW S, S \subseteq 0..h, S # {}
  PROVE  Max(S) \in S
<1> DEFINE T == {h - b : b \in S}
<1>1. T \subseteq Nat /\ T # {}
  <2>1. \A b \in 0..h : h - b \in Nat
    OBVIOUS
  <2>2. \A b \in S : h - b \in Nat
    BY <2>1
  <2>3. PICK b \in S : TRUE
    OBVIOUS
  <2>4. h - b \in T
    BY <2>3
  <2> QED
    BY <2>2, <2>4
<1>2. PICK m \in T : \A y \in T : <<y, m>> \notin OpToRel(<, Nat)
  BY <1>1, NatLessThanWellFounded, WFMin
<1>3. \A y \in T : ~(y < m)
  BY <1>1, <1>2 DEF OpToRel
<1>4. PICK x \in S : m = h - x
  OBVIOUS
<1>5. \A y \in S : x >= y
  <2> SUFFICES ASSUME NEW y \in S PROVE x >= y
    OBVIOUS
  <2>1. ~(h - y < h - x)
    BY <1>3, <1>4
  <2> QED
    BY <2>1
<1> QED
  BY <1>5 DEF Max

(* A process that does nothing else knows nothing.                         *)
LEMMA IdleKnowsNothing ==
  /\ EmptyConfig \in ConfigType /\ SoundConfig(EmptyConfig)
  /\ FreshVault \in VaultType
  /\ Idle \in SessionType
<1>1. EmptyConfig \in ConfigType
  BY DEF EmptyConfig, ConfigType
<1>2. SoundConfig(EmptyConfig)
  BY DEF EmptyConfig, SoundConfig, RealPayout
<1>3. FreshVault \in VaultType
  BY DEF FreshVault, VaultType
<1> QED
  BY <1>1, <1>2, <1>3 DEF Idle, SessionType, Stages, Kinds

LEMMA InitHolds == Init => IInv
<1> SUFFICES ASSUME Init PROVE IInv
  OBVIOUS
<1>1. notes = <<>> /\ Published = {}
  BY DEF Init, Published
<1>2. TypeOK
  <2>1. cli \in [Sessions -> SessionType]
    BY IdleKnowsNothing DEF Init
  <2>2. notes \in Seq(FeatureNoteType)
    BY <1>1
  <2> QED
    BY <2>1, <2>2, IdleKnowsNothing, BoundAssumption DEF Init, TypeOK
<1>3. SoundChain
  BY <1>1 DEF SoundChain, Init
<1>4. SoundSession(Idle)
  BY IdleKnowsNothing DEF SoundSession, Idle
<1> QED
  BY <1>2, <1>3, <1>4, IdleKnowsNothing DEF IInv, Init

-----------------------------------------------------------------------------
(* Steps of a process that leave the chain alone.                          *)

(* One process changes to x, and the file to c: if both are sound on the   *)
(* chain as it is, the invariant holds on.                                 *)
LEMMA ProcessStep ==
  ASSUME IInv, NEW s \in Sessions, UNCHANGED chain,
         NEW x \in SessionType, SoundSession(x),
         cli' = [cli EXCEPT ![s] = x],
         disk' \in ConfigType, NEW c, disk' = c, SoundConfig(c)
  PROVE  IInv'
<1>1. cli \in [Sessions -> SessionType]
  BY DEF IInv, TypeOK
<1>2. /\ cli' \in [Sessions -> SessionType]
      /\ \A r \in Sessions : cli'[r] = x \/ cli'[r] = cli[r]
  BY <1>1
<1>3. /\ block' = block /\ vault' = vault
      /\ notes' = notes /\ history' = history
  BY DEF chain
<1>4. TypeOK'
  BY <1>2, <1>3 DEF IInv, TypeOK
<1>5. SoundChain'
  BY <1>3 DEF IInv, SoundChain, Published, Drained
<1>6. SoundConfig(disk)'
  BY <1>3 DEF SoundConfig, OnRecord, RealPayout, Published, Drained
<1>7. ASSUME NEW r \in Sessions PROVE SoundSession(cli[r])'
  <2> DEFINE y == cli'[r]
  <2>1. SoundSession(y)
    BY <1>2 DEF IInv
  <2> QED
    BY <2>1, <1>3 DEF SoundSession, SoundConfig, OnRecord, RealPayout,
                      Executed, Published, Drained
<1> QED
  BY <1>4, <1>5, <1>6, <1>7 DEF IInv

(* The common case: the file stays as it is.                               *)
LEMMA QuietStep ==
  ASSUME IInv, NEW s \in Sessions, UNCHANGED <<chain, disk>>,
         NEW x \in SessionType, SoundSession(x),
         cli' = [cli EXCEPT ![s] = x]
  PROVE  IInv'
<1>1. disk' = disk /\ UNCHANGED chain
  OBVIOUS
<1>2. disk \in ConfigType /\ SoundConfig(disk)
  BY DEF IInv, TypeOK
<1> QED
  BY <1>1, <1>2, ProcessStep

(* What an ended process leaves is sound unless it claims a success it did *)
(* not have.                                                               *)
LEMMA EndedProcess ==
  ASSUME NEW v \in {"none", "refused", "pending", "undecided", "gave_up",
                    "wrong_amount", "wrong", "no_payout", "crashed",
                    "success"},
         NEW n \in Nat, v = "success" => Executed(n)
  PROVE  /\ [Idle EXCEPT !.note = n, !.verdict = v] \in SessionType
         /\ SoundSession([Idle EXCEPT !.note = n, !.verdict = v])
<1> DEFINE x == [Idle EXCEPT !.note = n, !.verdict = v]
<1>1. x \in SessionType
  BY IdleKnowsNothing DEF SessionType, Stages, Kinds, Idle
<1>2. /\ x.config = EmptyConfig /\ x.stage = "idle"
      /\ x.verdict = v /\ x.note = n
  BY DEF Idle
<1>3. SoundSession(x)
  BY <1>2, IdleKnowsNothing DEF SoundSession
<1> QED
  BY <1>1, <1>3

LEMMA ReportKeepsInvariant ==
  ASSUME IInv, NEW s \in Sessions, UNCHANGED <<chain, disk>>,
         NEW v \in {"refused", "pending", "undecided", "gave_up",
                    "wrong_amount", "wrong", "no_payout", "crashed"},
         NEW n \in Nat, Report(s, v, n)
  PROVE  IInv'
<1> DEFINE x == [Idle EXCEPT !.note = n, !.verdict = v]
<1>1. x \in SessionType /\ SoundSession(x)
  BY EndedProcess
<1>2. cli' = [cli EXCEPT ![s] = x]
  BY DEF Report
<1> QED
  BY <1>1, <1>2, QuietStep

LEMMA ExitKeepsInvariant ==
  ASSUME IInv, NEW s \in Sessions, UNCHANGED <<chain, disk>>,
         NEW v \in {"refused", "pending", "undecided", "gave_up",
                    "wrong_amount", "wrong", "no_payout", "crashed"},
         Exit(s, v)
  PROVE  IInv'
<1>1. cli[s].note \in Nat
  BY DEF IInv, TypeOK, SessionType
<1>2. Report(s, v, cli[s].note)
  BY DEF Exit
<1> QED
  BY <1>1, <1>2, ReportKeepsInvariant

LEMMA LaunchKeepsInvariant ==
  ASSUME IInv, NEW s \in Sessions,
         NEW kind \in Kinds, NEW amount \in Nat, Launch(s, kind, amount)
  PROVE  IInv'
<1> DEFINE x == [Idle EXCEPT !.stage = "launched", !.kind = kind,
                             !.amount = amount, !.config = disk]
<1>1. disk \in ConfigType /\ SoundConfig(disk)
  BY DEF IInv, TypeOK
<1>2. x \in SessionType
  BY <1>1, IdleKnowsNothing DEF SessionType, Stages, Idle
<1>3. x.stage = "launched" /\ x.verdict = "none" /\ x.config = disk
  BY DEF Idle
<1>4. SoundSession(x)
  BY <1>1, <1>3 DEF SoundSession
<1>5. cli' = [cli EXCEPT ![s] = x] /\ UNCHANGED <<chain, disk>>
  BY DEF Launch, Loaded
<1> QED
  BY <1>2, <1>4, <1>5, QuietStep

LEMMA PreflightKeepsInvariant ==
  ASSUME IInv, NEW s \in Sessions, Preflight(s)
  PROVE  IInv'
<1> DEFINE x == [cli[s] EXCEPT !.stage = "checked", !.before = vault]
<1>1. cli[s] \in SessionType /\ vault \in VaultType /\ SoundSession(cli[s])
  BY DEF IInv, TypeOK
<1>2. x \in SessionType
  BY <1>1 DEF SessionType, Stages
<1>3. /\ x.stage = "checked" /\ x.kind = cli[s].kind
      /\ x.note = cli[s].note /\ x.verdict = cli[s].verdict
      /\ x.config = cli[s].config
  BY <1>1 DEF SessionType
<1>4. cli[s].stage = "launched"
  BY DEF Preflight
<1>5. SoundSession(x)
  BY <1>1, <1>3, <1>4 DEF SoundSession
<1>6. cli' = [cli EXCEPT ![s] = x] /\ UNCHANGED <<chain, disk>>
  BY <1>1 DEF Preflight
<1> QED
  BY <1>2, <1>5, <1>6, QuietStep

LEMMA RefusalKeepsInvariant ==
  ASSUME IInv, NEW s \in Sessions, Refuse(s) \/ RefuseDuplicate(s)
  PROVE  IInv'
<1>1. PendingNote(s) \in Nat
  BY DEF IInv, TypeOK, SessionType, ConfigType, PendingNote
<1>2. CASE Refuse(s)
  BY <1>2, ExitKeepsInvariant DEF Refuse
<1>3. CASE RefuseDuplicate(s)
  BY <1>1, <1>3, ReportKeepsInvariant DEF RefuseDuplicate
<1> QED
  BY <1>2, <1>3

LEMMA EndingKeepsInvariant ==
  ASSUME IInv, NEW s \in Sessions,
         \/ GiveUpFunding(s) \/ TimeOut(s) \/ NoteDiscarded(s)
         \/ WrongResult(s) \/ PayoutMissing(s) \/ Crash(s)
  PROVE  IInv'
<1>1. CASE GiveUpFunding(s)
  BY <1>1, ExitKeepsInvariant DEF GiveUpFunding
<1>2. CASE TimeOut(s)
  BY <1>2, ExitKeepsInvariant DEF TimeOut
<1>3. CASE NoteDiscarded(s)
  BY <1>3, ExitKeepsInvariant DEF NoteDiscarded
<1>4. CASE WrongResult(s)
  <2>1. Exit(s, "wrong_amount") \/ Exit(s, "wrong")
    BY <1>4 DEF WrongResult
  <2>2. UNCHANGED <<chain, disk>>
    BY <1>4 DEF WrongResult
  <2> QED
    BY <2>1, <2>2, ExitKeepsInvariant
<1>5. CASE PayoutMissing(s)
  BY <1>5, ExitKeepsInvariant DEF PayoutMissing
<1>6. CASE Crash(s)
  BY <1>6, ExitKeepsInvariant DEF Crash
<1> QED
  BY <1>1, <1>2, <1>3, <1>4, <1>5, <1>6

(* The note goes on record once it is on chain.                            *)
LEMMA RecordPendingKeepsInvariant ==
  ASSUME IInv, NEW s \in Sessions, RecordPending(s)
  PROVE  IInv'
<1> DEFINE c == [cli[s].config EXCEPT !.pending[cli[s].kind] = cli[s].note]
           x == [cli[s] EXCEPT !.stage = "waiting", !.config = c]
<1>1. cli[s] \in SessionType /\ SoundSession(cli[s])
  BY DEF IInv, TypeOK
<1>2. /\ cli[s].stage = "funding" /\ FundingCommitted(cli[s].note)
      /\ disk' = c /\ cli' = [cli EXCEPT ![s] = x] /\ UNCHANGED chain
  BY <1>1 DEF RecordPending
<1>3. /\ cli[s].config \in ConfigType /\ cli[s].kind \in Kinds
      /\ cli[s].note \in Nat
  BY <1>1 DEF SessionType
<1>4. /\ c \in ConfigType /\ c.payout = cli[s].config.payout
      /\ \A k \in Kinds : c.pending[k] =
           IF k = cli[s].kind THEN cli[s].note ELSE cli[s].config.pending[k]
  BY <1>3 DEF ConfigType
<1>5. OnRecord(cli[s].note, cli[s].kind)
  BY <1>1, <1>2 DEF SoundSession, OnRecord, FundingCommitted, Undecided
<1>6. SoundConfig(c)
  BY <1>1, <1>4, <1>5 DEF SoundSession, SoundConfig
<1>7. x \in SessionType
  BY <1>1, <1>4 DEF SessionType, Stages
<1>8. /\ x.stage = "waiting" /\ x.kind = cli[s].kind
      /\ x.note = cli[s].note /\ x.verdict = cli[s].verdict
      /\ x.config = c
  BY <1>1 DEF SessionType
<1>9. SoundSession(x)
  BY <1>1, <1>2, <1>6, <1>8 DEF SoundSession
<1> QED
  BY <1>2, <1>4, <1>6, <1>7, <1>9, ProcessStep

LEMMA PollingKeepsInvariant ==
  ASSUME IInv, NEW s \in Sessions, ReadHeader(s) \/ PollAgain(s)
  PROVE  IInv'
<1>1. /\ cli[s] \in SessionType /\ SoundSession(cli[s])
      /\ block \in Nat
  BY BoundAssumption DEF IInv, TypeOK
<1>2. CASE ReadHeader(s)
  <2> DEFINE x == [cli[s] EXCEPT !.stage = "polling", !.header = block]
  <2>1. /\ cli[s].stage = "waiting" /\ cli' = [cli EXCEPT ![s] = x]
        /\ UNCHANGED <<chain, disk>>
    BY <1>1, <1>2 DEF ReadHeader
  <2>2. x \in SessionType
    BY <1>1 DEF SessionType, Stages
  <2>3. /\ x.stage = "polling" /\ x.kind = cli[s].kind
        /\ x.note = cli[s].note /\ x.verdict = cli[s].verdict
        /\ x.config = cli[s].config
    BY <1>1 DEF SessionType
  <2>4. SoundSession(x)
    BY <1>1, <2>1, <2>3 DEF SoundSession
  <2> QED
    BY <2>1, <2>2, <2>4, QuietStep
<1>3. CASE PollAgain(s)
  <2> DEFINE x == [cli[s] EXCEPT !.stage = "waiting"]
  <2>1. /\ cli[s].stage = "polling" /\ cli' = [cli EXCEPT ![s] = x]
        /\ UNCHANGED <<chain, disk>>
    BY <1>1, <1>3 DEF PollAgain, Continue
  <2>2. x \in SessionType
    BY <1>1 DEF SessionType, Stages
  <2>3. /\ x.stage = "waiting" /\ x.kind = cli[s].kind
        /\ x.note = cli[s].note /\ x.verdict = cli[s].verdict
        /\ x.config = cli[s].config
    BY <1>1 DEF SessionType
  <2>4. SoundSession(x)
    BY <1>1, <2>1, <2>3 DEF SoundSession
  <2> QED
    BY <2>1, <2>2, <2>4, QuietStep
<1> QED
  BY <1>2, <1>3

(* Whatever block the execution is attributed to, the note was executed.   *)
LEMMA AttributeKeepsInvariant ==
  ASSUME IInv, NEW s \in Sessions, Attribute(s)
  PROVE  IInv'
<1> DEFINE n == cli[s].note
           found == {t.block : t \in {h \in history :
                       h.block >= notes[n].block /\ h.block <= cli[s].header}}
           from == IF found = {} THEN block ELSE Max(found)
           x == [cli[s] EXCEPT !.stage = "executed", !.from = from]
<1>1. /\ cli[s] \in SessionType /\ SoundSession(cli[s])
      /\ block \in Nat /\ history \subseteq VaultTxType
      /\ cli[s].header \in Nat
  BY BoundAssumption DEF IInv, TypeOK, SessionType
<1>2. /\ cli[s].stage = "polling" /\ NullifierCommitted(n)
      /\ cli' = [cli EXCEPT ![s] = x] /\ UNCHANGED <<chain, disk>>
  BY <1>1 DEF Attribute
<1>3. found \subseteq 0..cli[s].header
  BY <1>1 DEF VaultTxType
<1>4. from \in Nat
  <2>1. CASE found = {}
    BY <1>1, <2>1
  <2>2. CASE found # {}
    <3>1. Max(found) \in found
      BY <1>1, <1>3, <2>2, BoundedMax
    <3> QED
      BY <1>1, <1>3, <2>2, <3>1
  <2> QED
    BY <2>1, <2>2
<1> HIDE DEF from
<1>5. x \in SessionType
  BY <1>1, <1>4 DEF SessionType, Stages
<1>6. /\ x.stage = "executed" /\ x.kind = cli[s].kind /\ x.note = n
      /\ x.verdict = cli[s].verdict /\ x.config = cli[s].config
  BY <1>1 DEF SessionType
<1>7. n \in Published /\ notes[n].kind = cli[s].kind
  BY <1>1, <1>2 DEF SoundSession
<1>8. Executed(n)
  BY <1>2, <1>7 DEF Executed, NullifierCommitted
<1>9. SoundSession(x)
  BY <1>1, <1>2, <1>6, <1>7, <1>8 DEF SoundSession
<1> QED
  BY <1>2, <1>5, <1>9, QuietStep

LEMMA LookForPayoutKeepsInvariant ==
  ASSUME IInv, NEW s \in Sessions, LookForPayout(s)
  PROVE  IInv'
<1> DEFINE x == [cli[s] EXCEPT !.stage = "payout"]
<1>1. cli[s] \in SessionType /\ SoundSession(cli[s])
  BY DEF IInv, TypeOK
<1>2. /\ cli[s].stage = "executed" /\ cli' = [cli EXCEPT ![s] = x]
      /\ UNCHANGED <<chain, disk>>
  BY <1>1 DEF LookForPayout, Continue
<1>3. x \in SessionType
  BY <1>1 DEF SessionType, Stages
<1>4. /\ x.stage = "payout" /\ x.kind = cli[s].kind
      /\ x.note = cli[s].note /\ x.verdict = cli[s].verdict
      /\ x.config = cli[s].config
  BY <1>1 DEF SessionType
<1>5. SoundSession(x)
  BY <1>1, <1>2, <1>4 DEF SoundSession
<1> QED
  BY <1>2, <1>3, <1>5, QuietStep

(* The process wrote the file from its own copy, so what it writes is as   *)
(* sound as the copy, whatever other processes wrote meanwhile.            *)
LEMMA FinishKeepsInvariant ==
  ASSUME IInv, NEW s \in Sessions, cli[s].stage \in {"executed", "payout"},
         NEW n \in Nat, RealPayout(n), Finish(s, n)
  PROVE  IInv'
<1> DEFINE c == [pending |-> [cli[s].config.pending EXCEPT ![cli[s].kind] = 0],
                 payout |-> n]
           x == [Idle EXCEPT !.note = cli[s].note, !.verdict = "success"]
<1>1. cli[s] \in SessionType /\ SoundSession(cli[s])
  BY DEF IInv, TypeOK
<1>2. disk' = c /\ cli' = [cli EXCEPT ![s] = x] /\ UNCHANGED chain
  BY DEF Finish, Exit, Report
<1>3. cli[s].config \in ConfigType /\ cli[s].kind \in Kinds
      /\ cli[s].note \in Nat
  BY <1>1 DEF SessionType
<1>4. /\ c \in ConfigType /\ c.payout = n
      /\ \A k \in Kinds :
           c.pending[k] = 0 \/ c.pending[k] = cli[s].config.pending[k]
  BY <1>3 DEF ConfigType
<1>5. SoundConfig(c)
  BY <1>1, <1>4 DEF SoundSession, SoundConfig
<1>6. Executed(cli[s].note)
  BY <1>1 DEF SoundSession
<1>7. x \in SessionType /\ SoundSession(x)
  BY <1>3, <1>6, EndedProcess
<1> QED
  BY <1>2, <1>4, <1>5, <1>7, ProcessStep

LEMMA CompletionKeepsInvariant ==
  ASSUME IInv, NEW s \in Sessions, Complete(s) \/ CompleteClaim(s)
  PROVE  IInv'
<1>1. CASE Complete(s)
  <2>1. cli[s].config \in ConfigType /\ SoundConfig(cli[s].config)
    BY DEF IInv, TypeOK, SessionType, SoundSession
  <2>2. cli[s].config.payout \in Nat /\ RealPayout(cli[s].config.payout)
    BY <2>1 DEF ConfigType, SoundConfig
  <2>3. cli[s].stage = "executed" /\ Finish(s, cli[s].config.payout)
    BY <1>1 DEF Complete
  <2> QED
    BY <2>2, <2>3, FinishKeepsInvariant
<1>2. CASE CompleteClaim(s)
  <2>1. PICK t \in FoundPayouts(s) : Finish(s, t.note)
    BY <1>2 DEF CompleteClaim
  <2>2. t \in history /\ t.payout > 0
    BY <2>1 DEF FoundPayouts
  <2>3. t.note \in Nat
    BY <2>2 DEF IInv, TypeOK, VaultTxType
  <2>4. RealPayout(t.note)
    BY <2>2 DEF IInv, SoundChain, RealPayout
  <2>5. cli[s].stage = "payout"
    BY <1>2 DEF CompleteClaim
  <2> QED
    BY <2>1, <2>3, <2>4, <2>5, FinishKeepsInvariant
<1> QED
  BY <1>1, <1>2

-----------------------------------------------------------------------------
(* Steps of the chain.                                                     *)

(* What any process has learnt stays true: notes and history only grow, a  *)
(* decided note stays decided, an executed one executed, a drained vault   *)
(* drained.                                                                *)
Grown ==
  /\ Len(notes') >= Len(notes)
  /\ \A n \in Published :
       /\ notes'[n].kind = notes[n].kind
       /\ notes[n].status \notin Undecided => notes'[n].status \notin Undecided
       /\ notes[n].status = "executed" => notes'[n].status = "executed"
  /\ history \subseteq history'
  /\ Drained => Drained'

LEMMA GrownKeepsInvariant ==
  ASSUME IInv, Grown, TypeOK', SoundChain', UNCHANGED disk,
         \A r \in Sessions : cli'[r] = cli[r] \/ SoundSession(cli[r])'
  PROVE  IInv'
<1>1. Published \subseteq Published'
  <2>1. Len(notes) \in Nat /\ Len(notes') \in Nat
    BY DEF IInv, TypeOK
  <2> QED
    BY <2>1 DEF Grown, Published
<1>2. \A n, k : OnRecord(n, k) => OnRecord(n, k)'
  BY <1>1 DEF OnRecord, Grown
<1>3. \A n : Executed(n) => Executed(n)'
  BY <1>1 DEF Executed, Grown
<1>4. \A n : RealPayout(n) => RealPayout(n)'
  BY DEF RealPayout, Grown
<1>5. SoundConfig(disk)'
  BY <1>2, <1>4 DEF IInv, SoundConfig, OnRecord, RealPayout
<1>6. ASSUME NEW r \in Sessions PROVE SoundSession(cli[r])'
  <2>1. CASE cli'[r] = cli[r]
    <3>0. PICK y : y = cli'[r]
      OBVIOUS
    <3>1. SoundSession(y)
      BY <2>1, <3>0 DEF IInv
    <3>2. \A k \in Kinds : y.config.pending[k] # 0 =>
            OnRecord(y.config.pending[k], k)'
      BY <3>1, <1>2 DEF SoundSession, SoundConfig, OnRecord
    <3>3. RealPayout(y.config.payout)'
      BY <3>1, <1>4 DEF SoundSession, SoundConfig, RealPayout
    <3>4. y.stage \in {"funding", "waiting", "polling", "executed", "payout"}
            => y.note \in Published' /\ notes'[y.note].kind = y.kind
      BY <3>1, <1>1 DEF SoundSession, Grown
    <3>5. y.stage \in {"executed", "payout"} \/ y.verdict = "success" =>
            y.note \in Published' /\ notes'[y.note].status = "executed"
      BY <3>1, <1>3 DEF SoundSession, Executed
    <3>6. y.stage # "idle" => y.verdict = "none"
      BY <3>1 DEF SoundSession
    <3> QED
      BY <3>0, <3>2, <3>3, <3>4, <3>5, <3>6
      DEF SoundSession, SoundConfig, OnRecord, RealPayout, Executed
  <2> QED
    BY <2>1
<1> QED
  BY <1>5, <1>6 DEF IInv

(* The chain moves while every process stays where it is.                  *)
LEMMA ChainStep ==
  ASSUME IInv, Grown, UNCHANGED <<disk, cli>>, SoundChain',
         block' \in 0..MaxBlock, vault' \in VaultType,
         notes' \in Seq(FeatureNoteType), history' \subseteq VaultTxType
  PROVE  IInv'
<1>1. TypeOK'
  BY DEF IInv, TypeOK
<1> QED
  BY <1>1, GrownKeepsInvariant

LEMMA MarkedNotes ==
  ASSUME TypeOK, NEW n \in Published, NEW status \in Statuses,
         MarkNote(n, status)
  PROVE  /\ notes' \in Seq(FeatureNoteType) /\ Len(notes') = Len(notes)
         /\ notes'[n].status = status
         /\ notes'[n].amount = notes[n].amount
         /\ \A i \in Published : /\ notes'[i].kind = notes[i].kind
                                 /\ notes'[i].block = notes[i].block
                                 /\ i # n => notes'[i] = notes[i]
<1>1. notes \in Seq(FeatureNoteType) /\ n \in 1..Len(notes)
  BY DEF TypeOK, Published
<1>2. notes[n] \in FeatureNoteType
  BY <1>1
<1> DEFINE new == [notes[n] EXCEPT !.status = status]
<1>3. /\ new \in FeatureNoteType /\ new.status = status
      /\ new.kind = notes[n].kind /\ new.block = notes[n].block
      /\ new.amount = notes[n].amount
  BY <1>2 DEF FeatureNoteType
<1>4. notes' = [notes EXCEPT ![n] = new]
  BY <1>1, <1>2 DEF MarkNote
<1> HIDE DEF new
<1>5. notes' \in Seq(FeatureNoteType) /\ Len(notes') = Len(notes)
  BY <1>1, <1>3, <1>4
<1>6. notes'[n] = new /\ \A i \in 1..Len(notes) : i # n => notes'[i] = notes[i]
  BY <1>1, <1>4
<1> QED
  BY <1>3, <1>5, <1>6 DEF Published

(* A note changes its status without being executed.                       *)
LEMMA StatusKeepsInvariant ==
  ASSUME IInv, NEW n \in Published,
         DropFunding(n) \/ Discover(n) \/ Discard(n)
  PROVE  IInv'
<1>1. /\ TypeOK /\ SoundChain
      /\ UNCHANGED <<block, vault, history, disk, cli>>
  BY DEF IInv, DropFunding, Discover, Discard
<1>2. PICK status \in {"dropped", "discovered", "discarded"} :
        /\ MarkNote(n, status)
        /\ notes[n].status # "executed"
        /\ notes[n].status \in Undecided \/ status \notin Undecided
  BY DEF DropFunding, Discover, Discard, Undecided
<1>3. status \in Statuses
  BY DEF Statuses
<1>4. /\ notes' \in Seq(FeatureNoteType) /\ Len(notes') = Len(notes)
      /\ notes'[n].status = status
      /\ \A i \in Published : /\ notes'[i].kind = notes[i].kind
                              /\ notes'[i].block = notes[i].block
                              /\ i # n => notes'[i] = notes[i]
  BY <1>1, <1>2, <1>3, MarkedNotes
<1>5. Grown
  <2>1. Len(notes') >= Len(notes)
    BY <1>1, <1>4 DEF TypeOK
  <2> QED
    BY <2>1, <1>1, <1>2, <1>4 DEF Grown, Drained, Published
<1>6. SoundChain'
  BY <1>1, <1>2, <1>4 DEF SoundChain, Published, Drained
<1> QED
  BY <1>1, <1>4, <1>5, <1>6, ChainStep DEF TypeOK

LEMMA CommitFundingKeepsInvariant ==
  ASSUME IInv, NEW n \in Published, CommitFunding(n)
  PROVE  IInv'
<1>1. /\ TypeOK /\ SoundChain /\ block \in 0..MaxBlock
      /\ notes \in Seq(FeatureNoteType) /\ n \in 1..Len(notes)
  BY DEF IInv, TypeOK, Published
<1>2. /\ notes[n].status = "submitted" /\ block < MaxBlock
      /\ block' = block + 1 /\ UNCHANGED <<vault, history, disk, cli>>
  BY DEF CommitFunding
<1>3. notes[n] \in FeatureNoteType /\ block + 1 \in Nat
  BY <1>1, BoundAssumption
<1> DEFINE new == [notes[n] EXCEPT !.status = "committed",
                                   !.block = block + 1]
<1>4. /\ new \in FeatureNoteType /\ new.status = "committed"
      /\ new.kind = notes[n].kind /\ new.block = block + 1
  BY <1>3 DEF FeatureNoteType, Statuses
<1>5. notes' = [notes EXCEPT ![n] = new]
  BY <1>1, <1>3 DEF CommitFunding
<1> HIDE DEF new
<1>6. notes' \in Seq(FeatureNoteType) /\ Len(notes') = Len(notes)
  BY <1>1, <1>4, <1>5
<1>7. notes'[n] = new /\ \A i \in 1..Len(notes) : i # n => notes'[i] = notes[i]
  BY <1>1, <1>5
<1>8. Grown
  <2>1. Len(notes') >= Len(notes)
    BY <1>1, <1>6
  <2> QED
    BY <2>1, <1>2, <1>4, <1>7 DEF Grown, Drained, Published, Undecided
<1>9. SoundChain'
  <2>1. ASSUME NEW i \in 1..Len(notes) PROVE notes'[i].block <= block'
    <3>1. notes[i] \in FeatureNoteType /\ notes[i].block <= block
      BY <1>1 DEF SoundChain, Published
    <3>2. /\ block \in Nat /\ notes[i].block \in Nat
          /\ notes[i].block <= block + 1
      BY <3>1, <1>1, BoundAssumption DEF FeatureNoteType
    <3>3. CASE i = n
      BY <3>2, <3>3, <1>2, <1>4, <1>7
    <3>4. CASE i # n
      BY <3>2, <3>4, <1>2, <1>7
    <3> QED
      BY <3>3, <3>4
  <2> QED
    BY <2>1, <1>1, <1>2, <1>4, <1>6, <1>7 DEF SoundChain, Published, Drained
<1>10. block' \in 0..MaxBlock
  BY <1>1, <1>2, BoundAssumption
<1> QED
  BY <1>1, <1>2, <1>6, <1>8, <1>9, <1>10, ChainStep DEF TypeOK

(* A block with a stranger's deposit, or without anything.                 *)
LEMMA OtherBlockKeepsInvariant ==
  ASSUME IInv,
         EmptyBlock \/ \E amount \in OtherAmounts : OtherDeposit(amount)
  PROVE  IInv'
<1>1. /\ TypeOK /\ SoundChain /\ block \in 0..MaxBlock /\ vault \in VaultType
      /\ notes \in Seq(FeatureNoteType) /\ history \subseteq VaultTxType
  BY DEF IInv, TypeOK
<1>2. /\ block < MaxBlock /\ block' = block + 1
      /\ UNCHANGED <<notes, disk, cli>>
  BY DEF EmptyBlock, OtherDeposit, NewVaultBlock
<1>3. block' \in 0..MaxBlock
  BY <1>1, <1>2, BoundAssumption
<1>4. \A n \in Published : notes[n].block <= block'
  <2>1. ASSUME NEW n \in Published PROVE notes[n].block <= block'
    <3>1. notes[n] \in FeatureNoteType /\ notes[n].block <= block
      BY <1>1 DEF SoundChain, Published
    <3> QED
      BY <3>1, <1>1, <1>2, BoundAssumption DEF FeatureNoteType
  <2> QED
    BY <2>1
<1>5. CASE EmptyBlock
  <2>1. UNCHANGED <<vault, history>>
    BY <1>5 DEF EmptyBlock
  <2>2. Grown
    BY <2>1, <1>1, <1>2 DEF Grown, Drained
  <2>3. SoundChain'
    BY <2>1, <1>1, <1>2, <1>4 DEF SoundChain, Published, Drained
  <2> QED
    BY <2>1, <2>2, <2>3, <1>1, <1>2, <1>3, ChainStep
<1>6. CASE \E amount \in OtherAmounts : OtherDeposit(amount)
  <2>1. PICK amount \in OtherAmounts : OtherDeposit(amount)
    BY <1>6
  <2> DEFINE t == [block |-> block + 1, note |-> 0, payout |-> 0]
  <2>2. /\ ~vault.claimed /\ history' = history \union {t}
        /\ vault' = [vault EXCEPT !.balance = @ + amount]
    BY <2>1 DEF OtherDeposit, NewVaultBlock, Credited
  <2>3. amount \in Nat
    BY AmountsAssumption
  <2>4. vault' \in VaultType
    BY <1>1, <2>2, <2>3 DEF VaultType
  <2>5. t \in VaultTxType /\ history' \subseteq VaultTxType
    BY <1>1, <2>2, BoundAssumption DEF VaultTxType
  <2>6. Grown
    BY <2>2, <1>1, <1>2 DEF Grown, Drained
  <2>7. SoundChain'
    <3>1. \A h \in history' : ~(h.payout > 0)
      BY <1>1, <2>2 DEF SoundChain, Drained
    <3>2. Published' = Published /\ notes' = notes /\ history \subseteq history'
      BY <1>2, <2>2 DEF Published
    <3> QED
      BY <3>1, <3>2, <1>1, <1>2, <1>4 DEF SoundChain
  <2> QED
    BY <2>4, <2>5, <2>6, <2>7, <1>1, <1>2, <1>3, ChainStep
<1> QED
  BY <1>5, <1>6

(* The vault consumes a note; if that was a claim, it is drained for good. *)
LEMMA ExecuteKeepsInvariant ==
  ASSUME IInv, NEW n \in Published, ExecuteNote(n)
  PROVE  IInv'
<1> DEFINE paid == IF notes[n].kind = "claim" THEN vault.balance ELSE 0
           t == [block |-> block + 1, note |-> n, payout |-> paid]
<1>1. /\ TypeOK /\ SoundChain /\ block \in Nat /\ vault \in VaultType
      /\ notes \in Seq(FeatureNoteType) /\ history \subseteq VaultTxType
      /\ n \in 1..Len(notes) /\ n \in Nat
  BY BoundAssumption DEF IInv, TypeOK, Published
<1>2. /\ notes[n].status = "discovered" /\ block < MaxBlock
      /\ block' = block + 1 /\ history' = history \union {t}
      /\ MarkNote(n, "executed") /\ UNCHANGED <<disk, cli>>
  BY DEF ExecuteNote, NewVaultBlock
<1>3. /\ notes[n] \in FeatureNoteType /\ notes[n].block \in Nat
      /\ notes[n].amount \in Nat /\ notes[n].kind \in Kinds
      /\ notes[n].block <= block
  <2>1. notes[n] \in FeatureNoteType
    BY <1>1
  <2>2. notes[n].block <= block
    BY <1>1 DEF SoundChain, Published
  <2> QED
    BY <2>1, <2>2 DEF FeatureNoteType
<1>4. PICK ref \in notes[n].block..block :
        Executable(n, ref) /\ vault' = Effect(n, ref)
  BY DEF ExecuteNote
<1>5. ~vault.claimed /\ ref \in Nat
  BY <1>1, <1>3, <1>4 DEF Executable
<1>6. vault' \in VaultType /\ (notes[n].kind = "claim" => Drained')
  <2>1. CASE notes[n].kind = "deposit"
    BY <2>1, <1>1, <1>3, <1>4 DEF Effect, Credited, VaultType
  <2>2. CASE notes[n].kind = "heartbeat"
    BY <2>2, <1>1, <1>4, <1>5 DEF Effect, VaultType
  <2>3. CASE notes[n].kind = "claim"
    BY <2>3, <1>1, <1>4 DEF Effect, VaultType, Drained
  <2> QED
    BY <2>1, <2>2, <2>3, <1>3 DEF Kinds
<1>7. paid \in Nat /\ (paid > 0 => Drained')
  BY <1>1, <1>6 DEF VaultType
<1> HIDE DEF paid
<1>8. t \in VaultTxType /\ history' \subseteq VaultTxType
  BY <1>1, <1>2, <1>7 DEF VaultTxType
<1>9. /\ notes' \in Seq(FeatureNoteType) /\ Len(notes') = Len(notes)
      /\ notes'[n].status = "executed"
      /\ \A i \in Published : /\ notes'[i].kind = notes[i].kind
                              /\ notes'[i].block = notes[i].block
                              /\ i # n => notes'[i] = notes[i]
  BY <1>1, <1>2, MarkedNotes DEF Statuses
<1>10. Grown
  <2>1. Len(notes') >= Len(notes)
    BY <1>1, <1>9
  <2> QED
    BY <2>1, <1>2, <1>5, <1>9 DEF Grown, Drained, Undecided, Published
<1>11. SoundChain'
  <2>1. Published' = Published
    BY <1>9 DEF Published
  <2>2. ASSUME NEW i \in Published PROVE notes'[i].block <= block'
    <3>1. notes[i] \in FeatureNoteType /\ notes[i].block <= block
      BY <1>1 DEF SoundChain, Published
    <3>2. notes[i].block \in Nat /\ notes'[i].block = notes[i].block
      BY <3>1, <1>9 DEF FeatureNoteType
    <3>3. block \in Nat /\ block' = block + 1
      BY <1>1, <1>2
    <3> QED
      BY <3>1, <3>2, <3>3
  <2>3. ASSUME NEW i \in Published, notes'[i].status = "executed"
        PROVE  \E h \in history' : h.note = i /\ h.block > notes'[i].block
    <3>1. CASE i = n
      <4>1. t.note = n /\ t.block > notes'[n].block /\ t \in history'
        BY <1>1, <1>2, <1>3, <1>9
      <4> QED
        BY <3>1, <4>1
    <3>2. CASE i # n
      BY <3>2, <2>3, <1>1, <1>2, <1>9 DEF SoundChain
    <3> QED
      BY <3>1, <3>2
  <2>4. ASSUME NEW h \in history', h.payout > 0 PROVE Drained'
    <3>1. CASE h = t
      BY <3>1, <2>4, <1>7
    <3>2. CASE h \in history
      BY <3>2, <2>4, <1>1, <1>5 DEF SoundChain, Drained
    <3> QED
      BY <3>1, <3>2, <1>2
  <2> QED
    BY <2>1, <2>2, <2>3, <2>4 DEF SoundChain
<1>12. block' \in 0..MaxBlock
  BY <1>1, <1>2, BoundAssumption
<1> QED
  BY <1>2, <1>6, <1>8, <1>9, <1>10, <1>11, <1>12, ChainStep

(* A new note appears, and with it the process that waits for it.          *)
LEMMA SubmitKeepsInvariant ==
  ASSUME IInv, NEW s \in Sessions, Submit(s)
  PROVE  IInv'
<1>a. PICK new : new = [kind |-> cli[s].kind, amount |-> cli[s].amount,
                        status |-> "submitted", block |-> 0]
  OBVIOUS
<1>b. PICK m : m = Len(notes) + 1
  OBVIOUS
<1>c. PICK x : x = [cli[s] EXCEPT !.stage = "funding", !.note = m]
  OBVIOUS
<1>1. /\ TypeOK /\ SoundChain /\ block \in Nat /\ cli[s] \in SessionType
      /\ cli \in [Sessions -> SessionType]
      /\ notes \in Seq(FeatureNoteType) /\ Len(notes) \in Nat
      /\ SoundSession(cli[s])
  BY BoundAssumption DEF IInv, TypeOK
<1>2. /\ cli[s].stage = "checked" /\ notes' = Append(notes, new)
      /\ cli' = [cli EXCEPT ![s] = x]
      /\ UNCHANGED <<block, vault, history, disk>>
  BY <1>a, <1>b, <1>c, <1>1 DEF Submit
<1>3. new \in FeatureNoteType /\ new.status = "submitted" /\ new.block = 0
      /\ new.kind = cli[s].kind
  BY <1>a, <1>1 DEF SessionType, FeatureNoteType, Statuses
<1>4. /\ notes' \in Seq(FeatureNoteType) /\ Len(notes') = m
      /\ notes'[m] = new
      /\ \A i \in Published : notes'[i] = notes[i]
  BY <1>b, <1>1, <1>2, <1>3 DEF Published
<1>5. Published' = Published \union {m} /\ m \in Published'
  BY <1>b, <1>1, <1>4 DEF Published
<1>6. Grown
  <2>1. Len(notes') >= Len(notes)
    BY <1>b, <1>1, <1>4
  <2>2. history \subseteq history' /\ (Drained => Drained')
    BY <1>2 DEF Drained
  <2> QED
    BY <2>1, <2>2, <1>4 DEF Grown
<1>7. x \in SessionType
  <2>1. m \in Nat
    BY <1>b, <1>1
  <2> QED
    BY <2>1, <1>c, <1>1 DEF SessionType, Stages
<1>8. /\ x.stage = "funding" /\ x.kind = cli[s].kind /\ x.note = m
      /\ x.verdict = cli[s].verdict /\ x.config = cli[s].config
  BY <1>c, <1>1 DEF SessionType
<1>9. SoundSession(cli[s])'
  <2>1. cli'[s] = x
    BY <1>1, <1>2
  <2>2. x.verdict = "none" /\ SoundConfig(x.config)
    BY <1>1, <1>2, <1>8 DEF SoundSession
  <2>3. PICK c : c = x.config
    OBVIOUS
  <2>4. SoundConfig(c)'
    BY <2>2, <2>3, <1>2, <1>4, <1>5
    DEF SoundConfig, OnRecord, RealPayout, Drained
  <2>5. x.note \in Published' /\ notes'[x.note].kind = x.kind
    BY <1>3, <1>4, <1>5, <1>8
  <2>6. /\ cli'[s].config = c /\ cli'[s].verdict = "none"
        /\ cli'[s].stage = "funding"
        /\ cli'[s].note \in Published'
        /\ notes'[cli'[s].note].kind = cli'[s].kind
    BY <2>1, <2>2, <2>3, <2>5, <1>8
  <2> QED
    BY <2>4, <2>6 DEF SoundSession, SoundConfig, OnRecord, RealPayout
<1>10. SoundChain'
  <2>1. ASSUME NEW n \in Published'
        PROVE  n \in Published \/ notes'[n] = new
    BY <2>1, <1>4, <1>5
  <2>2. ASSUME NEW n \in Published' PROVE notes'[n].block <= block'
    <3>1. CASE n \in Published
      BY <3>1, <1>1, <1>2, <1>4 DEF SoundChain
    <3>2. CASE notes'[n] = new
      BY <3>2, <1>1, <1>2, <1>3
    <3> QED
      BY <3>1, <3>2, <2>1
  <2>3. ASSUME NEW n \in Published', notes'[n].status = "executed"
        PROVE  \E t \in history' : t.note = n /\ t.block > notes'[n].block
    <3>1. n \in Published /\ notes'[n] = notes[n]
      BY <2>1, <2>3, <1>3, <1>4
    <3> QED
      BY <3>1, <2>3, <1>1, <1>2 DEF SoundChain
  <2>4. \A t \in history' : t.payout > 0 => Drained'
    BY <1>1, <1>2 DEF SoundChain, Drained
  <2> QED
    BY <2>2, <2>3, <2>4 DEF SoundChain
<1>11. TypeOK'
  BY <1>1, <1>2, <1>4, <1>7 DEF TypeOK
<1>12. \A r \in Sessions : cli'[r] = cli[r] \/ SoundSession(cli[r])'
  <2>1. ASSUME NEW r \in Sessions
        PROVE  cli'[r] = cli[r] \/ SoundSession(cli[r])'
    <3>1. CASE r = s
      BY <3>1, <1>9
    <3>2. CASE r # s
      BY <3>2, <1>1, <1>2
    <3> QED
      BY <3>1, <3>2
  <2> QED
    BY <2>1
<1> QED
  BY <1>2, <1>6, <1>10, <1>11, <1>12, GrownKeepsInvariant

-----------------------------------------------------------------------------
(* The theorems.                                                           *)

LEMMA NextKeepsInvariant == IInv /\ [Next]_vars => IInv'
<1> SUFFICES ASSUME IInv, [Next]_vars PROVE IInv'
  OBVIOUS
<1>1. CASE Chain
  <2>1. CASE EmptyBlock \/ \E amount \in OtherAmounts : OtherDeposit(amount)
    BY <2>1, OtherBlockKeepsInvariant
  <2>2. ASSUME NEW n \in Published,
               \/ CommitFunding(n) \/ DropFunding(n) \/ Discover(n)
               \/ Discard(n) \/ ExecuteNote(n)
        PROVE  IInv'
    BY <2>2, CommitFundingKeepsInvariant, StatusKeepsInvariant,
       ExecuteKeepsInvariant
  <2> QED
    BY <1>1, <2>1, <2>2 DEF Chain
<1>2. ASSUME NEW s \in Sessions,
             \/ Launch(s, "heartbeat", 0)
             \/ Launch(s, "claim", 0)
             \/ \E amount \in Amounts : Launch(s, "deposit", amount)
      PROVE  IInv'
  <2>1. \A amount \in Amounts : amount \in Nat
    BY AmountsAssumption
  <2>2. {"heartbeat", "claim", "deposit"} \subseteq Kinds
    BY DEF Kinds
  <2> QED
    BY <1>2, <2>1, <2>2, LaunchKeepsInvariant
<1>3. ASSUME NEW s \in Sessions, Step(s) PROVE IInv'
  <2>1. CASE Preflight(s)
    BY <2>1, PreflightKeepsInvariant
  <2>2. CASE Refuse(s) \/ RefuseDuplicate(s)
    BY <2>2, RefusalKeepsInvariant
  <2>3. CASE Submit(s)
    BY <2>3, SubmitKeepsInvariant
  <2>4. CASE RecordPending(s)
    BY <2>4, RecordPendingKeepsInvariant
  <2>5. CASE ReadHeader(s) \/ PollAgain(s)
    BY <2>5, PollingKeepsInvariant
  <2>6. CASE Attribute(s)
    BY <2>6, AttributeKeepsInvariant
  <2>7. CASE \/ GiveUpFunding(s) \/ TimeOut(s) \/ NoteDiscarded(s)
             \/ WrongResult(s) \/ PayoutMissing(s)
    BY <2>7, EndingKeepsInvariant
  <2>8. CASE LookForPayout(s)
    BY <2>8, LookForPayoutKeepsInvariant
  <2>9. CASE Complete(s) \/ CompleteClaim(s)
    BY <2>9, CompletionKeepsInvariant
  <2> QED
    BY <1>3, <2>1, <2>2, <2>3, <2>4, <2>5, <2>6, <2>7, <2>8, <2>9 DEF Step
<1>4. ASSUME NEW s \in Sessions, Crash(s) PROVE IInv'
  BY <1>4, EndingKeepsInvariant
<1>5. CASE UNCHANGED vars
  <2>1. /\ block' = block /\ vault' = vault /\ notes' = notes
        /\ history' = history /\ disk' = disk /\ cli' = cli
    BY <1>5 DEF vars
  <2> QED
    BY <2>1 DEF IInv, TypeOK, SoundChain, SoundConfig, SoundSession, OnRecord,
                RealPayout, Executed, Published, Drained
<1> QED
  BY <1>1, <1>2, <1>3, <1>4, <1>5 DEF Next

(* What every process and the file know is true of the chain, for any      *)
(* number of processes that die and overwrite each other's file.           *)
THEOREM InvariantHolds == Spec => []IInv
BY InitHolds, NextKeepsInvariant, PTL DEF Spec

(* Every variable keeps its type; in particular the block an execution is  *)
(* attributed to is a block.                                               *)
THEOREM TypeCorrect == Spec => []TypeOK
<1>1. IInv => TypeOK
  BY DEF IInv
<1> QED
  BY <1>1, InvariantHolds, PTL

(* No order of crashes and of processes rewriting the file makes it name a *)
(* pending note the chain does not have.                                   *)
THEOREM FileNamesRealNotes == Spec => []PendingIsOnChain
<1>1. IInv => PendingIsOnChain
  BY DEF IInv, SoundConfig, OnRecord, Undecided, PendingIsOnChain
<1> QED
  BY <1>1, InvariantHolds, PTL

(* A command reports success only if the vault consumed its own note, in a *)
(* block after the one that published it.                                  *)
THEOREM SuccessMeansExecution == Spec => []SuccessIsReal
<1>1. IInv => SuccessIsReal
  <2> SUFFICES ASSUME IInv, NEW s \in Sessions, cli[s].verdict = "success"
               PROVE  /\ notes[cli[s].note].status = "executed"
                      /\ \E t \in history : t.note = cli[s].note
                           /\ t.block > notes[cli[s].note].block
    BY DEF SuccessIsReal
  <2>1. Executed(cli[s].note)
    BY DEF IInv, SoundSession
  <2> QED
    BY <2>1 DEF IInv, SoundChain, Executed
<1> QED
  BY <1>1, InvariantHolds, PTL

(* The payout on record is one the vault made when it was drained.         *)
THEOREM RecordedPayoutIsPaid == Spec => []RecordedPayoutIsReal
<1>1. IInv => RecordedPayoutIsReal
  BY DEF IInv, SoundConfig, RealPayout, Drained, RecordedPayoutIsReal
<1> QED
  BY <1>1, InvariantHolds, PTL

-----------------------------------------------------------------------------
(* One process at a time, on a chain that settles a funding transaction    *)
(* before the 15 sync attempts are over, not killed while it waits for it. *)

LonePatientProcess(p) ==
  Sessions = {p} /\ SlowFunding = FALSE /\ "funding" \notin CrashPoints

(* The process and the file agree, and together they know every open note. *)
InStep(p) ==
  /\ cli[p].stage # "idle" => cli[p].config = disk
  /\ cli[p].stage = "funding" => disk.pending[cli[p].kind] = 0
  /\ cli[p].stage \in {"waiting", "polling", "executed", "payout"} =>
       disk.pending[cli[p].kind] = cli[p].note

Accounted(p) ==
  \A n \in Published :
    Open(n) => \/ disk.pending[notes[n].kind] = n
               \/ cli[p].stage = "funding" /\ cli[p].note = n

LoneInv(p) == InStep(p) /\ Accounted(p)

(* No step of the chain opens a note or changes its kind.                  *)
LEMMA ChainOpensNothing ==
  ASSUME IInv, Chain
  PROVE  /\ Published' = Published /\ UNCHANGED <<disk, cli>>
         /\ \A n \in Published : /\ notes'[n].kind = notes[n].kind
                                 /\ Open(n)' => Open(n)
<1>1. TypeOK /\ notes \in Seq(FeatureNoteType)
  BY DEF IInv, TypeOK
<1>2. CASE EmptyBlock \/ \E amount \in OtherAmounts : OtherDeposit(amount)
  <2>1. UNCHANGED <<notes, disk, cli>>
    BY <1>2 DEF EmptyBlock, OtherDeposit
  <2> QED
    BY <2>1 DEF Published, Open
<1>3. ASSUME NEW m \in Published, CommitFunding(m)
      PROVE  /\ Published' = Published /\ UNCHANGED <<disk, cli>>
             /\ \A n \in Published : /\ notes'[n].kind = notes[n].kind
                                     /\ Open(n)' => Open(n)
  <2>1. notes[m].status = "submitted" /\ UNCHANGED <<disk, cli>>
    BY <1>3 DEF CommitFunding
  <2>2. notes[m] \in FeatureNoteType /\ m \in 1..Len(notes)
    BY <1>1 DEF Published
  <2>3. PICK new : new = [notes[m] EXCEPT !.status = "committed",
                                          !.block = block + 1]
    OBVIOUS
  <2>4. new.kind = notes[m].kind
    BY <2>2, <2>3 DEF FeatureNoteType
  <2>5. notes' = [notes EXCEPT ![m] = new]
    BY <1>3, <1>1, <2>2, <2>3 DEF CommitFunding
  <2>6. Len(notes') = Len(notes) /\ notes'[m] = new
        /\ \A n \in 1..Len(notes) : n # m => notes'[n] = notes[n]
    BY <1>1, <2>2, <2>5
  <2> QED
    BY <2>1, <2>4, <2>6 DEF Published, Open
<1>4. ASSUME NEW m \in Published,
             \/ DropFunding(m) \/ Discover(m) \/ Discard(m) \/ ExecuteNote(m)
      PROVE  /\ Published' = Published /\ UNCHANGED <<disk, cli>>
             /\ \A n \in Published : /\ notes'[n].kind = notes[n].kind
                                     /\ Open(n)' => Open(n)
  <2>1. UNCHANGED <<disk, cli>>
    BY <1>4 DEF DropFunding, Discover, Discard, ExecuteNote
  <2>2. PICK status \in {"dropped", "discovered", "discarded", "executed"} :
          /\ MarkNote(m, status)
          /\ status = "discovered" => notes[m].status = "committed"
    BY <1>4 DEF DropFunding, Discover, Discard, ExecuteNote
  <2>3. status \in Statuses
    BY DEF Statuses
  <2>4. /\ Len(notes') = Len(notes) /\ notes'[m].status = status
        /\ \A n \in Published : /\ notes'[n].kind = notes[n].kind
                                /\ n # m => notes'[n] = notes[n]
    BY <1>1, <2>2, <2>3, MarkedNotes
  <2> QED
    BY <2>1, <2>2, <2>4 DEF Published, Open
<1> QED
  BY <1>2, <1>3, <1>4 DEF Chain

(* The process ends without touching the file, and leaves no open note     *)
(* that the file does not name.                                            *)
LEMMA LoneExit ==
  ASSUME NEW p, LoneInv(p), p \in Sessions, IInv,
         UNCHANGED <<chain, disk>>, NEW v, NEW n, Report(p, v, n),
         cli[p].stage = "funding" => ~Open(cli[p].note)
  PROVE  LoneInv(p)'
<1>1. cli'[p] = [Idle EXCEPT !.note = n, !.verdict = v]
  BY DEF IInv, TypeOK, Report
<1>2. cli'[p].stage = "idle"
  BY <1>1 DEF Idle
<1>3. notes' = notes /\ disk' = disk
  BY DEF chain
<1>4. InStep(p)'
  BY <1>2 DEF InStep
<1>5. Accounted(p)'
  BY <1>3 DEF LoneInv, Accounted, Published, Open
<1> QED
  BY <1>4, <1>5 DEF LoneInv

(* The process moves on with the same note, command and file.              *)
LEMMA LoneMove ==
  ASSUME NEW p, LoneInv(p), UNCHANGED <<chain, disk>>,
         cli[p].stage # "funding", cli'[p].stage # "funding",
         cli'[p].config = disk,
         cli'[p].stage \in {"waiting", "polling", "executed", "payout"} =>
           /\ cli[p].stage \in {"waiting", "polling", "executed", "payout"}
           /\ cli'[p].kind = cli[p].kind /\ cli'[p].note = cli[p].note
  PROVE  LoneInv(p)'
<1>1. notes' = notes /\ disk' = disk
  BY DEF chain
<1>2. InStep(p)'
  BY <1>1 DEF LoneInv, InStep
<1>3. Accounted(p)'
  BY <1>1 DEF LoneInv, Accounted, Published, Open
<1> QED
  BY <1>2, <1>3 DEF LoneInv

LEMMA LoneQuietStep ==
  ASSUME NEW p, LonePatientProcess(p), IInv, LoneInv(p),
         \/ Refuse(p) \/ RefuseDuplicate(p) \/ GiveUpFunding(p)
         \/ TimeOut(p) \/ NoteDiscarded(p) \/ WrongResult(p)
         \/ PayoutMissing(p) \/ Crash(p)
  PROVE  LoneInv(p)'
<1>1. p \in Sessions
  BY DEF LonePatientProcess
<1>2. UNCHANGED <<chain, disk>>
  BY DEF Refuse, RefuseDuplicate, GiveUpFunding, TimeOut, NoteDiscarded,
         WrongResult, PayoutMissing, Crash
<1>3. \E v, n : Report(p, v, n)
  BY DEF Refuse, RefuseDuplicate, GiveUpFunding, TimeOut, NoteDiscarded,
         WrongResult, PayoutMissing, Crash, Exit
<1>4. cli[p].stage = "funding" => ~Open(cli[p].note)
  BY DEF Refuse, RefuseDuplicate, GiveUpFunding, TimeOut, NoteDiscarded,
         WrongResult, PayoutMissing, Crash, LonePatientProcess, Open
<1> QED
  BY <1>1, <1>2, <1>3, <1>4, LoneExit

LEMMA LoneMovingStep ==
  ASSUME NEW p, LonePatientProcess(p), IInv, LoneInv(p),
         \/ \E kind \in Kinds, amount \in Nat : Launch(p, kind, amount)
         \/ Preflight(p) \/ ReadHeader(p) \/ PollAgain(p) \/ Attribute(p)
         \/ LookForPayout(p)
  PROVE  LoneInv(p)'
<1>1. /\ p \in Sessions /\ cli \in [Sessions -> SessionType]
      /\ cli[p] \in SessionType
  BY DEF LonePatientProcess, IInv, TypeOK
<1>2. UNCHANGED <<chain, disk>>
  BY DEF Launch, Preflight, ReadHeader, PollAgain, Attribute, LookForPayout
<1>3. CASE \E kind \in Kinds, amount \in Nat : Launch(p, kind, amount)
  <2>1. cli'[p].stage = "launched" /\ cli'[p].config = disk
    BY <1>1, <1>3 DEF Launch, Loaded, Idle
  <2>2. cli[p].stage # "funding"
    BY <1>3 DEF Launch
  <2> QED
    BY <1>2, <2>1, <2>2, LoneMove
<1>4. ASSUME \/ Preflight(p) \/ ReadHeader(p) \/ PollAgain(p) \/ Attribute(p)
             \/ LookForPayout(p)
      PROVE  LoneInv(p)'
  <2>1. /\ cli'[p].config = cli[p].config
        /\ cli'[p].kind = cli[p].kind /\ cli'[p].note = cli[p].note
    BY <1>1, <1>4 DEF Preflight, ReadHeader, PollAgain, Attribute,
                      LookForPayout, Continue, SessionType
  <2>2. /\ cli[p].stage \notin {"idle", "funding"}
        /\ cli'[p].stage # "funding"
        /\ cli'[p].stage \in {"waiting", "polling", "executed", "payout"} =>
             cli[p].stage \in {"waiting", "polling", "executed", "payout"}
    BY <1>1, <1>4 DEF Preflight, ReadHeader, PollAgain, Attribute,
                      LookForPayout, Continue, SessionType
  <2>3. cli[p].config = disk
    BY <2>2 DEF LoneInv, InStep
  <2> QED
    BY <1>2, <2>1, <2>2, <2>3, LoneMove
<1> QED
  BY <1>3, <1>4

LEMMA NotesHaveKinds ==
  ASSUME IInv, NEW n \in Published
  PROVE  notes[n].kind \in Kinds /\ n # 0
<1>1. notes \in Seq(FeatureNoteType) /\ n \in 1..Len(notes)
  BY DEF IInv, TypeOK, Published
<1>2. notes[n] \in FeatureNoteType
  BY <1>1
<1> QED
  BY <1>1, <1>2 DEF FeatureNoteType

(* The new note is the only open one of its kind, because the file, which  *)
(* the process knows, names none.                                          *)
LEMMA LoneSubmit ==
  ASSUME NEW p, LonePatientProcess(p), IInv, LoneInv(p), Submit(p)
  PROVE  LoneInv(p)'
<1>1. /\ p \in Sessions /\ cli \in [Sessions -> SessionType]
      /\ cli[p] \in SessionType
      /\ notes \in Seq(FeatureNoteType) /\ Len(notes) \in Nat
  BY DEF LonePatientProcess, IInv, TypeOK
<1>2. PICK new : new = [kind |-> cli[p].kind, amount |-> cli[p].amount,
                        status |-> "submitted", block |-> 0]
  OBVIOUS
<1>3. PICK m : m = Len(notes) + 1
  OBVIOUS
<1>4. /\ cli[p].stage = "checked" /\ cli[p].config.pending[cli[p].kind] = 0
      /\ notes' = Append(notes, new) /\ disk' = disk
      /\ cli'[p] = [cli[p] EXCEPT !.stage = "funding", !.note = m]
  BY <1>1, <1>2, <1>3 DEF Submit, PendingNote
<1>5. /\ cli'[p].stage = "funding" /\ cli'[p].note = m
      /\ cli'[p].kind = cli[p].kind /\ cli'[p].config = cli[p].config
  BY <1>1, <1>4 DEF SessionType
<1>6. /\ Published' = Published \union {m}
      /\ \A n \in Published : notes'[n] = notes[n]
  BY <1>1, <1>2, <1>3, <1>4 DEF Published
<1>7. cli[p].config = disk
  BY <1>4 DEF LoneInv, InStep
<1>8. InStep(p)'
  BY <1>4, <1>5, <1>7 DEF InStep
<1>9. Accounted(p)'
  <2>1. ASSUME NEW n \in Published', Open(n)'
        PROVE  \/ disk'.pending[notes'[n].kind] = n
               \/ cli'[p].stage = "funding" /\ cli'[p].note = n
    <3>1. CASE n = m
      BY <3>1, <1>5
    <3>2. CASE n \in Published
      BY <3>2, <2>1, <1>4, <1>6 DEF LoneInv, Accounted, Open
    <3> QED
      BY <3>1, <3>2, <1>6
  <2> QED
    BY <2>1 DEF Accounted
<1> QED
  BY <1>8, <1>9 DEF LoneInv

LEMMA LoneRecord ==
  ASSUME NEW p, LonePatientProcess(p), IInv, LoneInv(p), RecordPending(p)
  PROVE  LoneInv(p)'
<1>1. /\ p \in Sessions /\ cli \in [Sessions -> SessionType]
      /\ cli[p] \in SessionType /\ SoundSession(cli[p])
  BY DEF LonePatientProcess, IInv, TypeOK
<1>2. PICK c : c = [cli[p].config EXCEPT !.pending[cli[p].kind] = cli[p].note]
  OBVIOUS
<1>3. /\ cli[p].stage = "funding" /\ disk' = c /\ notes' = notes
      /\ cli'[p] = [cli[p] EXCEPT !.stage = "waiting", !.config = c]
  BY <1>1, <1>2 DEF RecordPending, chain
<1>4. /\ cli'[p].stage = "waiting" /\ cli'[p].note = cli[p].note
      /\ cli'[p].kind = cli[p].kind /\ cli'[p].config = c
  BY <1>1, <1>3 DEF SessionType
<1>5. /\ cli[p].config \in ConfigType /\ cli[p].kind \in Kinds
      /\ cli[p].config = disk /\ disk.pending[cli[p].kind] = 0
  BY <1>1, <1>3 DEF SessionType, LoneInv, InStep
<1>6. \A k \in Kinds : c.pending[k] =
        IF k = cli[p].kind THEN cli[p].note ELSE disk.pending[k]
  BY <1>2, <1>5 DEF ConfigType
<1>7. InStep(p)'
  BY <1>3, <1>4, <1>5, <1>6 DEF InStep
<1>8. Accounted(p)'
  <2>1. ASSUME NEW n \in Published, Open(n)
        PROVE  c.pending[notes[n].kind] = n
    <3>1. notes[n].kind \in Kinds /\ n # 0
      BY NotesHaveKinds
    <3>2. CASE cli[p].note = n
      BY <3>1, <3>2, <1>1, <1>3, <1>6 DEF SoundSession
    <3>3. CASE cli[p].note # n
      <4>1. disk.pending[notes[n].kind] = n
        BY <2>1, <3>3 DEF LoneInv, Accounted
      <4>2. notes[n].kind # cli[p].kind
        BY <4>1, <3>1, <1>5
      <4> QED
        BY <4>1, <4>2, <3>1, <1>6
    <3> QED
      BY <3>2, <3>3
  <2> QED
    BY <2>1, <1>3 DEF Accounted, Published, Open
<1> QED
  BY <1>7, <1>8 DEF LoneInv

(* The entry a success removes names the note that has been executed.      *)
LEMMA LoneFinish ==
  ASSUME NEW p, LonePatientProcess(p), IInv, LoneInv(p),
         Complete(p) \/ CompleteClaim(p)
  PROVE  LoneInv(p)'
<1>1. /\ p \in Sessions /\ cli \in [Sessions -> SessionType]
      /\ cli[p] \in SessionType /\ SoundSession(cli[p])
  BY DEF LonePatientProcess, IInv, TypeOK
<1>2. cli[p].stage \in {"executed", "payout"} /\ \E n : Finish(p, n)
  BY DEF Complete, CompleteClaim
<1>3. PICK n : Finish(p, n)
  BY <1>2
<1>4. PICK c : c = [pending |-> [cli[p].config.pending EXCEPT ![cli[p].kind] = 0],
                    payout |-> n]
  OBVIOUS
<1>5. /\ disk' = c /\ notes' = notes
      /\ cli'[p] = [Idle EXCEPT !.note = cli[p].note, !.verdict = "success"]
  BY <1>1, <1>3, <1>4 DEF Finish, Exit, Report, chain
<1>6. cli'[p].stage = "idle"
  BY <1>5 DEF Idle
<1>7. /\ cli[p].config \in ConfigType /\ cli[p].kind \in Kinds
      /\ cli[p].config = disk /\ disk.pending[cli[p].kind] = cli[p].note
  BY <1>1, <1>2 DEF SessionType, LoneInv, InStep
<1>8. \A k \in Kinds : k # cli[p].kind => c.pending[k] = disk.pending[k]
  BY <1>4, <1>7 DEF ConfigType
<1>9. InStep(p)'
  BY <1>6 DEF InStep
<1>10. Accounted(p)'
  <2>1. ASSUME NEW i \in Published, Open(i)
        PROVE  c.pending[notes[i].kind] = i
    <3>1. notes[i].kind \in Kinds
      BY NotesHaveKinds
    <3>2. disk.pending[notes[i].kind] = i
      BY <2>1, <1>2 DEF LoneInv, Accounted
    <3>3. ~Open(cli[p].note)
      BY <1>1, <1>2 DEF SoundSession, Executed, Open
    <3>4. notes[i].kind # cli[p].kind
      BY <3>2, <3>3, <2>1, <1>7
    <3> QED
      BY <3>1, <3>2, <3>4, <1>8
  <2> QED
    BY <2>1, <1>5 DEF Accounted, Published, Open
<1> QED
  BY <1>9, <1>10 DEF LoneInv

LEMMA NextKeepsLoneInv ==
  ASSUME NEW p, LonePatientProcess(p), IInv, LoneInv(p), [Next]_vars
  PROVE  LoneInv(p)'
<1>1. CASE Chain
  <2>1. /\ Published' = Published /\ disk' = disk /\ cli' = cli
        /\ \A n \in Published : /\ notes'[n].kind = notes[n].kind
                                /\ Open(n)' => Open(n)
    BY <1>1, ChainOpensNothing
  <2>2. InStep(p)'
    BY <2>1 DEF LoneInv, InStep
  <2>3. Accounted(p)'
    BY <2>1 DEF LoneInv, Accounted
  <2> QED
    BY <2>2, <2>3 DEF LoneInv
<1>2. ASSUME \/ Launch(p, "heartbeat", 0)
             \/ Launch(p, "claim", 0)
             \/ \E amount \in Amounts : Launch(p, "deposit", amount)
      PROVE  LoneInv(p)'
  <2>1. \E kind \in Kinds, amount \in Nat : Launch(p, kind, amount)
    BY <1>2, AmountsAssumption DEF Kinds
  <2> QED
    BY <2>1, LoneMovingStep
<1>3. CASE Step(p) \/ Crash(p)
  BY <1>3, LoneQuietStep, LoneMovingStep, LoneSubmit, LoneRecord, LoneFinish
  DEF Step
<1>4. CASE UNCHANGED vars
  <2>1. notes' = notes /\ disk' = disk /\ cli' = cli
    BY <1>4 DEF vars
  <2> QED
    BY <2>1 DEF LoneInv, InStep, Accounted, Published, Open
<1> QED
  BY <1>1, <1>2, <1>3, <1>4 DEF Next, LonePatientProcess

(* Under these conditions running a command again, after any crash and any *)
(* time-out, never puts a second note on chain while one of its kind may   *)
(* still execute.  cli_duplicate shows that the patience is needed.        *)
THEOREM RerunsDoNotDuplicate ==
  ASSUME NEW p, LonePatientProcess(p)
  PROVE  Spec => []OneOpenNotePerKind
<1>1. Init => LoneInv(p)
  <2> SUFFICES ASSUME Init PROVE LoneInv(p)
    OBVIOUS
  <2>1. Published = {} /\ cli[p].stage = "idle"
    BY DEF Init, Published, Idle, LonePatientProcess
  <2> QED
    BY <2>1 DEF LoneInv, InStep, Accounted
<1>2. IInv /\ LoneInv(p) /\ [Next]_vars => LoneInv(p)'
  BY NextKeepsLoneInv
<1>3. IInv /\ LoneInv(p) => OneOpenNotePerKind
  <2> SUFFICES ASSUME IInv, LoneInv(p),
                      NEW m \in Published, NEW n \in Published,
                      Open(m), Open(n), notes[m].kind = notes[n].kind
               PROVE  m = n
    BY DEF OneOpenNotePerKind
  <2>1. p \in Sessions /\ m # 0 /\ n # 0
    BY DEF LonePatientProcess, Published
  <2>2. cli[p].stage = "funding" => notes[cli[p].note].kind = cli[p].kind
    BY <2>1 DEF IInv, SoundSession
  <2> QED
    BY <2>1, <2>2 DEF LoneInv, InStep, Accounted
<1> QED
  BY <1>1, <1>2, <1>3, InvariantHolds, PTL DEF Spec

-----------------------------------------------------------------------------
(* When a claim cannot miss its payout.                                    *)

(* A claim that is not yet executed, and one that has published its note.  *)
Unpaid == {"checked", "funding", "waiting", "polling"}
Submitted == {"funding", "waiting", "polling", "executed", "payout"}

(* The note was executed after the process read the header it polls with.  *)
LateExecution(s) ==
  /\ cli[s].stage = "polling"
  /\ NullifierCommitted(cli[s].note)
  /\ \A t \in history : t.note = cli[s].note => t.block > cli[s].header

(* Between that and the status being read no block appears, and from the   *)
(* first check of a claim until its payout nobody deposits.                *)
Steady ==
  \A s \in Sessions : cli[s].kind = "claim" =>
    /\ LateExecution(s) => block' = block
    /\ cli[s].stage \in Unpaid /\ ~vault'.claimed =>
         vault'.balance = vault.balance

(* No claim ends with the message that its payout cannot be found.         *)
ClaimsFindTheirPayout == \A s \in Sessions : cli[s].verdict # "no_payout"

(* The history names published notes and past blocks, and ends with the    *)
(* payout.                                                                 *)
OrderlyHistory ==
  /\ \A t \in history : t.note <= Len(notes) /\ t.block <= block
  /\ \A t, u \in history : t.payout > 0 => u.block <= t.block

(* What a claim saw before is what the vault holds until it pays, so that  *)
(* is what the claim's note is paid with; and the block the execution is   *)
(* attributed to is not a later one.                                       *)
ClaimFacts(x) ==
  /\ x.kind = "claim" =>
       /\ x.stage \in Unpaid /\ ~vault.claimed =>
            vault.balance = x.before.balance
       /\ x.stage \in Unpaid \union Submitted => x.before.balance > 0
       /\ x.stage \in Submitted =>
            \A t \in history : t.note = x.note => t.payout = x.before.balance
       /\ x.stage = "polling" /\ NullifierCommitted(x.note) =>
            \E t \in history : t.note = x.note
              /\ (t.block <= x.header \/ t.block = block)
       /\ x.stage \in {"executed", "payout"} =>
            \E t \in history : t.note = x.note /\ t.block >= x.from
  /\ x.stage = "payout" => x.kind = "claim"
  /\ x.verdict # "no_payout"

ClaimInv == OrderlyHistory /\ \A s \in Sessions : ClaimFacts(cli[s])

(* One process changes to x, on a chain that stays as it is.               *)
LEMMA ClaimantStep ==
  ASSUME IInv, ClaimInv, NEW s \in Sessions, UNCHANGED chain,
         NEW x, ClaimFacts(x), cli' = [cli EXCEPT ![s] = x]
  PROVE  ClaimInv'
<1>1. /\ block' = block /\ vault' = vault
      /\ notes' = notes /\ history' = history
  BY DEF chain
<1>2. \A r \in Sessions : cli'[r] = x \/ cli'[r] = cli[r]
  BY DEF IInv, TypeOK
<1>3. OrderlyHistory'
  BY <1>1 DEF ClaimInv, OrderlyHistory
<1>4. ASSUME NEW r \in Sessions PROVE ClaimFacts(cli[r])'
  <2>1. PICK y : y = cli'[r]
    OBVIOUS
  <2>2. ClaimFacts(y)
    BY <1>2, <2>1 DEF ClaimInv
  <2>3. ClaimFacts(y)'
    BY <2>2, <1>1 DEF ClaimFacts, NullifierCommitted
  <2> QED
    BY <2>1, <2>3 DEF ClaimFacts, NullifierCommitted
<1> QED
  BY <1>3, <1>4 DEF ClaimInv

(* A process that ends with any other verdict claims nothing.              *)
LEMMA ClaimantEnds ==
  ASSUME IInv, ClaimInv, NEW s \in Sessions, UNCHANGED chain,
         NEW v, v # "no_payout", NEW n, Report(s, v, n)
  PROVE  ClaimInv'
<1>1. PICK x : x = [Idle EXCEPT !.note = n, !.verdict = v]
  OBVIOUS
<1>2. x.kind = "deposit" /\ x.stage = "idle" /\ x.verdict = v
  BY <1>1 DEF Idle
<1>3. ClaimFacts(x)
  BY <1>2 DEF ClaimFacts
<1>4. cli' = [cli EXCEPT ![s] = x]
  BY <1>1 DEF Report
<1> QED
  BY <1>3, <1>4, ClaimantStep

LEMMA ClaimantStarts ==
  ASSUME IInv, ClaimInv, NEW s \in Sessions,
         NEW kind, NEW amount, Launch(s, kind, amount)
  PROVE  ClaimInv'
<1>1. PICK x : x = [Idle EXCEPT !.stage = "launched", !.kind = kind,
                                !.amount = amount, !.config = disk]
  OBVIOUS
<1>2. x.stage = "launched" /\ x.verdict = "none"
  BY <1>1 DEF Idle
<1>3. ClaimFacts(x)
  BY <1>2 DEF ClaimFacts, Unpaid, Submitted
<1>4. cli' = [cli EXCEPT ![s] = x] /\ UNCHANGED chain
  BY <1>1 DEF Launch, Loaded
<1> QED
  BY <1>3, <1>4, ClaimantStep

LEMMA ClaimantChecks ==
  ASSUME IInv, ClaimInv, NEW s \in Sessions, Preflight(s)
  PROVE  ClaimInv'
<1>1. cli[s] \in SessionType /\ ClaimFacts(cli[s])
  BY DEF IInv, TypeOK, ClaimInv
<1>2. PICK x : x = [cli[s] EXCEPT !.stage = "checked", !.before = vault]
  OBVIOUS
<1>3. /\ x.stage = "checked" /\ x.kind = cli[s].kind
      /\ x.before = vault /\ x.verdict = cli[s].verdict
  BY <1>1, <1>2 DEF SessionType
<1>4. x.kind = "claim" => vault.balance > 0
  BY <1>3 DEF Preflight
<1>5. ClaimFacts(x)
  BY <1>1, <1>3, <1>4 DEF ClaimFacts, Unpaid, Submitted
<1>6. cli' = [cli EXCEPT ![s] = x] /\ UNCHANGED chain
  BY <1>1, <1>2 DEF Preflight
<1> QED
  BY <1>5, <1>6, ClaimantStep

(* The next note number is not in the history yet.                         *)
LEMMA ClaimantSubmits ==
  ASSUME IInv, ClaimInv, NEW s \in Sessions, Submit(s)
  PROVE  ClaimInv'
<1>1. PICK new : new = [kind |-> cli[s].kind, amount |-> cli[s].amount,
                        status |-> "submitted", block |-> 0]
  OBVIOUS
<1>2. PICK m : m = Len(notes) + 1
  OBVIOUS
<1>3. PICK x : x = [cli[s] EXCEPT !.stage = "funding", !.note = m]
  OBVIOUS
<1>4. /\ cli[s] \in SessionType /\ cli \in [Sessions -> SessionType]
      /\ notes \in Seq(FeatureNoteType) /\ Len(notes) \in Nat
      /\ ClaimFacts(cli[s]) /\ OrderlyHistory
      /\ history \subseteq VaultTxType
  BY DEF IInv, TypeOK, ClaimInv
<1>5. /\ cli[s].stage = "checked" /\ notes' = Append(notes, new)
      /\ cli' = [cli EXCEPT ![s] = x]
      /\ block' = block /\ vault' = vault /\ history' = history
  BY <1>1, <1>2, <1>3, <1>4 DEF Submit
<1>6. /\ Len(notes') = Len(notes) + 1
      /\ \A i \in Published : notes'[i] = notes[i]
  BY <1>4, <1>5 DEF Published
<1>7. OrderlyHistory'
  <2>1. \A t \in history : t.note \in Nat
    BY <1>4 DEF VaultTxType
  <2> QED
    BY <2>1, <1>4, <1>5, <1>6 DEF OrderlyHistory
<1>8. ASSUME NEW r \in Sessions PROVE ClaimFacts(cli[r])'
  <2>1. PICK y : y = cli'[r]
    OBVIOUS
  <2>2. CASE r = s
    <3>1. /\ y.stage = "funding" /\ y.kind = cli[s].kind /\ y.note = m
          /\ y.before = cli[s].before /\ y.verdict = cli[s].verdict
      BY <1>3, <1>4, <1>5, <2>1, <2>2 DEF SessionType
    <3>2. \A t \in history : t.note # m
      <4>1. \A t \in history : t.note \in Nat /\ t.note <= Len(notes)
        BY <1>4 DEF VaultTxType, OrderlyHistory
      <4> QED
        BY <4>1, <1>2, <1>4
    <3>3. ClaimFacts(y)'
      BY <3>1, <3>2, <1>4, <1>5 DEF ClaimFacts, Unpaid, Submitted
    <3> QED
      BY <3>3, <2>1 DEF ClaimFacts, NullifierCommitted
  <2>3. CASE r # s
    <3>1. y = cli[r] /\ ClaimFacts(y) /\ SoundSession(y)
      BY <1>4, <1>5, <2>1, <2>3 DEF ClaimInv, IInv
    <3>2. y.stage = "polling" => notes'[y.note] = notes[y.note]
      BY <3>1, <1>6 DEF SoundSession
    <3>3. ClaimFacts(y)'
      BY <3>1, <3>2, <1>5 DEF ClaimFacts, NullifierCommitted
    <3> QED
      BY <3>3, <2>1 DEF ClaimFacts, NullifierCommitted
  <2> QED
    BY <2>2, <2>3
<1> QED
  BY <1>7, <1>8 DEF ClaimInv

LEMMA ClaimantWaits ==
  ASSUME IInv, ClaimInv, NEW s \in Sessions,
         RecordPending(s) \/ ReadHeader(s) \/ PollAgain(s)
  PROVE  ClaimInv'
<1>1. /\ cli[s] \in SessionType /\ cli \in [Sessions -> SessionType]
      /\ ClaimFacts(cli[s]) /\ SoundSession(cli[s]) /\ UNCHANGED chain
  BY DEF IInv, TypeOK, ClaimInv, RecordPending, ReadHeader, PollAgain
<1>2. \E x : cli' = [cli EXCEPT ![s] = x]
  BY <1>1 DEF RecordPending, ReadHeader, PollAgain, Continue
<1>3. PICK x : cli' = [cli EXCEPT ![s] = x]
  BY <1>2
<1>4. x = cli'[s]
  BY <1>1, <1>3
<1>5. /\ x.kind = cli[s].kind /\ x.note = cli[s].note
      /\ x.before = cli[s].before /\ x.verdict = cli[s].verdict
  BY <1>1, <1>4
  DEF RecordPending, ReadHeader, PollAgain, Continue, SessionType
<1>6. cli[s].stage \in {"funding", "waiting", "polling"}
  BY DEF RecordPending, ReadHeader, PollAgain
<1>7. CASE RecordPending(s) \/ PollAgain(s)
  <2>1. x.stage = "waiting"
    BY <1>1, <1>4, <1>7 DEF RecordPending, PollAgain, Continue, SessionType
  <2>2. ClaimFacts(x)
    BY <2>1, <1>1, <1>5, <1>6 DEF ClaimFacts, Unpaid, Submitted
  <2> QED
    BY <2>2, <1>1, <1>3, ClaimantStep
<1>8. CASE ReadHeader(s)
  <2>1. x.stage = "polling" /\ x.header = block
    BY <1>1, <1>4, <1>8 DEF ReadHeader, SessionType
  <2>2. ASSUME NullifierCommitted(x.note)
        PROVE  \E t \in history : t.note = x.note /\ t.block <= x.header
    <3>1. x.note \in Published /\ notes[x.note].status = "executed"
      BY <2>2, <1>1, <1>5, <1>6 DEF SoundSession, NullifierCommitted
    <3>2. PICK t \in history : t.note = x.note
      BY <3>1 DEF IInv, SoundChain
    <3> QED
      BY <3>2, <2>1 DEF ClaimInv, OrderlyHistory
  <2>3. ClaimFacts(x)
    BY <2>1, <2>2, <1>1, <1>5, <1>6 DEF ClaimFacts, Unpaid, Submitted
  <2> QED
    BY <2>3, <1>1, <1>3, ClaimantStep
<1> QED
  BY <1>7, <1>8

(* If the execution was not seen late, it is in the range looked at, and   *)
(* it is the last transaction there; if it was, it is the latest block.    *)
LEMMA ClaimantAttributes ==
  ASSUME IInv, ClaimInv, NEW s \in Sessions, Attribute(s)
  PROVE  ClaimInv'
<1>1. PICK n : n = cli[s].note
  OBVIOUS
<1>2. PICK found :
        found = {t.block : t \in {h \in history :
                   h.block >= notes[n].block /\ h.block <= cli[s].header}}
  OBVIOUS
<1>3. PICK from : from = IF found = {} THEN block ELSE Max(found)
  OBVIOUS
<1>4. PICK x : x = [cli[s] EXCEPT !.stage = "executed", !.from = from]
  OBVIOUS
<1>5. /\ cli[s] \in SessionType /\ SoundSession(cli[s]) /\ ClaimFacts(cli[s])
      /\ block \in Nat /\ history \subseteq VaultTxType
      /\ cli[s].header \in Nat /\ OrderlyHistory
  BY BoundAssumption DEF IInv, ClaimInv, TypeOK, SessionType
<1>6. /\ cli[s].stage = "polling" /\ NullifierCommitted(n)
      /\ cli' = [cli EXCEPT ![s] = x] /\ UNCHANGED chain
  BY <1>1, <1>2, <1>3, <1>4, <1>5 DEF Attribute
<1>7. /\ x.stage = "executed" /\ x.kind = cli[s].kind /\ x.note = n
      /\ x.before = cli[s].before /\ x.verdict = cli[s].verdict
      /\ x.from = from
  BY <1>1, <1>4, <1>5 DEF SessionType
<1>8. ASSUME x.kind = "claim"
      PROVE  \E t \in history : t.note = n /\ t.block >= from
  <2>1. /\ n \in Published /\ notes[n] \in FeatureNoteType
        /\ notes[n].status = "executed"
    <3>1. n \in Published /\ notes[n].status = "executed"
      BY <1>1, <1>5, <1>6 DEF SoundSession, NullifierCommitted
    <3> QED
      BY <3>1 DEF IInv, TypeOK, Published
  <2>2. PICK t \in history :
          t.note = n /\ (t.block <= cli[s].header \/ t.block = block)
    BY <1>1, <1>5, <1>6, <1>7, <1>8 DEF ClaimFacts
  <2>3. t.payout > 0
    BY <1>1, <1>5, <1>6, <1>7, <1>8, <2>2
    DEF ClaimFacts, Unpaid, Submitted
  <2>4. \A u \in history : u.block <= t.block
    BY <1>5, <2>3 DEF OrderlyHistory
  <2>5. t.block \in Nat /\ notes[n].block \in Nat
    BY <1>5, <2>1 DEF VaultTxType, FeatureNoteType
  <2>6. CASE found = {}
    <3>1. PICK u \in history : u.block > notes[n].block
      BY <2>1 DEF IInv, SoundChain
    <3>2. u.block \in Nat /\ u.block <= t.block
      BY <1>5, <2>4 DEF VaultTxType
    <3>3. t.block >= notes[n].block
      BY <2>5, <3>1, <3>2
    <3>4. ~(t.block <= cli[s].header)
      BY <1>2, <2>6, <3>3
    <3> QED
      BY <1>3, <1>5, <2>2, <2>6, <3>4
  <2>7. CASE found # {}
    <3>1. found \subseteq 0..cli[s].header
      BY <1>2, <1>5 DEF VaultTxType
    <3>2. Max(found) \in found
      BY <1>5, <2>7, <3>1, BoundedMax
    <3>3. PICK u \in history : u.block = from
      BY <1>2, <1>3, <2>7, <3>2
    <3>4. t.block >= from
      BY <2>4, <2>5, <3>1, <3>2, <3>3, <1>3, <2>7
    <3> QED
      BY <2>2, <3>4
  <2> QED
    BY <2>6, <2>7
<1>9. ClaimFacts(x)
  BY <1>5, <1>6, <1>7, <1>8, <1>1 DEF ClaimFacts, Unpaid, Submitted
<1> QED
  BY <1>6, <1>9, ClaimantStep

(* The payout it looks for is the one its note made.                       *)
LEMMA ClaimantConcludes ==
  ASSUME IInv, ClaimInv, NEW s \in Sessions,
         LookForPayout(s) \/ PayoutMissing(s)
  PROVE  ClaimInv'
<1>1. cli[s] \in SessionType /\ SoundSession(cli[s]) /\ ClaimFacts(cli[s])
  BY DEF IInv, ClaimInv, TypeOK
<1>2. CASE LookForPayout(s)
  <2>1. PICK x : x = [cli[s] EXCEPT !.stage = "payout"]
    OBVIOUS
  <2>2. /\ x.stage = "payout" /\ x.kind = cli[s].kind
        /\ x.note = cli[s].note /\ x.before = cli[s].before
        /\ x.verdict = cli[s].verdict /\ x.from = cli[s].from
    BY <1>1, <2>1 DEF SessionType
  <2>3. ClaimFacts(x)
    BY <1>1, <1>2, <2>2 DEF LookForPayout, ClaimFacts, Unpaid, Submitted
  <2>4. cli' = [cli EXCEPT ![s] = x] /\ UNCHANGED chain
    BY <1>2, <2>1 DEF LookForPayout, Continue
  <2> QED
    BY <2>3, <2>4, ClaimantStep
<1>3. CASE PayoutMissing(s)
  <2>1. cli[s].stage = "payout" /\ FoundPayouts(s) = {}
    BY <1>3 DEF PayoutMissing
  <2>2. PICK t \in history : t.note = cli[s].note /\ t.block >= cli[s].from
    BY <1>1, <2>1 DEF ClaimFacts
  <2>3. t.payout = cli[s].before.balance /\ t.payout > 0
    BY <1>1, <2>1, <2>2 DEF ClaimFacts, Unpaid, Submitted
  <2>4. t \in FoundPayouts(s)
    BY <2>2, <2>3 DEF FoundPayouts
  <2> QED
    BY <2>1, <2>4
<1> QED
  BY <1>2, <1>3

LEMMA ClaimantExits ==
  ASSUME IInv, ClaimInv, NEW s \in Sessions,
         \/ Refuse(s) \/ RefuseDuplicate(s) \/ GiveUpFunding(s)
         \/ TimeOut(s) \/ NoteDiscarded(s) \/ WrongResult(s)
         \/ Complete(s) \/ CompleteClaim(s) \/ Crash(s)
  PROVE  ClaimInv'
<1>1. \E v, n : v # "no_payout" /\ Report(s, v, n)
  BY DEF Refuse, RefuseDuplicate, GiveUpFunding, TimeOut, NoteDiscarded,
         WrongResult, Complete, CompleteClaim, Crash, Finish, Exit
<1>2. PICK v, n : v # "no_payout" /\ Report(s, v, n)
  BY <1>1
<1>3. UNCHANGED chain
  BY DEF Refuse, RefuseDuplicate, GiveUpFunding, TimeOut, NoteDiscarded,
         WrongResult, Complete, CompleteClaim, Crash, Finish
<1> QED
  BY <1>2, <1>3, ClaimantEnds

(* What a step of the chain can do to what a claim relies on: nothing but  *)
(* time, or one vault transaction t while the vault is open.               *)
OnlyTime ==
  /\ history' = history /\ vault' = vault
  /\ \A i \in Published :
       notes'[i].status = "executed" => notes[i].status = "executed"

VaultTransaction(t) ==
  /\ ~vault.claimed
  /\ t.block = block + 1 /\ block' = block + 1
  /\ history' = history \union {t}
  /\ \/ t.note = 0 /\ t.payout = 0
     \/ /\ t.note \in Published /\ notes[t.note].status = "discovered"
        /\ t.payout = IF notes[t.note].kind = "claim" THEN vault.balance ELSE 0
  /\ \A i \in Published :
       i # t.note /\ notes'[i].status = "executed" =>
         notes[i].status = "executed"

LEMMA ChainMoves ==
  ASSUME IInv, Chain
  PROVE  /\ UNCHANGED cli /\ Len(notes') = Len(notes)
         /\ block' \in {block, block + 1}
         /\ OnlyTime \/ \E t : VaultTransaction(t)
<1>1. /\ TypeOK /\ notes \in Seq(FeatureNoteType)
  BY DEF IInv, TypeOK
<1>2. CASE EmptyBlock
  BY <1>2 DEF EmptyBlock, OnlyTime
<1>3. CASE \E amount \in OtherAmounts : OtherDeposit(amount)
  <2>1. PICK t : t = [block |-> block + 1, note |-> 0, payout |-> 0]
    OBVIOUS
  <2>2. /\ VaultTransaction(t) /\ UNCHANGED <<notes, cli>>
        /\ block' = block + 1
    BY <1>3, <2>1
    DEF OtherDeposit, NewVaultBlock, VaultTransaction
  <2> QED
    BY <2>2
<1>4. ASSUME NEW n \in Published, CommitFunding(n)
      PROVE  /\ UNCHANGED cli /\ Len(notes') = Len(notes)
             /\ block' = block + 1 /\ OnlyTime
  <2>1. notes[n] \in FeatureNoteType /\ n \in 1..Len(notes)
    BY <1>1 DEF Published
  <2>2. PICK new : new = [notes[n] EXCEPT !.status = "committed",
                                          !.block = block + 1]
    OBVIOUS
  <2>3. new.status = "committed"
    BY <2>1, <2>2 DEF FeatureNoteType
  <2>4. notes' = [notes EXCEPT ![n] = new]
    BY <1>1, <1>4, <2>1, <2>2 DEF CommitFunding
  <2>5. Len(notes') = Len(notes) /\ notes'[n] = new
        /\ \A i \in 1..Len(notes) : i # n => notes'[i] = notes[i]
    BY <1>1, <2>1, <2>4
  <2>6. UNCHANGED <<vault, history, cli>> /\ block' = block + 1
    BY <1>4 DEF CommitFunding
  <2>7. OnlyTime
    BY <2>3, <2>5, <2>6 DEF OnlyTime, Published
  <2> QED
    BY <2>5, <2>6, <2>7
<1>5. ASSUME NEW n \in Published, DropFunding(n) \/ Discover(n) \/ Discard(n)
      PROVE  /\ UNCHANGED <<block, cli>> /\ Len(notes') = Len(notes)
             /\ OnlyTime
  <2>1. PICK status \in {"dropped", "discovered", "discarded"} :
          MarkNote(n, status)
    BY <1>5 DEF DropFunding, Discover, Discard
  <2>2. status \in Statuses
    BY DEF Statuses
  <2>3. UNCHANGED <<block, vault, history, cli>>
    BY <1>5 DEF DropFunding, Discover, Discard
  <2>4. /\ Len(notes') = Len(notes) /\ notes'[n].status = status
        /\ \A i \in Published : i # n => notes'[i] = notes[i]
    BY <1>1, <2>1, <2>2, MarkedNotes
  <2>5. OnlyTime
    BY <2>3, <2>4 DEF OnlyTime
  <2> QED
    BY <2>3, <2>4, <2>5
<1>6. ASSUME NEW n \in Published, ExecuteNote(n)
      PROVE  /\ UNCHANGED cli /\ Len(notes') = Len(notes)
             /\ block' = block + 1 /\ \E t : VaultTransaction(t)
  <2>1. PICK payout :
          payout = IF notes[n].kind = "claim" THEN vault.balance ELSE 0
    OBVIOUS
  <2>2. PICK t : t = [block |-> block + 1, note |-> n, payout |-> payout]
    OBVIOUS
  <2>3. MarkNote(n, "executed") /\ "executed" \in Statuses /\ UNCHANGED cli
    BY <1>6 DEF ExecuteNote, Statuses
  <2>4. /\ Len(notes') = Len(notes)
        /\ \A i \in Published : i # n => notes'[i] = notes[i]
    BY <1>1, <2>3, MarkedNotes
  <2>5. /\ ~vault.claimed /\ notes[n].status = "discovered"
        /\ block' = block + 1 /\ history' = history \union {t}
    BY <1>6, <2>1, <2>2 DEF ExecuteNote, Executable, NewVaultBlock
  <2>6. VaultTransaction(t)
    BY <2>1, <2>2, <2>4, <2>5 DEF VaultTransaction
  <2> QED
    BY <2>3, <2>4, <2>5, <2>6
<1> QED
  BY <1>2, <1>3, <1>4, <1>5, <1>6 DEF Chain

LEMMA ChainKeepsHistory ==
  ASSUME IInv, OrderlyHistory, Chain
  PROVE  OrderlyHistory'
<1>1. /\ history \subseteq VaultTxType /\ block \in Nat /\ Len(notes) \in Nat
      /\ \A t \in history : t.block \in Nat
  BY BoundAssumption DEF IInv, TypeOK, VaultTxType
<1>2. Len(notes') = Len(notes) /\ block' \in {block, block + 1}
  BY ChainMoves
<1>3. CASE OnlyTime
  BY <1>1, <1>2, <1>3 DEF OnlyTime, OrderlyHistory
<1>4. CASE \E t : VaultTransaction(t)
  <2>1. PICK t : VaultTransaction(t)
    BY <1>4
  <2>2. history' = history \union {t} /\ t.block = block + 1
    BY <2>1 DEF VaultTransaction
  <2>3. t.note <= Len(notes)
    BY <1>1, <2>1 DEF VaultTransaction, Published
  <2>4. \A u \in history : ~(u.payout > 0) /\ u.block <= block
    BY <2>1 DEF VaultTransaction, IInv, SoundChain, Drained, OrderlyHistory
  <2>5. \A u \in history' : u.note <= Len(notes') /\ u.block <= block'
    BY <1>1, <1>2, <2>1, <2>2, <2>3, <2>4
    DEF VaultTransaction, OrderlyHistory
  <2>6. \A u \in history' : u.block <= t.block
    BY <1>1, <2>2, <2>4
  <2> QED
    BY <2>2, <2>4, <2>5, <2>6 DEF OrderlyHistory
<1> QED
  BY <1>3, <1>4, ChainMoves

(* A claim that is steady knows what it knew, whatever the chain does: a   *)
(* transaction that consumes its note pays what the claim saw.             *)
LEMMA ChainKeepsClaims ==
  ASSUME IInv, ClaimInv, Chain, Steady
  PROVE  ClaimInv'
<1>1. OrderlyHistory'
  BY ChainKeepsHistory DEF ClaimInv
<1>2. /\ cli' = cli /\ block \in Nat /\ block' \in {block, block + 1}
      /\ \A t \in history : t.block \in Nat /\ t.block <= block
  BY ChainMoves, BoundAssumption
  DEF IInv, TypeOK, VaultTxType, ClaimInv, OrderlyHistory
<1>3. ASSUME NEW s \in Sessions PROVE ClaimFacts(cli[s])'
  <2>1. PICK x : x = cli[s]
    OBVIOUS
  <2>2. ClaimFacts(x) /\ SoundSession(x) /\ x \in SessionType
    BY <2>1 DEF ClaimInv, IInv, TypeOK
  <2>3. CASE x.kind = "claim"
    <3>1. /\ history \subseteq history'
          /\ vault' = vault \/ ~vault.claimed
      BY ChainMoves DEF OnlyTime, VaultTransaction
    <3>2. x.stage \in Unpaid /\ ~vault'.claimed =>
            vault'.balance = x.before.balance
      BY <2>1, <2>2, <2>3, <3>1 DEF ClaimFacts, Steady
    <3>3. ASSUME x.stage \in Submitted, NEW t \in history', t.note = x.note
          PROVE  t.payout = x.before.balance
      <4>1. CASE t \in history
        BY <2>2, <2>3, <3>3, <4>1 DEF ClaimFacts
      <4>2. CASE t \notin history
        <5>1. VaultTransaction(t)
          <6>1. ~OnlyTime
            BY <3>3, <4>2 DEF OnlyTime
          <6>2. PICK u : VaultTransaction(u)
            BY <6>1, ChainMoves
          <6> QED
            BY <3>3, <4>2, <6>2 DEF VaultTransaction
        <5>2. x.note \in Published /\ notes[x.note].kind = "claim"
          BY <2>2, <2>3, <3>3 DEF SoundSession, Submitted
        <5>3. x.note # 0
          BY <5>2 DEF Published
        <5>4. /\ notes[x.note].status = "discovered" /\ ~vault.claimed
              /\ t.payout = vault.balance
          BY <3>3, <5>1, <5>2, <5>3 DEF VaultTransaction
        <5>5. x.stage \in Unpaid
          BY <2>2, <3>3, <5>4
          DEF SoundSession, Executed, Submitted, Unpaid
        <5> QED
          BY <2>2, <2>3, <5>4, <5>5 DEF ClaimFacts
      <4> QED
        BY <4>1, <4>2
    <3>4. ASSUME x.stage = "polling", NullifierCommitted(x.note)'
          PROVE  \E t \in history' :
                   t.note = x.note /\ (t.block <= x.header \/ t.block = block')
      <4>1. x.note \in Published
        BY <2>2, <3>4 DEF SoundSession
      <4>2. CASE NullifierCommitted(x.note)
        <5>1. PICK t \in history :
                t.note = x.note /\ (t.block <= x.header \/ t.block = block)
          BY <2>2, <2>3, <3>4, <4>2 DEF ClaimFacts
        <5>2. CASE \E u \in history : u.note = x.note /\ u.block <= x.header
          BY <3>1, <5>2
        <5>3. CASE ~\E u \in history : u.note = x.note /\ u.block <= x.header
          <6>1. x.header \in Nat
            BY <2>2 DEF SessionType
          <6>2. LateExecution(s)
            BY <1>2, <2>1, <3>4, <4>2, <5>3, <6>1 DEF LateExecution
          <6>3. block' = block
            BY <2>1, <2>3, <6>2 DEF Steady
          <6> QED
            BY <3>1, <5>1, <5>3, <6>3
        <5> QED
          BY <5>2, <5>3
      <4>3. CASE ~NullifierCommitted(x.note)
        <5>1. ~OnlyTime
          BY <3>4, <4>1, <4>3 DEF OnlyTime, NullifierCommitted
        <5>2. PICK t : VaultTransaction(t)
          BY <5>1, ChainMoves
        <5>3. t.note = x.note
          BY <3>4, <4>1, <4>3, <5>2
          DEF VaultTransaction, NullifierCommitted
        <5>4. t \in history' /\ t.block = block'
          BY <5>2 DEF VaultTransaction
        <5> QED
          BY <5>3, <5>4
      <4> QED
        BY <4>2, <4>3
    <3>5. x.stage \in {"executed", "payout"} =>
            \E t \in history' : t.note = x.note /\ t.block >= x.from
      BY <2>2, <2>3, <3>1 DEF ClaimFacts
    <3>6. ClaimFacts(x)'
      BY <2>2, <2>3, <3>2, <3>3, <3>4, <3>5 DEF ClaimFacts
    <3> QED
      BY <1>2, <2>1, <3>6 DEF ClaimFacts, NullifierCommitted
  <2>4. CASE x.kind # "claim"
    BY <1>2, <2>1, <2>2, <2>4 DEF ClaimFacts
  <2> QED
    BY <2>3, <2>4
<1> QED
  BY <1>1, <1>3 DEF ClaimInv

LEMMA NextKeepsClaimInv ==
  ASSUME IInv, ClaimInv, [Next]_vars, [Steady]_vars
  PROVE  ClaimInv'
<1>1. CASE UNCHANGED vars
  <2>1. /\ block' = block /\ vault' = vault /\ notes' = notes
        /\ history' = history /\ cli' = cli
    BY <1>1 DEF vars
  <2> QED
    BY <2>1 DEF ClaimInv, OrderlyHistory, ClaimFacts, NullifierCommitted
<1>2. CASE Chain /\ Steady
  BY <1>2, ChainKeepsClaims
<1>3. ASSUME NEW s \in Sessions,
             \/ Launch(s, "heartbeat", 0)
             \/ Launch(s, "claim", 0)
             \/ \E amount \in Amounts : Launch(s, "deposit", amount)
      PROVE  ClaimInv'
  BY <1>3, ClaimantStarts
<1>4. ASSUME NEW s \in Sessions, Step(s) PROVE ClaimInv'
  BY <1>4, ClaimantChecks, ClaimantSubmits, ClaimantWaits,
     ClaimantAttributes, ClaimantConcludes, ClaimantExits
  DEF Step
<1>5. ASSUME NEW s \in Sessions, Crash(s) PROVE ClaimInv'
  BY <1>5, ClaimantExits
<1> QED
  BY <1>1, <1>2, <1>3, <1>4, <1>5 DEF Next

(* Two things only can make a claim miss its payout, and each of them      *)
(* does: a block between the header of a poll and its answer that hides    *)
(* the execution, and a deposit after the claim was checked.  As long as   *)
(* neither happens, to any claim of any number of processes, every claim   *)
(* that was executed finds what it was paid.                               *)
THEOREM SteadyClaimsFindTheirPayout ==
  Spec /\ [][Steady]_vars => []ClaimsFindTheirPayout
<1>1. Init => ClaimInv
  <2> SUFFICES ASSUME Init PROVE ClaimInv
    OBVIOUS
  <2>1. history = {}
    BY DEF Init
  <2>2. \A s \in Sessions : /\ cli[s].kind = "deposit"
                            /\ cli[s].stage = "idle"
                            /\ cli[s].verdict = "none"
    BY DEF Init, Idle
  <2> QED
    BY <2>1, <2>2 DEF ClaimInv, OrderlyHistory, ClaimFacts
<1>2. IInv /\ ClaimInv /\ [Next]_vars /\ [Steady]_vars => ClaimInv'
  BY NextKeepsClaimInv
<1>3. ClaimInv => ClaimsFindTheirPayout
  BY DEF ClaimInv, ClaimFacts, ClaimsFindTheirPayout
<1> QED
  BY <1>1, <1>2, <1>3, InvariantHolds, PTL DEF Spec

(* In particular the message that there is none is not given falsely, as   *)
(* it is in cli_payout.                                                    *)
THEOREM SteadyClaimsAreNotMisled ==
  Spec /\ [][Steady]_vars => []MissingPayoutIsMissing
<1>1. ClaimsFindTheirPayout => MissingPayoutIsMissing
  BY DEF ClaimsFindTheirPayout, MissingPayoutIsMissing
<1> QED
  BY <1>1, SteadyClaimsFindTheirPayout, PTL

-----------------------------------------------------------------------------
(* The chain the commands see keeps the promise of InheritanceContract,    *)
(* which HeirbeatVault, with every guard of the contract's code, keeps.    *)

ServicePhase == IF vault.claimed THEN "closed" ELSE "active"

(* What the beneficiary was paid; there is at most one payout.             *)
PaidOut ==
  IF \E t \in history : t.payout > 0
  THEN (CHOOSE t \in history : t.payout > 0).payout
  ELSE 0

Contract == INSTANCE InheritanceContract WITH
  clock <- block, phase <- ServicePhase, lastBeat <- vault.last,
  pot <- vault.balance, paid <- PaidOut, MaxHeight <- MaxBlock

(* A vault in service, and nothing after it that the contract excludes.    *)
ChainKeepsContract ==
  Contract!InService /\ [][Contract!Next]_(Contract!vars)

(* The last heartbeat was on a block there is.                             *)
BeatInPast == vault.last <= block

(* What one execution of a note does to the vault.                         *)
LEMMA ExecutionOnVault ==
  ASSUME IInv, BeatInPast, NEW n \in Published, ExecuteNote(n)
  PROVE  /\ ~vault.claimed
         /\ vault'.last \in vault.last..block
         /\ notes[n].kind # "claim" =>
              /\ ~vault'.claimed /\ vault'.balance >= vault.balance
         /\ notes[n].kind = "claim" =>
              /\ vault'.claimed /\ vault'.balance = 0
              /\ vault.balance > 0 /\ vault'.last + Timeout <= block
<1>1. /\ block \in Nat /\ vault \in VaultType /\ Timeout \in Nat
      /\ vault.last \in Nat /\ vault.balance \in Nat /\ vault.last <= block
  BY BoundAssumption, VaultAssumption DEF IInv, TypeOK, VaultType, BeatInPast
<1>2. /\ notes[n] \in FeatureNoteType /\ notes[n].block \in Nat
      /\ notes[n].amount \in Nat /\ notes[n].kind \in Kinds
  <2>1. notes[n] \in FeatureNoteType
    BY DEF IInv, TypeOK, Published
  <2> QED
    BY <2>1 DEF FeatureNoteType
<1>3. PICK ref \in notes[n].block..block :
        Executable(n, ref) /\ vault' = Effect(n, ref)
  BY DEF ExecuteNote
<1>4. ref \in Nat /\ ref <= block /\ ~vault.claimed
  BY <1>1, <1>2, <1>3 DEF Executable
<1>5. CASE notes[n].kind = "deposit"
  <2>1. vault' = [vault EXCEPT !.balance = @ + notes[n].amount]
    BY <1>3, <1>5 DEF Effect, Credited
  <2>2. /\ vault'.last = vault.last /\ vault'.claimed = vault.claimed
        /\ vault'.balance = vault.balance + notes[n].amount
    BY <1>1, <2>1 DEF VaultType
  <2> QED
    BY <1>1, <1>2, <1>4, <1>5, <2>2
<1>6. CASE notes[n].kind = "heartbeat"
  <2>1. vault' = [vault EXCEPT !.last = ref]
    BY <1>3, <1>6 DEF Effect
  <2>2. /\ vault'.last = ref /\ vault'.claimed = vault.claimed
        /\ vault'.balance = vault.balance
    BY <1>1, <2>1 DEF VaultType
  <2>3. ref >= vault.last
    BY <1>3, <1>6 DEF Executable
  <2> QED
    BY <1>1, <1>4, <1>6, <2>2, <2>3
<1>7. CASE notes[n].kind = "claim"
  <2>1. vault' = [vault EXCEPT !.claimed = TRUE, !.balance = 0]
    BY <1>3, <1>7 DEF Effect
  <2>2. /\ vault'.last = vault.last /\ vault'.claimed
        /\ vault'.balance = 0
    BY <1>1, <2>1 DEF VaultType
  <2>3. ref >= vault.last + Timeout /\ vault.balance > 0
    BY <1>3, <1>7 DEF Executable
  <2> QED
    BY <1>1, <1>4, <1>7, <2>2, <2>3
<1> QED
  BY <1>2, <1>5, <1>6, <1>7 DEF Kinds

(* A stranger's deposit.                                                   *)
LEMMA DepositOnVault ==
  ASSUME IInv, NEW amount \in OtherAmounts, OtherDeposit(amount)
  PROVE  /\ ~vault.claimed /\ ~vault'.claimed
         /\ vault'.last = vault.last /\ vault'.balance >= vault.balance
<1>1. vault \in VaultType /\ vault.balance \in Nat /\ amount \in Nat
  BY AmountsAssumption DEF IInv, TypeOK, VaultType
<1>2. ~vault.claimed /\ vault' = [vault EXCEPT !.balance = @ + amount]
  BY DEF OtherDeposit, Credited
<1>3. /\ vault'.last = vault.last /\ vault'.claimed = vault.claimed
      /\ vault'.balance = vault.balance + amount
  BY <1>1, <1>2 DEF VaultType
<1> QED
  BY <1>1, <1>2, <1>3

(* Before the payout there is none, and the transaction that pays is the   *)
(* one that is found.                                                      *)
LEMMA PaidBy ==
  ASSUME IInv, ~vault.claimed, NEW n, NEW payout \in Nat,
         NewVaultBlock(n, payout)
  PROVE  PaidOut = 0 /\ PaidOut' = payout
<1>1. \A t \in history : ~(t.payout > 0)
  BY DEF IInv, SoundChain, Drained
<1>2. PICK t : t = [block |-> block + 1, note |-> n, payout |-> payout]
  OBVIOUS
<1>3. history' = history \union {t} /\ t.payout = payout
  BY <1>2 DEF NewVaultBlock
<1>4. PaidOut = 0
  BY <1>1 DEF PaidOut
<1>5. CASE payout > 0
  <2>1. \A u \in history' : u.payout > 0 => u = t
    BY <1>1, <1>3
  <2>2. \E u \in history' : u.payout > 0
    BY <1>3, <1>5
  <2>3. (CHOOSE u \in history' : u.payout > 0) = t
    BY <2>1, <2>2
  <2>4. PaidOut' = t.payout
    BY <2>2, <2>3 DEF PaidOut
  <2> QED
    BY <1>3, <1>4, <2>4
<1>6. CASE ~(payout > 0)
  <2>1. \A u \in history' : ~(u.payout > 0)
    BY <1>1, <1>3, <1>6
  <2>2. PaidOut' = 0
    BY <2>1 DEF PaidOut
  <2>3. payout = 0
    BY <1>6
  <2> QED
    BY <1>4, <2>2, <2>3
<1> QED
  BY <1>5, <1>6

LEMMA ExecutionKeepsContract ==
  ASSUME IInv, BeatInPast, NEW n \in Published, ExecuteNote(n)
  PROVE  Contract!Next
<1>1. /\ block \in Nat /\ vault.balance \in Nat
      /\ block < MaxBlock /\ block' = block + 1
  BY BoundAssumption
  DEF IInv, TypeOK, VaultType, ExecuteNote, NewVaultBlock
<1>2. PICK payout :
        payout = IF notes[n].kind = "claim" THEN vault.balance ELSE 0
  OBVIOUS
<1>3. payout \in Nat /\ NewVaultBlock(n, payout)
  BY <1>1, <1>2 DEF ExecuteNote
<1>4. ~vault.claimed /\ vault'.last \in vault.last..block
  BY ExecutionOnVault
<1>5. PaidOut = 0 /\ PaidOut' = payout
  BY <1>3, <1>4, PaidBy
<1>6. CASE notes[n].kind = "claim"
  <2>1. /\ vault'.claimed /\ vault'.balance = 0
        /\ vault.balance > 0 /\ vault'.last + Timeout <= block
    BY <1>6, ExecutionOnVault
  <2>2. Contract!PayOut
    BY <1>1, <1>2, <1>4, <1>5, <1>6, <2>1
    DEF Contract!PayOut, Contract!Executes, Contract!NextBlock, ServicePhase
  <2> QED
    BY <2>2 DEF Contract!Next
<1>7. CASE notes[n].kind # "claim"
  <2>1. ~vault'.claimed /\ vault'.balance >= vault.balance
    BY <1>7, ExecutionOnVault
  <2>2. Contract!Serve
    BY <1>1, <1>2, <1>4, <1>5, <1>7, <2>1
    DEF Contract!Serve, Contract!Executes, Contract!NextBlock, ServicePhase
  <2> QED
    BY <2>2 DEF Contract!Next
<1> QED
  BY <1>6, <1>7

LEMMA ChainStepKeepsContract ==
  ASSUME IInv, BeatInPast, Chain
  PROVE  [Contract!Next]_(Contract!vars) /\ BeatInPast'
<1>1. block \in Nat /\ vault.last \in Nat /\ vault.last <= block
  BY BoundAssumption DEF IInv, TypeOK, VaultType, BeatInPast
<1>2. CASE EmptyBlock
  <2>1. /\ block < MaxBlock /\ block' = block + 1
        /\ vault' = vault /\ history' = history
    BY <1>2 DEF EmptyBlock
  <2>2. Contract!Tick
    BY <2>1 DEF Contract!Tick, Contract!NextBlock, ServicePhase, PaidOut
  <2>3. BeatInPast'
    BY <1>1, <2>1 DEF BeatInPast
  <2> QED
    BY <2>2, <2>3 DEF Contract!Next
<1>3. ASSUME NEW amount \in OtherAmounts, OtherDeposit(amount)
      PROVE  [Contract!Next]_(Contract!vars) /\ BeatInPast'
  <2>1. /\ ~vault.claimed /\ ~vault'.claimed
        /\ vault'.last = vault.last /\ vault'.balance >= vault.balance
    BY <1>3, DepositOnVault
  <2>2. NewVaultBlock(0, 0) /\ block < MaxBlock /\ block' = block + 1
    BY <1>3 DEF OtherDeposit, NewVaultBlock
  <2>3. PaidOut = 0 /\ PaidOut' = 0
    BY <2>1, <2>2, PaidBy
  <2>4. Contract!Serve
    BY <1>1, <2>1, <2>2, <2>3
    DEF Contract!Serve, Contract!Executes, Contract!NextBlock, ServicePhase
  <2>5. BeatInPast'
    BY <1>1, <2>1, <2>2 DEF BeatInPast
  <2> QED
    BY <2>4, <2>5 DEF Contract!Next
<1>4. ASSUME NEW n \in Published, CommitFunding(n)
      PROVE  [Contract!Next]_(Contract!vars) /\ BeatInPast'
  <2>1. /\ block < MaxBlock /\ block' = block + 1
        /\ vault' = vault /\ history' = history
    BY <1>4 DEF CommitFunding
  <2>2. Contract!Tick
    BY <2>1 DEF Contract!Tick, Contract!NextBlock, ServicePhase, PaidOut
  <2>3. BeatInPast'
    BY <1>1, <2>1 DEF BeatInPast
  <2> QED
    BY <2>2, <2>3 DEF Contract!Next
<1>5. ASSUME NEW n \in Published, DropFunding(n) \/ Discover(n) \/ Discard(n)
      PROVE  [Contract!Next]_(Contract!vars) /\ BeatInPast'
  <2>1. block' = block /\ vault' = vault /\ history' = history
    BY <1>5 DEF DropFunding, Discover, Discard
  <2> QED
    BY <1>1, <2>1 DEF Contract!vars, ServicePhase, PaidOut, BeatInPast
<1>6. ASSUME NEW n \in Published, ExecuteNote(n)
      PROVE  [Contract!Next]_(Contract!vars) /\ BeatInPast'
  <2>1. Contract!Next
    BY <1>6, ExecutionKeepsContract
  <2>2. vault'.last \in vault.last..block /\ block' = block + 1
    BY <1>6, ExecutionOnVault DEF ExecuteNote, NewVaultBlock
  <2>3. BeatInPast'
    BY <1>1, <2>2 DEF BeatInPast
  <2> QED
    BY <2>1, <2>3
<1> QED
  BY <1>2, <1>3, <1>4, <1>5, <1>6 DEF Chain

(* So what the commands are checked against, which knows neither allowlist *)
(* nor transactions, allows no heartbeat, deposit or payout that the       *)
(* contract of the vault excludes; the commands themselves never touch it. *)
THEOREM ChainRefinesContract == Spec => ChainKeepsContract
<1>1. Init => Contract!InService /\ BeatInPast
  <2> SUFFICES ASSUME Init PROVE Contract!InService /\ BeatInPast
    OBVIOUS
  <2>1. /\ block = 0 /\ history = {}
        /\ vault.last = 0 /\ vault.balance = 0 /\ vault.claimed = FALSE
    BY DEF Init, FreshVault
  <2> QED
    BY <2>1 DEF Contract!InService, ServicePhase, PaidOut, BeatInPast
<1>2. IInv /\ BeatInPast /\ [Next]_vars =>
        [Contract!Next]_(Contract!vars) /\ BeatInPast'
  <2> SUFFICES ASSUME IInv, BeatInPast, [Next]_vars
               PROVE  [Contract!Next]_(Contract!vars) /\ BeatInPast'
    OBVIOUS
  <2>1. CASE Chain
    BY <2>1, ChainStepKeepsContract
  <2>2. ASSUME NEW s \in Sessions,
               \/ \E kind, amount : Launch(s, kind, amount)
               \/ Step(s) \/ Crash(s)
        PROVE  UNCHANGED <<block, vault, history>>
    BY <2>2
    DEF chain, Step, Launch, Preflight, Refuse, RefuseDuplicate, Submit,
        RecordPending, GiveUpFunding, ReadHeader, Attribute, PollAgain,
        TimeOut, NoteDiscarded, WrongResult, Complete, LookForPayout,
        CompleteClaim, PayoutMissing, Finish, Crash
  <2>3. CASE ~Chain
    <3>1. UNCHANGED <<block, vault, history>>
      BY <2>2, <2>3 DEF Next, vars
    <3> QED
      BY <3>1 DEF Contract!vars, ServicePhase, PaidOut, BeatInPast
  <2> QED
    BY <2>1, <2>3
<1> QED
  BY <1>1, <1>2, InvariantHolds, PTL DEF Spec, ChainKeepsContract

-----------------------------------------------------------------------------
(* When no command reports an unexpected result.                           *)

(* While a command is between its check of the vault and its verdict, only *)
(* its own note changes the vault.                                         *)
AtWork == {"checked"} \union Submitted

Undisturbed ==
  \A s \in Sessions : cli[s].stage \in AtWork =>
    \/ vault' = vault
    \/ cli[s].stage \in Submitted /\ ExecuteNote(cli[s].note)

(* No check of what a note has done fails.                                 *)
ResultsAreExpected ==
  \A s \in Sessions : cli[s].verdict \notin {"wrong", "wrong_amount"}

(* The vault is what it was before, but for what command x asks for.       *)
DoneAsAsked(x) ==
  /\ x.kind = "heartbeat" => vault.last > x.before.last
  /\ x.kind # "heartbeat" => vault.last = x.before.last
  /\ x.kind = "deposit" => vault.balance = x.before.balance + x.amount
  /\ x.kind = "heartbeat" => vault.balance = x.before.balance
  /\ x.kind = "claim" => vault.balance = 0
  /\ ~x.before.claimed /\ (vault.claimed <=> x.kind = "claim")

(* Until its note is executed the vault is as the command saw it, and the  *)
(* note is on a later block than the last heartbeat it saw, so that the    *)
(* block a heartbeat is executed against is a later one, too.              *)
NotYetDone(x) ==
  LET note == notes[x.note] IN
  /\ vault = x.before /\ ~vault.claimed
  /\ note.status \in {"committed", "discovered"} => vault.last < note.block

WorkFacts(x) ==
  /\ x.stage = "checked" => vault = x.before /\ ~vault.claimed
  /\ x.stage \in Submitted =>
       /\ notes[x.note].amount = x.amount
       /\ IF notes[x.note].status = "executed"
          THEN DoneAsAsked(x) ELSE NotYetDone(x)
  /\ x.verdict \notin {"wrong", "wrong_amount"}

WorkInv == BeatInPast /\ \A s \in Sessions : WorkFacts(cli[s])

(* One process changes to x, on a chain that stays as it is.               *)
LEMMA WorkerStep ==
  ASSUME IInv, WorkInv, NEW s \in Sessions, UNCHANGED chain,
         NEW x, WorkFacts(x), cli' = [cli EXCEPT ![s] = x]
  PROVE  WorkInv'
<1>1. block' = block /\ vault' = vault /\ notes' = notes
  BY DEF chain
<1>2. \A r \in Sessions : cli'[r] = x \/ cli'[r] = cli[r]
  BY DEF IInv, TypeOK
<1>3. ASSUME NEW r \in Sessions PROVE WorkFacts(cli[r])'
  <2>1. PICK y : y = cli'[r]
    OBVIOUS
  <2>2. WorkFacts(y)
    BY <1>2, <2>1 DEF WorkInv
  <2>3. WorkFacts(y)'
    BY <2>2, <1>1 DEF WorkFacts, DoneAsAsked, NotYetDone
  <2> QED
    BY <2>1, <2>3 DEF WorkFacts, DoneAsAsked, NotYetDone
<1> QED
  BY <1>1, <1>3 DEF WorkInv, BeatInPast

LEMMA WorkerEnds ==
  ASSUME IInv, WorkInv, NEW s \in Sessions, UNCHANGED chain,
         NEW v, v \notin {"wrong", "wrong_amount"}, NEW n, Report(s, v, n)
  PROVE  WorkInv'
<1>1. PICK x : x = [Idle EXCEPT !.note = n, !.verdict = v]
  OBVIOUS
<1>2. x.stage = "idle" /\ x.verdict = v
  BY <1>1 DEF Idle
<1>3. WorkFacts(x)
  BY <1>2 DEF WorkFacts, Submitted
<1>4. cli' = [cli EXCEPT ![s] = x]
  BY <1>1 DEF Report
<1> QED
  BY <1>3, <1>4, WorkerStep

LEMMA WorkerStarts ==
  ASSUME IInv, WorkInv, NEW s \in Sessions,
         NEW kind, NEW amount, Launch(s, kind, amount)
  PROVE  WorkInv'
<1>1. PICK x : x = [Idle EXCEPT !.stage = "launched", !.kind = kind,
                                !.amount = amount, !.config = disk]
  OBVIOUS
<1>2. x.stage = "launched" /\ x.verdict = "none"
  BY <1>1 DEF Idle
<1>3. WorkFacts(x)
  BY <1>2 DEF WorkFacts, Submitted
<1>4. cli' = [cli EXCEPT ![s] = x] /\ UNCHANGED chain
  BY <1>1 DEF Launch, Loaded
<1> QED
  BY <1>3, <1>4, WorkerStep

LEMMA WorkerChecks ==
  ASSUME IInv, WorkInv, NEW s \in Sessions, Preflight(s)
  PROVE  WorkInv'
<1>1. cli[s] \in SessionType /\ WorkFacts(cli[s])
  BY DEF IInv, TypeOK, WorkInv
<1>2. PICK x : x = [cli[s] EXCEPT !.stage = "checked", !.before = vault]
  OBVIOUS
<1>3. /\ x.stage = "checked" /\ x.before = vault
      /\ x.verdict = cli[s].verdict
  BY <1>1, <1>2 DEF SessionType
<1>4. ~vault.claimed /\ cli' = [cli EXCEPT ![s] = x] /\ UNCHANGED chain
  BY <1>2 DEF Preflight
<1>5. WorkFacts(x)
  BY <1>1, <1>3, <1>4 DEF WorkFacts, Submitted
<1> QED
  BY <1>4, <1>5, WorkerStep

LEMMA WorkerSubmits ==
  ASSUME IInv, WorkInv, NEW s \in Sessions, Submit(s)
  PROVE  WorkInv'
<1>1. PICK new : new = [kind |-> cli[s].kind, amount |-> cli[s].amount,
                        status |-> "submitted", block |-> 0]
  OBVIOUS
<1>2. PICK m : m = Len(notes) + 1
  OBVIOUS
<1>3. PICK x : x = [cli[s] EXCEPT !.stage = "funding", !.note = m]
  OBVIOUS
<1>4. /\ cli[s] \in SessionType /\ cli \in [Sessions -> SessionType]
      /\ notes \in Seq(FeatureNoteType) /\ Len(notes) \in Nat
      /\ WorkFacts(cli[s])
  BY DEF IInv, TypeOK, WorkInv
<1>5. /\ cli[s].stage = "checked" /\ notes' = Append(notes, new)
      /\ cli' = [cli EXCEPT ![s] = x] /\ block' = block /\ vault' = vault
  BY <1>1, <1>2, <1>3, <1>4 DEF Submit
<1>6. \A i \in Published : notes'[i] = notes[i]
  BY <1>4, <1>5 DEF Published
<1>7. notes'[m] = new
  BY <1>2, <1>4, <1>5
<1>8. ASSUME NEW r \in Sessions PROVE WorkFacts(cli[r])'
  <2>1. PICK y : y = cli'[r]
    OBVIOUS
  <2>2. CASE r = s
    <3>1. /\ y.stage = "funding" /\ y.amount = cli[s].amount /\ y.note = m
          /\ y.before = cli[s].before /\ y.verdict = cli[s].verdict
      BY <1>3, <1>4, <1>5, <2>1, <2>2 DEF SessionType
    <3>2. new.status = "submitted" /\ new.amount = cli[s].amount
      BY <1>1
    <3>3. WorkFacts(y)'
      BY <3>1, <3>2, <1>4, <1>5, <1>7 DEF WorkFacts, NotYetDone, Submitted
    <3> QED
      BY <3>3, <2>1 DEF WorkFacts, DoneAsAsked, NotYetDone
  <2>3. CASE r # s
    <3>1. y = cli[r] /\ WorkFacts(y) /\ SoundSession(y)
      BY <1>4, <1>5, <2>1, <2>3 DEF WorkInv, IInv
    <3>2. y.stage \in Submitted => notes'[y.note] = notes[y.note]
      BY <3>1, <1>6 DEF SoundSession, Submitted
    <3>3. WorkFacts(y)'
      BY <3>1, <3>2, <1>5 DEF WorkFacts, DoneAsAsked, NotYetDone
    <3> QED
      BY <3>3, <2>1 DEF WorkFacts, DoneAsAsked, NotYetDone
  <2> QED
    BY <2>2, <2>3
<1> QED
  BY <1>5, <1>8 DEF WorkInv, BeatInPast

LEMMA WorkerWaits ==
  ASSUME IInv, WorkInv, NEW s \in Sessions,
         \/ RecordPending(s) \/ ReadHeader(s) \/ PollAgain(s)
         \/ Attribute(s) \/ LookForPayout(s)
  PROVE  WorkInv'
<1>1. /\ cli[s] \in SessionType /\ cli \in [Sessions -> SessionType]
      /\ WorkFacts(cli[s]) /\ UNCHANGED chain
  BY DEF IInv, TypeOK, WorkInv, RecordPending, ReadHeader, PollAgain,
         Attribute, LookForPayout
<1>2. \E x : cli' = [cli EXCEPT ![s] = x]
  BY <1>1
  DEF RecordPending, ReadHeader, PollAgain, Attribute, LookForPayout, Continue
<1>3. PICK x : cli' = [cli EXCEPT ![s] = x]
  BY <1>2
<1>4. x = cli'[s]
  BY <1>1, <1>3
<1>5. /\ x.kind = cli[s].kind /\ x.note = cli[s].note
      /\ x.amount = cli[s].amount
      /\ x.before = cli[s].before /\ x.verdict = cli[s].verdict
  BY <1>1, <1>4
  DEF RecordPending, ReadHeader, PollAgain, Attribute, LookForPayout,
      Continue, SessionType
<1>6. cli[s].stage \in Submitted /\ x.stage \in Submitted
  BY <1>1, <1>4
  DEF RecordPending, ReadHeader, PollAgain, Attribute, LookForPayout,
      Continue, Submitted, SessionType
<1>7. x.stage # "checked"
  BY <1>6 DEF Submitted
<1>8. WorkFacts(x)
  BY <1>1, <1>5, <1>6, <1>7 DEF WorkFacts, DoneAsAsked, NotYetDone
<1> QED
  BY <1>1, <1>3, <1>8, WorkerStep

(* The check of the result finds what was asked for.                       *)
LEMMA WorkerIsContent ==
  ASSUME IInv, WorkInv, NEW s \in Sessions, cli[s].stage = "executed"
  PROVE  AsExpected(s)
<1>1. PICK x : x = cli[s]
  OBVIOUS
<1>2. /\ x \in SessionType /\ SoundSession(x) /\ WorkFacts(x)
      /\ x.stage = "executed" /\ vault \in VaultType
  BY <1>1 DEF IInv, TypeOK, WorkInv
<1>3. DoneAsAsked(x)
  BY <1>2 DEF WorkFacts, SoundSession, Executed, Submitted
<1>4. PICK b : b = x.before
  OBVIOUS
<1>5. b \in VaultType /\ x.kind \in Kinds
  BY <1>2, <1>4 DEF SessionType
<1>6. vault = [last |-> vault.last, balance |-> vault.balance,
               claimed |-> vault.claimed]
  BY <1>2 DEF VaultType
<1>7. CASE x.kind = "deposit"
  <2>1. PICK a : a = b.balance + x.amount
    OBVIOUS
  <2>2. PICK no : no = FALSE
    OBVIOUS
  <2>3. vault.last = b.last /\ vault.balance = a /\ vault.claimed = no
    BY <1>2, <1>3, <1>4, <1>7, <2>1, <2>2 DEF DoneAsAsked, VaultType
  <2>4. b.claimed = no
    BY <1>3, <1>4, <1>5, <2>2 DEF DoneAsAsked, VaultType
  <2>5. vault = [b EXCEPT !.balance = a]
    BY <1>5, <1>6, <2>3, <2>4 DEF VaultType
  <2> QED
    BY <1>1, <1>4, <1>7, <2>1, <2>5 DEF AsExpected
<1>8. CASE x.kind = "heartbeat"
  BY <1>1, <1>3, <1>8 DEF AsExpected, DoneAsAsked
<1>9. CASE x.kind = "claim"
  <2>1. PICK yes : yes = TRUE
    OBVIOUS
  <2>2. vault.last = b.last /\ vault.balance = 0 /\ vault.claimed = yes
    BY <1>2, <1>3, <1>4, <1>9, <2>1 DEF DoneAsAsked, VaultType
  <2>3. PICK u : u = [b EXCEPT !.claimed = TRUE]
    OBVIOUS
  <2>4. u = [last |-> b.last, balance |-> b.balance, claimed |-> yes]
    BY <1>5, <2>1, <2>3 DEF VaultType
  <2>5. vault = [u EXCEPT !.balance = 0]
    BY <1>6, <2>2, <2>4
  <2>6. [b EXCEPT !.claimed = TRUE, !.balance = 0] = [u EXCEPT !.balance = 0]
    BY <2>3
  <2> QED
    BY <1>1, <1>4, <1>9, <2>5, <2>6 DEF AsExpected
<1> QED
  BY <1>5, <1>7, <1>8, <1>9 DEF Kinds

LEMMA WorkerExits ==
  ASSUME IInv, WorkInv, NEW s \in Sessions,
         \/ Refuse(s) \/ RefuseDuplicate(s) \/ GiveUpFunding(s)
         \/ TimeOut(s) \/ NoteDiscarded(s) \/ PayoutMissing(s)
         \/ Complete(s) \/ CompleteClaim(s) \/ Crash(s)
  PROVE  WorkInv'
<1>1. \E v, n : v \notin {"wrong", "wrong_amount"} /\ Report(s, v, n)
  BY DEF Refuse, RefuseDuplicate, GiveUpFunding, TimeOut, NoteDiscarded,
         PayoutMissing, Complete, CompleteClaim, Crash, Finish, Exit
<1>2. PICK v, n : v \notin {"wrong", "wrong_amount"} /\ Report(s, v, n)
  BY <1>1
<1>3. UNCHANGED chain
  BY DEF Refuse, RefuseDuplicate, GiveUpFunding, TimeOut, NoteDiscarded,
         PayoutMissing, Complete, CompleteClaim, Crash, Finish
<1> QED
  BY <1>2, <1>3, WorkerEnds

(* What a step of the chain that does not execute note n does to it.       *)
LEMMA NoteMoves ==
  ASSUME IInv, Chain, NEW n \in Published, ~ExecuteNote(n)
  PROVE  /\ notes'[n].amount = notes[n].amount
         /\ notes'[n].status = "executed" <=> notes[n].status = "executed"
         /\ notes'[n].status \in {"committed", "discovered"} =>
              \/ notes'[n].block = block + 1
              \/ /\ notes[n].status \in {"committed", "discovered"}
                 /\ notes'[n].block = notes[n].block
<1>1. TypeOK /\ notes \in Seq(FeatureNoteType) /\ n \in 1..Len(notes)
  BY DEF IInv, TypeOK, Published
<1>2. CASE EmptyBlock \/ \E amount \in OtherAmounts : OtherDeposit(amount)
  BY <1>2 DEF EmptyBlock, OtherDeposit
<1>3. ASSUME NEW m \in Published, CommitFunding(m)
      PROVE  \/ notes'[n] = notes[n]
             \/ /\ notes'[n].amount = notes[n].amount
                /\ notes'[n].block = block + 1
                /\ notes'[n].status = "committed"
                /\ notes[n].status = "submitted"
  <2>1. notes[m] \in FeatureNoteType /\ m \in 1..Len(notes)
    BY <1>1 DEF Published
  <2>2. PICK new : new = [notes[m] EXCEPT !.status = "committed",
                                          !.block = block + 1]
    OBVIOUS
  <2>3. /\ new.status = "committed" /\ new.block = block + 1
        /\ new.amount = notes[m].amount
    BY <2>1, <2>2 DEF FeatureNoteType
  <2>4. notes' = [notes EXCEPT ![m] = new] /\ notes[m].status = "submitted"
    BY <1>1, <1>3, <2>1, <2>2 DEF CommitFunding
  <2>5. /\ notes'[m] = new
        /\ \A i \in 1..Len(notes) : i # m => notes'[i] = notes[i]
    BY <1>1, <2>1, <2>4
  <2> QED
    BY <1>1, <2>3, <2>4, <2>5
<1>4. ASSUME NEW m \in Published, DropFunding(m) \/ Discover(m) \/ Discard(m)
      PROVE  \/ notes'[n] = notes[n]
             \/ /\ notes'[n].amount = notes[n].amount
                /\ notes'[n].block = notes[n].block
                /\ notes[n].status # "executed"
                /\ notes'[n].status # "executed"
                /\ notes'[n].status \in {"committed", "discovered"} =>
                     notes[n].status \in {"committed", "discovered"}
  <2>1. PICK status \in {"dropped", "discovered", "discarded"} :
          /\ MarkNote(m, status) /\ notes[m].status # "executed"
          /\ status = "discovered" => notes[m].status = "committed"
    BY <1>4 DEF DropFunding, Discover, Discard
  <2>2. status \in Statuses
    BY DEF Statuses
  <2>3. /\ notes'[m].status = status /\ notes'[m].amount = notes[m].amount
        /\ \A i \in Published : /\ notes'[i].block = notes[i].block
                                /\ i # m => notes'[i] = notes[i]
    BY <1>1, <2>1, <2>2, MarkedNotes
  <2> QED
    BY <2>1, <2>3
<1>5. ASSUME NEW m \in Published, ExecuteNote(m)
      PROVE  notes'[n] = notes[n]
  <2>1. MarkNote(m, "executed") /\ "executed" \in Statuses
    BY <1>5 DEF ExecuteNote, Statuses
  <2>2. \A i \in Published : i # m => notes'[i] = notes[i]
    BY <1>1, <2>1, MarkedNotes
  <2> QED
    BY <1>5, <2>2
<1> QED
  BY <1>2, <1>3, <1>4, <1>5 DEF Chain

(* Executing the note of a command does what the command asks for.         *)
LEMMA OwnExecution ==
  ASSUME IInv, BeatInPast, NEW s \in Sessions, WorkFacts(cli[s]),
         cli[s].stage \in Submitted, ExecuteNote(cli[s].note), UNCHANGED cli
  PROVE  WorkFacts(cli[s])'
<1>1. PICK x : x = cli[s]
  OBVIOUS
<1>2. PICK n : n = x.note
  OBVIOUS
<1>3. /\ x \in SessionType /\ SoundSession(x) /\ WorkFacts(x)
      /\ x.stage \in Submitted /\ ExecuteNote(n) /\ cli'[s] = x
  BY <1>1, <1>2 DEF IInv, TypeOK
<1>4. /\ n \in Published /\ notes[n].kind = x.kind /\ x.kind \in Kinds
      /\ x.stage # "checked"
  BY <1>2, <1>3 DEF SoundSession, Submitted, SessionType
<1>5. notes[n] \in FeatureNoteType /\ vault \in VaultType /\ TypeOK
  BY <1>4 DEF IInv, TypeOK, Published
<1>6. /\ notes[n].status = "discovered" /\ notes[n].amount = x.amount
      /\ vault = x.before /\ ~vault.claimed /\ vault.last < notes[n].block
  BY <1>2, <1>3 DEF WorkFacts, NotYetDone, ExecuteNote
<1>7. notes'[n].status = "executed" /\ notes'[n].amount = notes[n].amount
  <2>1. MarkNote(n, "executed") /\ "executed" \in Statuses
    BY <1>3 DEF ExecuteNote, Statuses
  <2> QED
    BY <1>4, <1>5, <2>1, MarkedNotes
<1>8. PICK ref \in notes[n].block..block : vault' = Effect(n, ref)
  BY <1>3 DEF ExecuteNote
<1>9. ref > vault.last
  <2>1. /\ notes[n].block \in Nat /\ block \in Nat /\ vault.last \in Nat
    BY <1>5, BoundAssumption DEF FeatureNoteType, VaultType, TypeOK
  <2> QED
    BY <1>6, <1>8, <2>1
<1>10. DoneAsAsked(x)'
  <2>1. CASE x.kind = "deposit"
    <3>1. vault' = [vault EXCEPT !.balance = @ + notes[n].amount]
      BY <1>4, <1>8, <2>1 DEF Effect, Credited
    <3>2. /\ vault'.last = vault.last /\ vault'.claimed = vault.claimed
          /\ vault'.balance = vault.balance + notes[n].amount
      BY <1>5, <3>1 DEF VaultType
    <3> QED
      BY <1>6, <2>1, <3>2 DEF DoneAsAsked
  <2>2. CASE x.kind = "heartbeat"
    <3>1. vault' = [vault EXCEPT !.last = ref]
      BY <1>4, <1>8, <2>2 DEF Effect
    <3>2. /\ vault'.last = ref /\ vault'.claimed = vault.claimed
          /\ vault'.balance = vault.balance
      BY <1>5, <3>1 DEF VaultType
    <3> QED
      BY <1>6, <1>9, <2>2, <3>2 DEF DoneAsAsked
  <2>3. CASE x.kind = "claim"
    <3>1. vault' = [vault EXCEPT !.claimed = TRUE, !.balance = 0]
      BY <1>4, <1>8, <2>3 DEF Effect
    <3>2. vault'.last = vault.last /\ vault'.claimed /\ vault'.balance = 0
      BY <1>5, <3>1 DEF VaultType
    <3> QED
      BY <1>6, <2>3, <3>2 DEF DoneAsAsked
  <2> QED
    BY <1>4, <2>1, <2>2, <2>3 DEF Kinds
<1>11. WorkFacts(x)'
  BY <1>2, <1>3, <1>4, <1>6, <1>7, <1>10 DEF WorkFacts
<1> QED
  BY <1>3, <1>11 DEF WorkFacts, DoneAsAsked, NotYetDone

(* Anything else the chain does leaves it as it is.                        *)
LEMMA OthersExecution ==
  ASSUME IInv, BeatInPast, Chain, NEW s \in Sessions, WorkFacts(cli[s]),
         cli[s].stage \in AtWork => vault' = vault,
         cli[s].stage \in Submitted => ~ExecuteNote(cli[s].note),
         UNCHANGED cli
  PROVE  WorkFacts(cli[s])'
<1>1. PICK x : x = cli[s]
  OBVIOUS
<1>2. PICK n : n = x.note
  OBVIOUS
<1>3. /\ SoundSession(x) /\ WorkFacts(x) /\ cli'[s] = x
      /\ x.stage \in AtWork => vault' = vault
  BY <1>1 DEF IInv
<1>4. CASE x.stage \in Submitted
  <2> SUFFICES WorkFacts(x)'
    BY <1>3 DEF WorkFacts, DoneAsAsked, NotYetDone
  <2>1. n \in Published /\ ~ExecuteNote(n) /\ vault' = vault
        /\ x.stage # "checked"
    BY <1>1, <1>2, <1>3, <1>4 DEF SoundSession, Submitted, AtWork
  <2>2. /\ notes'[n].amount = notes[n].amount
        /\ notes'[n].status = "executed" <=> notes[n].status = "executed"
        /\ notes'[n].status \in {"committed", "discovered"} =>
             \/ notes'[n].block = block + 1
             \/ /\ notes[n].status \in {"committed", "discovered"}
                /\ notes'[n].block = notes[n].block
    BY <2>1, NoteMoves
  <2>3. CASE notes[n].status = "executed"
    BY <1>2, <1>3, <1>4, <2>1, <2>2, <2>3 DEF WorkFacts, DoneAsAsked
  <2>4. CASE notes[n].status # "executed"
    <3>1. NotYetDone(x)
      BY <1>2, <1>3, <1>4, <2>4 DEF WorkFacts
    <3>2. vault.last < block + 1
      BY BoundAssumption DEF BeatInPast, IInv, TypeOK, VaultType
    <3>3. NotYetDone(x)'
      BY <1>2, <2>1, <2>2, <3>1, <3>2 DEF NotYetDone
    <3> QED
      BY <1>2, <1>3, <1>4, <2>1, <2>2, <2>4, <3>3 DEF WorkFacts
  <2> QED
    BY <2>3, <2>4
<1>5. CASE x.stage \notin Submitted
  <2>1. WorkFacts(x)'
    BY <1>3, <1>5 DEF WorkFacts, AtWork
  <2> QED
    BY <1>3, <2>1 DEF WorkFacts, DoneAsAsked, NotYetDone
<1> QED
  BY <1>4, <1>5

LEMMA NextKeepsWorkInv ==
  ASSUME IInv, WorkInv, [Next]_vars, [Undisturbed]_vars
  PROVE  WorkInv'
<1>1. CASE UNCHANGED vars
  <2>1. block' = block /\ vault' = vault /\ notes' = notes /\ cli' = cli
    BY <1>1 DEF vars
  <2> QED
    BY <2>1 DEF WorkInv, BeatInPast, WorkFacts, DoneAsAsked, NotYetDone
<1>2. CASE Chain /\ Undisturbed
  <2>1. UNCHANGED cli /\ BeatInPast' /\ BeatInPast
    BY <1>2, ChainMoves, ChainStepKeepsContract DEF WorkInv
  <2>2. ASSUME NEW s \in Sessions PROVE WorkFacts(cli[s])'
    <3>1. CASE cli[s].stage \in Submitted /\ ExecuteNote(cli[s].note)
      BY <2>1, <3>1, OwnExecution DEF WorkInv
    <3>2. CASE ~(cli[s].stage \in Submitted /\ ExecuteNote(cli[s].note))
      <4>1. cli[s].stage \in AtWork => vault' = vault
        BY <1>2, <3>2 DEF Undisturbed
      <4> QED
        BY <1>2, <2>1, <3>2, <4>1, OthersExecution DEF WorkInv
    <3> QED
      BY <3>1, <3>2
  <2> QED
    BY <2>1, <2>2 DEF WorkInv
<1>3. ASSUME NEW s \in Sessions,
             \/ Launch(s, "heartbeat", 0)
             \/ Launch(s, "claim", 0)
             \/ \E amount \in Amounts : Launch(s, "deposit", amount)
      PROVE  WorkInv'
  BY <1>3, WorkerStarts
<1>4. ASSUME NEW s \in Sessions, Step(s) PROVE WorkInv'
  <2>1. ~WrongResult(s)
    BY WorkerIsContent DEF WrongResult
  <2> QED
    BY <1>4, <2>1, WorkerChecks, WorkerSubmits, WorkerWaits, WorkerExits
    DEF Step
<1>5. ASSUME NEW s \in Sessions, Crash(s) PROVE WorkInv'
  BY <1>5, WorkerExits
<1> QED
  BY <1>1, <1>2, <1>3, <1>4, <1>5 DEF Next

(* The errors about an unexpected result have one cause: another           *)
(* transaction changed the vault while the command was under way.  Without *)
(* one, at any number of processes, delays and crashes, every note does    *)
(* what its command checks for; a heartbeat, too, cannot fail to advance,  *)
(* because its note is committed after the check and thus executed against *)
(* a later block than the last one.                                        *)
THEOREM UndisturbedCommandsGetWhatTheyAsk ==
  Spec /\ [][Undisturbed]_vars => []ResultsAreExpected
<1>1. Init => WorkInv
  <2> SUFFICES ASSUME Init PROVE WorkInv
    OBVIOUS
  <2>1. block = 0 /\ vault.last = 0
    BY DEF Init, FreshVault
  <2>2. \A s \in Sessions : cli[s].stage = "idle" /\ cli[s].verdict = "none"
    BY DEF Init, Idle
  <2> QED
    BY <2>1, <2>2 DEF WorkInv, BeatInPast, WorkFacts, Submitted
<1>2. IInv /\ WorkInv /\ [Next]_vars /\ [Undisturbed]_vars => WorkInv'
  BY NextKeepsWorkInv
<1>3. WorkInv => ResultsAreExpected
  BY DEF WorkInv, WorkFacts, ResultsAreExpected
<1> QED
  BY <1>1, <1>2, <1>3, InvariantHolds, PTL DEF Spec
=============================================================================
