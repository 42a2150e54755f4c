------------------------ MODULE WalletCommands_proofs ------------------------
(***************************************************************************)
(* What the file says of faucets and transactions is true of the store and *)
(* of the chain, for any number of processes, runs, faucets and failures.  *)
(*                                                                         *)
(* Faucets, vaults and transactions are only ever added, and what has been *)
(* committed or stored stays so (Grows).  The file, and every process's    *)
(* copy of it, is therefore good for ever once it is good when written     *)
(* (Good), which it is because a process knows of the transaction it waits *)
(* for what that one used up (Knows).                                      *)
(***************************************************************************)
EXTENDS WalletCommands, FiniteSetTheorems, TLAPS

IsIn(T, t, kind) ==
  t \in DOMAIN T /\ T[t].kind = kind /\ T[t].status = "committed"

(* A mint that is complete except for what is submitted last.              *)
MintIn(T, t) == IsIn(T, t, "mint") /\ IsIn(T, T[t].input, "fund")

Good(T, F, V, c) ==
  /\ c.faucet # 0 => c.faucet \in DOMAIN F /\ F[c.faucet].stored
  /\ c.vault # 0 => c.vault \in DOMAIN V
  /\ c.deploy # 0 => IsIn(T, c.deploy, "deploy")
  /\ c.fund # 0 => IsIn(T, c.fund, "fund")
  /\ c.payout # 0 => IsIn(T, c.payout, "payout")
  /\ c.mint # 0 =>
       /\ MintIn(T, c.mint)
       /\ \E t \in DOMAIN T : IsIn(T, t, "collect") /\ T[t].input = c.mint
  /\ c.consume # 0 =>
       IsIn(T, c.consume, "consume") /\ IsIn(T, T[c.consume].input, "payout")

Knows(T, F, x) ==
  /\ x.stage = "keyed" => x.faucet \in DOMAIN F
  /\ x.stage = "created" => x.faucet \in DOMAIN F /\ F[x.faucet].stored
  /\ x.stage = "deploying" => T[x.tx].kind = "deploy"
  /\ x.stage = "funding" => T[x.tx].kind = "fund"
  /\ x.stage = "counted" =>
       IsIn(T, x.tx, IF x.command = "mint" THEN "fund" ELSE "payout")
  /\ x.stage = "minting" => T[x.tx].kind = "mint"
                            /\ IsIn(T, T[x.tx].input, "fund")
  /\ x.stage = "taking" /\ x.command = "mint" =>
       T[x.tx].kind = "collect" /\ MintIn(T, T[x.tx].input)
  /\ x.stage = "taking" /\ x.command # "mint" =>
       T[x.tx].kind = "consume" /\ IsIn(T, T[x.tx].input, "payout")

FileGood == Good(txs, faucets, vaults, disk)
CopyGood(s) == Good(txs, faucets, vaults, cli[s].config)
SessionKnows(s) == Knows(txs, faucets, cli[s])
VaultsUsable == \A v \in DOMAIN vaults : faucets[vaults[v]].stored

IInv ==
  /\ TypeOK /\ FileGood /\ VaultsUsable
  /\ \A s \in Sessions : CopyGood(s) /\ SessionKnows(s)

LEMMA InitHolds == Init => IInv
<1> SUFFICES ASSUME Init PROVE IInv OBVIOUS
<1>1. disk \in ConfigType /\ EmptyConfig \in ConfigType
  BY DEF Init, ConfigType, EmptyConfig
<1>2. Idle \in SessionType
  BY <1>1 DEF Idle, SessionType, Stages, Commands
<1>3. \A s \in Sessions : cli[s] = Idle /\ cli[s].stage = "idle"
  BY DEF Init, Idle
<1>4. faucets \in Seq(FaucetType) /\ txs \in Seq(TxType)
      /\ vaults \in Seq(1..Len(faucets)) /\ DOMAIN vaults = {}
  BY DEF Init
<1>5. TypeOK
  BY <1>1, <1>2, <1>3, <1>4, BoundAssumption DEF Init, TypeOK, Waiting
<1>6. Good(txs, faucets, vaults, EmptyConfig)
  BY DEF Good, EmptyConfig
<1>7. ASSUME NEW s \in Sessions PROVE CopyGood(s) /\ SessionKnows(s)
  <2>1. cli[s].config = EmptyConfig
    BY <1>3 DEF Idle
  <2> QED BY <1>3, <1>6, <2>1 DEF CopyGood, SessionKnows, Knows
<1>8. FileGood /\ VaultsUsable
  BY <1>4, <1>6 DEF Init, FileGood, VaultsUsable
<1> QED BY <1>5, <1>7, <1>8 DEF IInv

-----------------------------------------------------------------------------
(* What only grows.                                                        *)

Grows(T, F, V, T2, F2, V2) ==
  /\ DOMAIN T \subseteq DOMAIN T2
  /\ DOMAIN F \subseteq DOMAIN F2
  /\ DOMAIN V \subseteq DOMAIN V2
  /\ \A t \in DOMAIN T :
       /\ T2[t].kind = T[t].kind /\ T2[t].input = T[t].input
       /\ T[t].status = "committed" => T2[t].status = "committed"
  /\ \A f \in DOMAIN F : F[f].stored => F2[f].stored
  /\ \A v \in DOMAIN V : V2[v] = V[v]

LEMMA GoodPersists ==
  ASSUME NEW T, NEW F, NEW V, NEW T2, NEW F2, NEW V2, NEW c,
         Grows(T, F, V, T2, F2, V2), Good(T, F, V, c)
  PROVE  Good(T2, F2, V2, c)
<1>1. ASSUME NEW t, NEW kind, IsIn(T, t, kind)
      PROVE  IsIn(T2, t, kind) /\ T2[t].input = T[t].input
  BY <1>1 DEF Grows, IsIn
<1>2. ASSUME NEW t, MintIn(T, t) PROVE MintIn(T2, t)
  BY <1>1, <1>2 DEF MintIn
<1>3. ASSUME c.mint # 0
      PROVE  /\ MintIn(T2, c.mint)
             /\ \E t \in DOMAIN T2 :
                  IsIn(T2, t, "collect") /\ T2[t].input = c.mint
  <2>1. PICK t \in DOMAIN T : IsIn(T, t, "collect") /\ T[t].input = c.mint
    BY <1>3 DEF Good
  <2>2. MintIn(T2, c.mint)
    BY <1>2, <1>3 DEF Good
  <2>3. t \in DOMAIN T2
    BY DEF Grows
  <2> QED BY <1>1, <2>1, <2>2, <2>3
<1>4. ASSUME c.consume # 0
      PROVE  IsIn(T2, c.consume, "consume")
             /\ IsIn(T2, T2[c.consume].input, "payout")
  BY <1>1, <1>4 DEF Good
<1>5. c.faucet # 0 => c.faucet \in DOMAIN F2 /\ F2[c.faucet].stored
  BY DEF Good, Grows
<1>6. c.vault # 0 => c.vault \in DOMAIN V2
  BY DEF Good, Grows
<1> QED BY <1>1, <1>3, <1>4, <1>5, <1>6 DEF Good

LEMMA KnowsPersists ==
  ASSUME NEW T, NEW F, NEW V, NEW T2, NEW F2, NEW V2, NEW x,
         Grows(T, F, V, T2, F2, V2), Knows(T, F, x),
         x.stage \in Waiting => x.tx \in DOMAIN T
  PROVE  Knows(T2, F2, x)
<1>1. ASSUME NEW t, NEW kind, IsIn(T, t, kind)
      PROVE  IsIn(T2, t, kind) /\ T2[t].input = T[t].input
  BY <1>1 DEF Grows, IsIn
<1>2. ASSUME NEW t, MintIn(T, t) PROVE MintIn(T2, t)
  BY <1>1, <1>2 DEF MintIn
<1>3. x.stage \in Waiting => /\ T2[x.tx].kind = T[x.tx].kind
                             /\ T2[x.tx].input = T[x.tx].input
  BY DEF Grows
<1>4. /\ x.stage = "keyed" => x.faucet \in DOMAIN F2
      /\ x.stage = "created" => x.faucet \in DOMAIN F2 /\ F2[x.faucet].stored
  BY DEF Knows, Grows
<1>5. /\ x.stage = "deploying" => T2[x.tx].kind = "deploy"
      /\ x.stage = "funding" => T2[x.tx].kind = "fund"
  BY <1>3 DEF Knows, Waiting
<1>6. x.stage = "counted" =>
        IsIn(T2, x.tx, IF x.command = "mint" THEN "fund" ELSE "payout")
  BY <1>1 DEF Knows
<1>7. x.stage = "minting" =>
        T2[x.tx].kind = "mint" /\ IsIn(T2, T2[x.tx].input, "fund")
  BY <1>1, <1>3 DEF Knows, Waiting
<1>8. x.stage = "taking" /\ x.command = "mint" =>
        T2[x.tx].kind = "collect" /\ MintIn(T2, T2[x.tx].input)
  BY <1>2, <1>3 DEF Knows, Waiting
<1>9. x.stage = "taking" /\ x.command # "mint" =>
        T2[x.tx].kind = "consume" /\ IsIn(T2, T2[x.tx].input, "payout")
  BY <1>1, <1>3 DEF Knows, Waiting
<1> QED BY <1>4, <1>5, <1>6, <1>7, <1>8, <1>9 DEF Knows

(* Every process's copy and knowledge survive a step of somebody else.     *)
LEMMA OthersPersist ==
  ASSUME IInv, Grows(txs, faucets, vaults, txs', faucets', vaults'),
         NEW r \in Sessions, cli'[r] = cli[r]
  PROVE  CopyGood(r)' /\ SessionKnows(r)'
<1>1. CopyGood(r) /\ SessionKnows(r)
  BY DEF IInv
<1>2. cli[r].stage \in Waiting => cli[r].tx \in DOMAIN txs
  BY DEF IInv, TypeOK
<1>3. Good(txs', faucets', vaults', cli[r].config)
  BY <1>1, GoodPersists DEF CopyGood
<1>4. Knows(txs', faucets', cli[r])
  BY <1>1, <1>2, KnowsPersists DEF SessionKnows
<1> QED BY <1>3, <1>4 DEF CopyGood, SessionKnows

(* Vaults inherit usable faucets as long as the new ones do.               *)
LEMMA VaultsPersist ==
  ASSUME IInv, Grows(txs, faucets, vaults, txs', faucets', vaults'),
         vaults' = vaults
  PROVE  VaultsUsable' /\ vaults' \in Seq(1..Len(faucets))
<1>1. vaults \in Seq(1..Len(faucets)) /\ VaultsUsable
      /\ faucets \in Seq(FaucetType)
  BY DEF IInv, TypeOK
<1>2. ASSUME NEW v \in DOMAIN vaults PROVE faucets'[vaults[v]].stored
  <2>1. vaults[v] \in DOMAIN faucets /\ faucets[vaults[v]].stored
    BY <1>1 DEF VaultsUsable
  <2> QED BY <2>1 DEF Grows
<1> QED BY <1>1, <1>2 DEF VaultsUsable

-----------------------------------------------------------------------------
(* Steps of one process.                                                   *)

(* A process becomes x and may change everything else for the better.      *)
LEMMA SessionStep ==
  ASSUME IInv, NEW s \in Sessions, NEW x \in SessionType,
         cli' = [cli EXCEPT ![s] = x],
         x.stage \in Waiting => x.tx \in DOMAIN txs',
         faucets' \in Seq(FaucetType), Len(faucets) <= Len(faucets'),
         txs' \in Seq(TxType), disk' \in ConfigType,
         vaults' = vaults, reserve' = reserve,
         runs' \in 0..MaxRuns, faults' \in 0..MaxFaults,
         Grows(txs, faucets, vaults, txs', faucets', vaults'),
         Knows(txs', faucets', x), Good(txs', faucets', vaults', x.config),
         Good(txs', faucets', vaults', disk')
  PROVE  IInv'
<1>1. cli \in [Sessions -> SessionType]
  BY DEF IInv, TypeOK
<1>2. cli' \in [Sessions -> SessionType] /\ cli'[s] = x
      /\ \A r \in Sessions \ {s} : cli'[r] = cli[r]
  BY <1>1
<1>3. ASSUME NEW r \in Sessions, cli'[r].stage \in Waiting
      PROVE  cli'[r].tx \in DOMAIN txs'
  <2>1. CASE r = s
    BY <1>2, <1>3, <2>1
  <2>2. CASE r # s
    <3>1. cli[r].stage \in Waiting => cli[r].tx \in DOMAIN txs
      BY DEF IInv, TypeOK
    <3> QED BY <1>2, <1>3, <2>2, <3>1 DEF Grows
  <2> QED BY <2>1, <2>2
<1>4. VaultsUsable' /\ vaults' \in Seq(1..Len(faucets'))
  <2>1. VaultsUsable' /\ vaults' \in Seq(1..Len(faucets))
    BY VaultsPersist
  <2>2. Len(faucets) \in Nat /\ Len(faucets') \in Nat
    BY DEF IInv, TypeOK
  <2>3. 1..Len(faucets) \subseteq 1..Len(faucets')
    BY <2>2
  <2> QED BY <2>1, <2>3
<1>5. reserve' \in BOOLEAN
  BY DEF IInv, TypeOK
<1>6. TypeOK'
  BY <1>2, <1>3, <1>4, <1>5 DEF TypeOK
<1>7. ASSUME NEW r \in Sessions PROVE CopyGood(r)' /\ SessionKnows(r)'
  <2>1. CASE r = s
    BY <1>2, <2>1 DEF CopyGood, SessionKnows
  <2>2. CASE r # s
    BY <1>2, <2>2, OthersPersist
  <2> QED BY <2>1, <2>2
<1> QED BY <1>4, <1>6, <1>7 DEF IInv, FileGood

LEMMA NothingChanged ==
  Grows(txs, faucets, vaults, txs, faucets, vaults)
BY DEF Grows

(* A process moves on by itself.                                           *)
LEMMA SessionOnly ==
  ASSUME IInv, NEW s \in Sessions, NEW x \in SessionType,
         cli' = [cli EXCEPT ![s] = x],
         x.stage \in Waiting => x.tx \in DOMAIN txs,
         UNCHANGED <<faucets, vaults, txs, reserve, disk>>,
         runs' \in 0..MaxRuns, faults' \in 0..MaxFaults,
         Knows(txs, faucets, x), Good(txs, faucets, vaults, x.config)
  PROVE  IInv'
<1>1. /\ faucets \in Seq(FaucetType) /\ txs \in Seq(TxType)
      /\ disk \in ConfigType /\ Len(faucets) \in Nat
      /\ Good(txs, faucets, vaults, disk)
  BY DEF IInv, TypeOK, FileGood
<1>2. Len(faucets) <= Len(faucets)
  BY <1>1
<1> QED BY <1>1, <1>2, NothingChanged, SessionStep

LEMMA EndedSession ==
  /\ Idle \in SessionType /\ Idle.stage \notin Waiting
  /\ \A T, F, V : Knows(T, F, Idle) /\ Good(T, F, V, Idle.config)
<1>1. EmptyConfig \in ConfigType
  BY DEF ConfigType, EmptyConfig
<1>2. Idle \in SessionType
  BY <1>1 DEF Idle, SessionType, Stages, Commands
<1>3. Idle.stage = "idle" /\ Idle.config = EmptyConfig
  BY DEF Idle
<1>4. \A T, F, V : Good(T, F, V, EmptyConfig)
  BY DEF Good, EmptyConfig
<1> QED BY <1>2, <1>3, <1>4 DEF Knows, Waiting

LEMMA CountedFault ==
  ASSUME IInv, CountFault \/ faults' = faults
  PROVE  faults' \in 0..MaxFaults
BY BoundAssumption DEF IInv, TypeOK, CountFault

LEMMA SameRuns ==
  ASSUME IInv, runs' = runs
  PROVE  runs' \in 0..MaxRuns
BY DEF IInv, TypeOK

(* A process ends and leaves the file alone.                               *)
LEMMA Ended ==
  ASSUME IInv, NEW s \in Sessions, End(s),
         UNCHANGED <<faucets, vaults, txs, reserve, disk, runs>>,
         CountFault \/ faults' = faults
  PROVE  IInv'
<1>1. cli' = [cli EXCEPT ![s] = Idle]
  BY DEF End
<1>2. runs' \in 0..MaxRuns /\ faults' \in 0..MaxFaults
  BY CountedFault, SameRuns
<1> QED BY <1>1, <1>2, EndedSession, SessionOnly

(* A process writes its copy, with a good entry added, and ends.           *)
LEMMA Finishes ==
  ASSUME IInv, NEW s \in Sessions, NEW c \in ConfigType, Finish(s, c),
         Good(txs, faucets, vaults, c)
  PROVE  IInv'
<1>1. /\ cli' = [cli EXCEPT ![s] = Idle] /\ disk' = c
      /\ UNCHANGED <<faucets, vaults, txs, reserve, runs, faults>>
  BY DEF Finish, Save, End
<1>2. runs' \in 0..MaxRuns /\ faults' \in 0..MaxFaults
  BY <1>1, CountedFault, SameRuns
<1>3. /\ faucets \in Seq(FaucetType) /\ txs \in Seq(TxType)
      /\ Len(faucets) \in Nat
  BY DEF IInv, TypeOK
<1>4. Len(faucets) <= Len(faucets)
  BY <1>3
<1> QED BY <1>1, <1>2, <1>3, <1>4, EndedSession, NothingChanged, SessionStep

(* A process submits: the transaction is the last one from then on.        *)
NewTx(s, kind, input, to) ==
  [kind |-> kind, input |-> input, vault |-> 0, to |-> to,
   faucet |-> cli[s].faucet, status |-> "submitted"]

LEMMA AddedTx ==
  ASSUME txs \in Seq(TxType), NEW tx \in TxType, txs' = Append(txs, tx),
         faucets' = faucets, vaults' = vaults
  PROVE  /\ txs' \in Seq(TxType) /\ Len(txs) + 1 \in DOMAIN txs'
         /\ Len(txs) + 1 \in Nat \ {0}
         /\ txs'[Len(txs) + 1] = tx
         /\ Grows(txs, faucets, vaults, txs', faucets', vaults')
<1>1. Len(txs) \in Nat /\ DOMAIN txs = 1..Len(txs)
      /\ DOMAIN txs' = 1..(Len(txs) + 1)
  OBVIOUS
<1>2. \A t \in DOMAIN txs : txs'[t] = txs[t]
  BY <1>1
<1>3. DOMAIN txs \subseteq DOMAIN txs'
  BY <1>1
<1>4. Grows(txs, faucets, vaults, txs', faucets', vaults')
  BY <1>2, <1>3 DEF Grows
<1> QED BY <1>1, <1>4

LEMMA Submits ==
  ASSUME IInv, NEW s \in Sessions, NEW kind \in Kinds, NEW input \in Nat,
         NEW to \in {"faucet", "owner", "beneficiary"}, NEW stage \in Waiting,
         Submit(s, kind, input, to, stage),
         Grows(txs, faucets, vaults, txs', faucets', vaults')
           /\ txs'[Len(txs) + 1].kind = kind
           /\ txs'[Len(txs) + 1].input = input
         => Knows(txs', faucets', [cli[s] EXCEPT !.stage = stage,
                                                 !.tx = Len(txs) + 1])
  PROVE  IInv'
<1> DEFINE tx == NewTx(s, kind, input, to)
           x == [cli[s] EXCEPT !.stage = stage, !.tx = Len(txs) + 1]
<1>1. cli[s] \in SessionType /\ txs \in Seq(TxType) /\ CopyGood(s)
  BY DEF IInv, TypeOK
<1>2. tx \in TxType /\ tx.kind = kind /\ tx.input = input
  BY <1>1 DEF NewTx, TxType, SessionType
<1>3. txs' = Append(txs, tx) /\ cli' = [cli EXCEPT ![s] = x]
      /\ UNCHANGED <<faucets, vaults, reserve, disk, runs, faults>>
  BY DEF Submit, NewTx
<1>4. /\ txs' \in Seq(TxType) /\ Len(txs) + 1 \in DOMAIN txs'
      /\ Len(txs) + 1 \in Nat /\ txs'[Len(txs) + 1] = tx
      /\ Grows(txs, faucets, vaults, txs', faucets', vaults')
  BY <1>1, <1>2, <1>3, AddedTx
<1>5. x \in SessionType /\ x.stage = stage /\ x.tx = Len(txs) + 1
      /\ x.config = cli[s].config
  BY <1>1, <1>4 DEF SessionType, Waiting, Stages
<1>6. Knows(txs', faucets', x)
  BY <1>2, <1>4
<1>7. Good(txs', faucets', vaults', x.config)
  BY <1>1, <1>4, <1>5, GoodPersists DEF CopyGood
<1>8. Good(txs', faucets', vaults', disk') /\ disk' \in ConfigType
  BY <1>3, <1>4, GoodPersists DEF IInv, FileGood, TypeOK
<1>9. runs' \in 0..MaxRuns /\ faults' \in 0..MaxFaults
  BY <1>3, CountedFault, SameRuns
<1>10. faucets' \in Seq(FaucetType) /\ Len(faucets) <= Len(faucets')
  BY <1>3 DEF IInv, TypeOK
<1> HIDE DEF tx, x
<1> QED BY <1>3, <1>4, <1>5, <1>6, <1>7, <1>8, <1>9, <1>10, SessionStep

-----------------------------------------------------------------------------
(* Steps of the chain.                                                     *)

LEMMA OutsideStep ==
  ASSUME IInv, UNCHANGED <<faucets, cli, runs>>, reserve' \in BOOLEAN,
         txs' \in Seq(TxType), disk' \in ConfigType,
         faults' \in 0..MaxFaults,
         vaults' \in Seq(1..Len(faucets)), VaultsUsable',
         Grows(txs, faucets, vaults, txs', faucets', vaults'),
         Good(txs', faucets', vaults', disk')
  PROVE  IInv'
<1>1. ASSUME NEW s \in Sessions
      PROVE  CopyGood(s)' /\ SessionKnows(s)'
  BY OthersPersist
<1>2. ASSUME NEW s \in Sessions, cli'[s].stage \in Waiting
      PROVE  cli'[s].tx \in DOMAIN txs'
  <2>1. cli'[s] = cli[s] OBVIOUS
  <2>2. cli[s].stage \in Waiting => cli[s].tx \in DOMAIN txs
    BY DEF IInv, TypeOK
  <2> QED BY <1>2, <2>1, <2>2 DEF Grows
<1>3. TypeOK'
  BY <1>2 DEF IInv, TypeOK
<1> QED BY <1>1, <1>3 DEF IInv, FileGood

LEMMA MarkedTx ==
  ASSUME IInv, NEW t \in DOMAIN txs, txs[t].status = "submitted",
         NEW status \in {"committed", "discarded"}, MarkTx(t, status),
         UNCHANGED <<faucets, vaults, reserve, disk, cli, runs>>,
         faults' \in 0..MaxFaults
  PROVE  IInv'
<1>1. txs \in Seq(TxType) /\ txs[t] \in TxType
  BY DEF IInv, TypeOK
<1> DEFINE tx == [txs[t] EXCEPT !.status = status]
<1>2. tx \in TxType /\ tx.kind = txs[t].kind /\ tx.input = txs[t].input
  BY <1>1 DEF TxType
<1>3. txs' = [txs EXCEPT ![t] = tx]
  BY DEF MarkTx
<1>4. txs' \in Seq(TxType) /\ DOMAIN txs' = DOMAIN txs
  BY <1>1, <1>2, <1>3
<1>5. ASSUME NEW i \in DOMAIN txs
      PROVE  /\ txs'[i].kind = txs[i].kind /\ txs'[i].input = txs[i].input
             /\ txs[i].status = "committed" => txs'[i].status = "committed"
  <2>1. CASE i = t
    BY <1>1, <1>2, <1>3, <2>1
  <2>2. CASE i # t
    BY <1>3, <2>2
  <2> QED BY <2>1, <2>2
<1>6. Grows(txs, faucets, vaults, txs', faucets', vaults')
  BY <1>4, <1>5 DEF Grows
<1>7. Good(txs', faucets', vaults', disk')
  BY <1>6, GoodPersists DEF IInv, FileGood
<1>8. VaultsUsable' /\ vaults' \in Seq(1..Len(faucets))
  BY <1>6, VaultsPersist
<1> QED BY <1>4, <1>6, <1>7, <1>8, OutsideStep DEF IInv, TypeOK

LEMMA SettleKeeps == IInv /\ Settle => IInv'
<1> SUFFICES ASSUME IInv, NEW t \in DOMAIN txs, CommitTx(t) \/ DiscardTx(t)
             PROVE  IInv'
  BY DEF Settle
<1>1. CASE CommitTx(t)
  <2>1. faults' \in 0..MaxFaults
    BY <1>1, CountedFault DEF CommitTx
  <2> QED BY <1>1, <2>1, MarkedTx DEF CommitTx
<1>2. CASE DiscardTx(t)
  <2>1. CountFault \/ faults' = faults
    BY <1>2 DEF DiscardTx
  <2>2. faults' \in 0..MaxFaults
    BY <2>1, CountedFault
  <2> QED BY <1>2, <2>2, MarkedTx DEF DiscardTx
<1> QED BY <1>1, <1>2

LEMMA NewVaultKeeps == IInv /\ NewVault => IInv'
<1> SUFFICES ASSUME IInv, NewVault PROVE IInv' OBVIOUS
<1>1. /\ vaults \in Seq(1..Len(faucets)) /\ VaultsUsable
      /\ faucets \in Seq(FaucetType) /\ disk \in ConfigType
      /\ Good(txs, faucets, vaults, disk)
  BY DEF IInv, TypeOK, FileGood
<1>2. disk.faucet \in 1..Len(faucets) /\ faucets[disk.faucet].stored
  BY <1>1 DEF NewVault, Good
<1>3. vaults' = Append(vaults, disk.faucet)
      /\ disk' = [disk EXCEPT !.vault = Len(vaults) + 1]
      /\ UNCHANGED <<faucets, txs, reserve, cli, runs, faults>>
  BY DEF NewVault
<1>4. /\ vaults' \in Seq(1..Len(faucets)) /\ Len(vaults) \in Nat
      /\ DOMAIN vaults' = 1..(Len(vaults) + 1)
      /\ \A v \in DOMAIN vaults : v \in DOMAIN vaults' /\ vaults'[v] = vaults[v]
      /\ \A v \in DOMAIN vaults' : v \in DOMAIN vaults \/ vaults'[v] = disk.faucet
  BY <1>1, <1>2, <1>3
<1>5. VaultsUsable'
  BY <1>1, <1>2, <1>3, <1>4 DEF VaultsUsable
<1>6. Grows(txs, faucets, vaults, txs', faucets', vaults')
  BY <1>3, <1>4 DEF Grows
<1>7. Good(txs', faucets', vaults', disk)
  BY <1>1, <1>6, GoodPersists
<1>8. disk' \in ConfigType /\ disk'.vault \in DOMAIN vaults'
  <2>1. Len(vaults) + 1 \in Nat /\ Len(vaults) + 1 \in DOMAIN vaults'
    BY <1>4
  <2>2. disk' \in ConfigType /\ disk'.vault = Len(vaults) + 1
    BY <1>1, <1>3, <2>1 DEF ConfigType
  <2> QED BY <2>1, <2>2
<1>9. Good(txs', faucets', vaults', disk')
  <2>1. /\ disk'.faucet = disk.faucet /\ disk'.deploy = disk.deploy
        /\ disk'.fund = disk.fund /\ disk'.payout = disk.payout
        /\ disk'.mint = disk.mint /\ disk'.consume = disk.consume
    BY <1>1, <1>3 DEF ConfigType
  <2> QED BY <1>7, <1>8, <2>1 DEF Good
<1> QED BY <1>1, <1>3, <1>4, <1>5, <1>6, <1>8, <1>9, OutsideStep DEF IInv, TypeOK

LEMMA PayOutKeeps == IInv /\ PayOut => IInv'
<1> SUFFICES ASSUME IInv, PayOut PROVE IInv' OBVIOUS
<1> DEFINE v == disk.vault
           tx == [kind |-> "payout", input |-> 0, vault |-> v,
                  faucet |-> vaults[v], to |-> "beneficiary",
                  status |-> "committed"]
<1>1. /\ vaults \in Seq(1..Len(faucets)) /\ txs \in Seq(TxType)
      /\ faucets \in Seq(FaucetType) /\ disk \in ConfigType
      /\ Good(txs, faucets, vaults, disk)
  BY DEF IInv, TypeOK, FileGood
<1>2. v \in Nat /\ vaults[v] \in Nat
  <2>1. v \in DOMAIN vaults
    BY <1>1 DEF PayOut, Good
  <2>2. vaults[v] \in 1..Len(faucets) /\ Len(faucets) \in Nat
    BY <1>1, <2>1
  <2> QED BY <1>1, <2>2 DEF ConfigType
<1>3. tx \in TxType
  BY <1>2 DEF TxType, Kinds
<1>4. txs' = Append(txs, tx) /\ disk' = [disk EXCEPT !.payout = Len(txs) + 1]
      /\ UNCHANGED <<faucets, vaults, reserve, cli, runs, faults>>
  BY DEF PayOut
<1>5. /\ txs' \in Seq(TxType) /\ Len(txs) + 1 \in DOMAIN txs'
      /\ Len(txs) + 1 \in Nat /\ txs'[Len(txs) + 1] = tx
      /\ Grows(txs, faucets, vaults, txs', faucets', vaults')
  BY <1>1, <1>3, <1>4, AddedTx
<1>6. IsIn(txs', Len(txs) + 1, "payout")
  BY <1>5 DEF IsIn
<1>7. Good(txs', faucets', vaults', disk)
  BY <1>1, <1>5, GoodPersists
<1>8. disk' \in ConfigType /\ disk'.payout = Len(txs) + 1
  BY <1>1, <1>4, <1>5 DEF ConfigType
<1>9. Good(txs', faucets', vaults', disk')
  <2>1. /\ disk'.faucet = disk.faucet /\ disk'.deploy = disk.deploy
        /\ disk'.fund = disk.fund /\ disk'.vault = disk.vault
        /\ disk'.mint = disk.mint /\ disk'.consume = disk.consume
    BY <1>1, <1>4 DEF ConfigType
  <2> QED BY <1>6, <1>7, <1>8, <2>1 DEF Good
<1>10. VaultsUsable' /\ vaults' \in Seq(1..Len(faucets))
  BY <1>4, <1>5, VaultsPersist
<1> HIDE DEF tx, v
<1> QED BY <1>4, <1>5, <1>8, <1>9, <1>10, OutsideStep DEF IInv, TypeOK

LEMMA TopUpKeeps == IInv /\ TopUp => IInv'
<1> SUFFICES ASSUME IInv, TopUp PROVE IInv' OBVIOUS
<1>1. UNCHANGED <<faucets, vaults, txs, disk, cli, runs, faults>>
      /\ reserve' \in BOOLEAN
  BY DEF TopUp
<1>2. TypeOK'
  BY <1>1 DEF IInv, TypeOK
<1> QED BY <1>1, <1>2
  DEF IInv, FileGood, VaultsUsable, CopyGood, SessionKnows

-----------------------------------------------------------------------------
(* Steps of the commands.                                                  *)

(* What every step may assume of the process that takes it.                *)
LEMMA AtHand ==
  ASSUME IInv, NEW s \in Sessions
  PROVE  /\ cli \in [Sessions -> SessionType] /\ cli[s] \in SessionType
         /\ cli[s].config \in ConfigType /\ cli[s].faucet \in Nat
         /\ cli[s].stage \in Waiting => cli[s].tx \in DOMAIN txs
         /\ txs \in Seq(TxType) /\ faucets \in Seq(FaucetType)
         /\ disk \in ConfigType
         /\ runs \in 0..MaxRuns /\ faults \in 0..MaxFaults
         /\ Good(txs, faucets, vaults, disk)
         /\ Good(txs, faucets, vaults, cli[s].config)
         /\ Knows(txs, faucets, cli[s])
<1>1. cli \in [Sessions -> SessionType] /\ cli[s] \in SessionType
  BY DEF IInv, TypeOK
<1>2. cli[s].config \in ConfigType /\ cli[s].faucet \in Nat
  BY <1>1 DEF SessionType
<1> QED BY <1>1, <1>2
  DEF IInv, TypeOK, FileGood, CopyGood, SessionKnows

(* A process whose transaction is committed, and what it knows of it.      *)
LEMMA OwnTx ==
  ASSUME IInv, NEW s \in Sessions, NEW stage \in Waiting, NEW command,
         Finished(s, stage, command)
  PROVE  /\ cli[s].stage = stage /\ cli[s].command = command
         /\ cli[s].tx \in DOMAIN txs /\ cli[s].tx \in Nat \ {0}
         /\ IsIn(txs, cli[s].tx, txs[cli[s].tx].kind)
<1>1. cli[s].stage = stage /\ cli[s].command = command
      /\ txs[cli[s].tx].status = "committed"
  BY DEF Finished, At, OwnCommitted
<1>2. cli[s].tx \in DOMAIN txs /\ txs \in Seq(TxType)
  BY <1>1, AtHand
<1>3. cli[s].tx \in Nat \ {0}
  BY <1>2
<1> QED BY <1>1, <1>2, <1>3 DEF IsIn

LEMMA LaunchKeeps ==
  ASSUME IInv, NEW s \in Sessions, NEW command \in Commands,
         NEW force \in BOOLEAN, Launch(s, command, force)
  PROVE  IInv'
<1> DEFINE f == IF command \in {"mint", "consume"} THEN disk.faucet ELSE 0
           x == [Idle EXCEPT !.stage = "launched", !.command = command,
                   !.force = force, !.config = disk, !.faucet = f]
<1>1. disk \in ConfigType /\ Good(txs, faucets, vaults, disk)
      /\ runs \in 0..MaxRuns /\ faults \in 0..MaxFaults
  BY AtHand
<1>2. f \in Nat
  BY <1>1 DEF ConfigType
<1>3. Idle \in SessionType
  BY EndedSession
<1>4. x \in SessionType /\ x.stage = "launched" /\ x.config = disk
  <2> HIDE DEF f
  <2> QED BY <1>1, <1>2, <1>3 DEF SessionType, Stages
<1>5. cli' = [cli EXCEPT ![s] = x]
      /\ UNCHANGED <<faucets, vaults, txs, reserve, disk>>
      /\ runs' = runs + 1 /\ runs < MaxRuns /\ faults' = faults
  BY DEF Launch
<1>6. runs' \in 0..MaxRuns /\ faults' \in 0..MaxFaults
  BY <1>1, <1>5, BoundAssumption
<1>7. Knows(txs, faucets, x) /\ x.stage \notin Waiting
  BY <1>4 DEF Knows, Waiting
<1> HIDE DEF x, f
<1> QED BY <1>1, <1>4, <1>5, <1>6, <1>7, SessionOnly

(* A process moves to a stage in which it need not know anything but its   *)
(* faucet.                                                                 *)
LEMMA Chooses ==
  ASSUME IInv, NEW s \in Sessions, NEW f \in Nat,
         cli' = [cli EXCEPT ![s].stage = "chosen", ![s].faucet = f],
         UNCHANGED <<faucets, vaults, txs, reserve, disk, runs, faults>>
  PROVE  IInv'
<1> DEFINE x == [cli[s] EXCEPT !.stage = "chosen", !.faucet = f]
<1>1. cli[s] \in SessionType /\ Good(txs, faucets, vaults, cli[s].config)
      /\ cli \in [Sessions -> SessionType]
  BY AtHand
<1>2. x \in SessionType /\ x.stage = "chosen" /\ x.config = cli[s].config
  BY <1>1 DEF SessionType, Stages
<1>3. cli' = [cli EXCEPT ![s] = x]
  BY <1>1
<1>4. Knows(txs, faucets, x) /\ x.stage \notin Waiting
  BY <1>2 DEF Knows, Waiting
<1>5. runs' \in 0..MaxRuns /\ faults' \in 0..MaxFaults
  BY CountedFault, SameRuns
<1> HIDE DEF x
<1> QED BY <1>1, <1>2, <1>3, <1>4, <1>5, SessionOnly

LEMMA CreateKeyKeeps ==
  ASSUME IInv, NEW s \in Sessions, NEW cap \in Caps, CreateKey(s, cap)
  PROVE  IInv'
<1> DEFINE new == [cap |-> cap, stored |-> FALSE, forced |-> cli[s].force]
           x == [cli[s] EXCEPT !.stage = "keyed", !.faucet = Len(faucets) + 1]
<1>1. /\ cli[s] \in SessionType /\ cli \in [Sessions -> SessionType]
      /\ faucets \in Seq(FaucetType) /\ txs \in Seq(TxType)
      /\ disk \in ConfigType /\ Good(txs, faucets, vaults, disk)
      /\ Good(txs, faucets, vaults, cli[s].config)
  BY AtHand
<1>2. new \in FaucetType
  BY <1>1, CapsAssumption DEF FaucetType, SessionType
<1>3. faucets' = Append(faucets, new) /\ cli' = [cli EXCEPT ![s] = x]
      /\ UNCHANGED <<vaults, txs, reserve, disk, runs, faults>>
  BY <1>1 DEF CreateKey, Generate
<1>4. /\ faucets' \in Seq(FaucetType) /\ Len(faucets) \in Nat
      /\ Len(faucets') = Len(faucets) + 1
      /\ Len(faucets) + 1 \in DOMAIN faucets'
      /\ DOMAIN faucets \subseteq DOMAIN faucets'
      /\ \A f \in DOMAIN faucets : faucets'[f] = faucets[f]
  BY <1>1, <1>2, <1>3
<1>5. Grows(txs, faucets, vaults, txs', faucets', vaults')
  BY <1>3, <1>4 DEF Grows
<1>6. x \in SessionType /\ x.stage = "keyed" /\ x.faucet = Len(faucets) + 1
      /\ x.config = cli[s].config
  <2>1. Len(faucets) + 1 \in Nat
    BY <1>4
  <2> QED BY <1>1, <2>1 DEF SessionType, Stages
<1>7. Knows(txs', faucets', x) /\ x.stage \notin Waiting
  BY <1>4, <1>6 DEF Knows, Waiting
<1>8. Good(txs', faucets', vaults', disk') /\ disk' \in ConfigType
      /\ Good(txs', faucets', vaults', x.config)
  BY <1>1, <1>3, <1>5, <1>6, GoodPersists
<1>9. runs' \in 0..MaxRuns /\ faults' \in 0..MaxFaults
  BY <1>3, CountedFault, SameRuns
<1>10. txs' \in Seq(TxType) /\ Len(faucets) <= Len(faucets')
  BY <1>1, <1>3, <1>4
<1> HIDE DEF x, new
<1> QED BY <1>3, <1>4, <1>5, <1>6, <1>7, <1>8, <1>9, <1>10, SessionStep

LEMMA AddFaucetKeeps ==
  ASSUME IInv, NEW s \in Sessions, AddFaucet(s)
  PROVE  IInv'
<1> DEFINE f == cli[s].faucet
           x == [cli[s] EXCEPT !.stage = "created"]
<1>1. /\ cli[s] \in SessionType /\ cli \in [Sessions -> SessionType]
      /\ faucets \in Seq(FaucetType) /\ txs \in Seq(TxType)
      /\ disk \in ConfigType /\ Good(txs, faucets, vaults, disk)
      /\ Good(txs, faucets, vaults, cli[s].config)
      /\ Knows(txs, faucets, cli[s])
  BY AtHand
<1>2. f \in DOMAIN faucets
  BY <1>1 DEF AddFaucet, At, Knows
<1> DEFINE new == [faucets[f] EXCEPT !.stored = TRUE]
<1>3. new \in FaucetType /\ new.stored
  <2>1. faucets[f] \in FaucetType
    BY <1>1, <1>2
  <2> QED BY <2>1 DEF FaucetType
<1>4. faucets' = [faucets EXCEPT ![f] = new] /\ cli' = [cli EXCEPT ![s] = x]
      /\ UNCHANGED <<vaults, txs, reserve, disk, runs, faults>>
  BY <1>1 DEF AddFaucet, Continue
<1>5. faucets' \in Seq(FaucetType) /\ DOMAIN faucets' = DOMAIN faucets
      /\ Len(faucets') = Len(faucets) /\ Len(faucets) \in Nat
  BY <1>1, <1>2, <1>3, <1>4
<1>6. \A i \in DOMAIN faucets : faucets[i].stored => faucets'[i].stored
  BY <1>3, <1>4
<1>7. Grows(txs, faucets, vaults, txs', faucets', vaults')
  BY <1>4, <1>5, <1>6 DEF Grows
<1>8. x \in SessionType /\ x.stage = "created" /\ x.faucet = f
      /\ x.config = cli[s].config
  BY <1>1 DEF SessionType, Stages
<1>9. f \in DOMAIN faucets' /\ faucets'[f].stored
  BY <1>2, <1>3, <1>4, <1>5
<1>10. Knows(txs', faucets', x) /\ x.stage \notin Waiting
  BY <1>8, <1>9 DEF Knows, Waiting
<1>11. Good(txs', faucets', vaults', disk') /\ disk' \in ConfigType
       /\ Good(txs', faucets', vaults', x.config)
  BY <1>1, <1>4, <1>7, <1>8, GoodPersists
<1>12. runs' \in 0..MaxRuns /\ faults' \in 0..MaxFaults
  BY <1>4, CountedFault, SameRuns
<1>13. txs' \in Seq(TxType) /\ Len(faucets) <= Len(faucets')
  BY <1>1, <1>4, <1>5
<1> HIDE DEF x, f, new
<1> QED BY <1>4, <1>5, <1>7, <1>8, <1>10, <1>11, <1>12, <1>13, SessionStep

LEMMA SaveFaucetKeeps ==
  ASSUME IInv, NEW s \in Sessions, SaveFaucet(s)
  PROVE  IInv'
<1> DEFINE c == [cli[s].config EXCEPT !.faucet = cli[s].faucet]
           x == [cli[s] EXCEPT !.stage = "chosen", !.config = c]
<1>1. /\ cli[s] \in SessionType /\ cli \in [Sessions -> SessionType]
      /\ faucets \in Seq(FaucetType) /\ txs \in Seq(TxType)
      /\ cli[s].config \in ConfigType /\ cli[s].faucet \in Nat
      /\ Good(txs, faucets, vaults, cli[s].config)
      /\ Knows(txs, faucets, cli[s])
  BY AtHand
<1>2. cli[s].faucet \in DOMAIN faucets /\ faucets[cli[s].faucet].stored
  BY <1>1 DEF SaveFaucet, At, Knows
<1>3. c \in ConfigType /\ c.faucet = cli[s].faucet
  BY <1>1 DEF ConfigType
<1>4. Good(txs, faucets, vaults, c)
  <2>1. /\ c.deploy = cli[s].config.deploy /\ c.fund = cli[s].config.fund
        /\ c.payout = cli[s].config.payout /\ c.vault = cli[s].config.vault
        /\ c.mint = cli[s].config.mint
        /\ c.consume = cli[s].config.consume
    BY <1>1 DEF ConfigType
  <2> HIDE DEF c
  <2> QED BY <1>1, <1>2, <1>3, <2>1 DEF Good
<1>5. disk' = c /\ cli' = [cli EXCEPT ![s] = x]
      /\ UNCHANGED <<faucets, vaults, txs, reserve, runs, faults>>
  BY <1>1 DEF SaveFaucet, Save
<1>6. x \in SessionType /\ x.stage = "chosen" /\ x.config = c
  BY <1>1, <1>3 DEF SessionType, Stages
<1>7. Knows(txs', faucets', x) /\ x.stage \notin Waiting
  BY <1>6 DEF Knows, Waiting
<1>8. runs' \in 0..MaxRuns /\ faults' \in 0..MaxFaults
  BY <1>5, CountedFault, SameRuns
<1>9. Len(faucets) <= Len(faucets')
  BY <1>1, <1>5
<1> HIDE DEF c, x
<1> QED
  BY <1>1, <1>3, <1>4, <1>5, <1>6, <1>7, <1>8, <1>9, NothingChanged, SessionStep

LEMMA SubmitBootstrapKeeps ==
  ASSUME IInv, NEW s \in Sessions, SubmitBootstrap(s)
  PROVE  IInv'
<1>1. Submit(s, "bootstrap", 0, "faucet", "bootstrapping")
  BY DEF SubmitBootstrap
<1> DEFINE x == [cli[s] EXCEPT !.stage = "bootstrapping", !.tx = Len(txs) + 1]
<1>2. x.stage = "bootstrapping"
  BY AtHand DEF SessionType
<1>3. Knows(txs', faucets', x)
  BY <1>2 DEF Knows
<1>4. "bootstrap" \in Kinds /\ "bootstrapping" \in Waiting
  BY DEF Kinds, Waiting
<1> QED BY <1>1, <1>3, <1>4, Submits

(* What is known right after a submission.                                 *)
LEMMA AfterSubmission ==
  ASSUME IInv, NEW s \in Sessions, NEW stage \in Stages
  PROVE  LET x == [cli[s] EXCEPT !.stage = stage, !.tx = Len(txs) + 1]
         IN  /\ x.stage = stage /\ x.tx = Len(txs) + 1
             /\ x.command = cli[s].command
BY AtHand DEF SessionType

LEMMA SubmitDeployKeeps ==
  ASSUME IInv, NEW s \in Sessions, SubmitDeploy(s)
  PROVE  IInv'
<1> DEFINE x == [cli[s] EXCEPT !.stage = "deploying", !.tx = Len(txs) + 1]
<1>1. Finished(s, "bootstrapping", "create-faucet")
      /\ Submit(s, "deploy", cli[s].tx, "faucet", "deploying")
  BY DEF SubmitDeploy
<1>2. "bootstrapping" \in Waiting /\ "deploying" \in Waiting
      /\ "deploying" \in Stages /\ "deploy" \in Kinds
  BY DEF Waiting, Stages, Kinds
<1>3. cli[s].tx \in Nat
  BY <1>1, <1>2, OwnTx
<1>4. x.stage = "deploying" /\ x.tx = Len(txs) + 1
  BY <1>2, AfterSubmission
<1>5. txs'[Len(txs) + 1].kind = "deploy" => Knows(txs', faucets', x)
  <2> HIDE DEF x
  <2> QED BY <1>4 DEF Knows
<1> QED BY <1>1, <1>2, <1>3, <1>5, Submits

LEMMA SubmitFundKeeps ==
  ASSUME IInv, NEW s \in Sessions, SubmitFund(s)
  PROVE  IInv'
<1> DEFINE x == [cli[s] EXCEPT !.stage = "funding", !.tx = Len(txs) + 1]
           to == IF cli[s].command = "mint" THEN "faucet" ELSE "beneficiary"
<1>1. Submit(s, "fund", 0, to, "funding")
  BY DEF SubmitFund
<1>2. "funding" \in Waiting /\ "funding" \in Stages /\ "fund" \in Kinds
      /\ to \in {"faucet", "owner", "beneficiary"}
  BY DEF Waiting, Stages, Kinds
<1>3. x.stage = "funding" /\ x.tx = Len(txs) + 1
  BY <1>2, AfterSubmission
<1>4. txs'[Len(txs) + 1].kind = "fund" => Knows(txs', faucets', x)
  <2> HIDE DEF x
  <2> QED BY <1>3 DEF Knows
<1> HIDE DEF to
<1> QED BY <1>1, <1>2, <1>4, Submits

LEMMA SubmitMintKeeps ==
  ASSUME IInv, NEW s \in Sessions, SubmitMint(s)
  PROVE  IInv'
<1> DEFINE x == [cli[s] EXCEPT !.stage = "minting", !.tx = Len(txs) + 1]
<1>1. cli[s].stage = "counted" /\ cli[s].command = "mint"
      /\ Submit(s, "mint", cli[s].tx, "owner", "minting")
  BY DEF SubmitMint, At
<1>2. "minting" \in Waiting /\ "minting" \in Stages /\ "mint" \in Kinds
  BY DEF Waiting, Stages, Kinds
<1>3. IsIn(txs, cli[s].tx, "fund")
  BY <1>1, AtHand DEF Knows
<1>4. cli[s].tx \in Nat
  BY AtHand DEF SessionType
<1>5. x.stage = "minting" /\ x.tx = Len(txs) + 1
  BY <1>2, AfterSubmission
<1>6. ASSUME Grows(txs, faucets, vaults, txs', faucets', vaults'),
             txs'[Len(txs) + 1].kind = "mint",
             txs'[Len(txs) + 1].input = cli[s].tx
      PROVE  Knows(txs', faucets', x)
  <2>1. IsIn(txs', cli[s].tx, "fund")
    BY <1>3, <1>6 DEF IsIn, Grows
  <2> HIDE DEF x
  <2> QED BY <1>5, <1>6, <2>1 DEF Knows
<1> QED BY <1>1, <1>2, <1>4, <1>6, Submits

LEMMA SubmitCollectKeeps ==
  ASSUME IInv, NEW s \in Sessions, SubmitCollect(s)
  PROVE  IInv'
<1> DEFINE x == [cli[s] EXCEPT !.stage = "taking", !.tx = Len(txs) + 1]
<1>1. Finished(s, "minting", "mint")
      /\ Submit(s, "collect", cli[s].tx, "owner", "taking")
  BY DEF SubmitCollect
<1>2. "minting" \in Waiting /\ "taking" \in Waiting /\ "taking" \in Stages
      /\ "collect" \in Kinds
  BY DEF Waiting, Stages, Kinds
<1>3. /\ cli[s].stage = "minting" /\ cli[s].command = "mint"
      /\ cli[s].tx \in Nat
      /\ IsIn(txs, cli[s].tx, txs[cli[s].tx].kind)
  BY <1>1, <1>2, OwnTx
<1>4. txs[cli[s].tx].kind = "mint" /\ IsIn(txs, txs[cli[s].tx].input, "fund")
  BY <1>3, AtHand DEF Knows
<1>5. MintIn(txs, cli[s].tx)
  BY <1>3, <1>4 DEF MintIn
<1>6. x.stage = "taking" /\ x.tx = Len(txs) + 1 /\ x.command = "mint"
  BY <1>2, <1>3, AfterSubmission
<1>7. ASSUME Grows(txs, faucets, vaults, txs', faucets', vaults'),
             txs'[Len(txs) + 1].kind = "collect",
             txs'[Len(txs) + 1].input = cli[s].tx
      PROVE  Knows(txs', faucets', x)
  <2>1. MintIn(txs', cli[s].tx)
    BY <1>5, <1>7 DEF MintIn, IsIn, Grows
  <2> HIDE DEF x
  <2> QED BY <1>6, <1>7, <2>1 DEF Knows
<1> QED BY <1>1, <1>2, <1>3, <1>7, Submits

LEMMA SubmitConsumeKeeps ==
  ASSUME IInv, NEW s \in Sessions, SubmitConsume(s)
  PROVE  IInv'
<1> DEFINE x == [cli[s] EXCEPT !.stage = "taking", !.tx = Len(txs) + 1]
<1>1. cli[s].stage = "counted" /\ cli[s].command = "consume"
      /\ Submit(s, "consume", cli[s].tx, "beneficiary", "taking")
  BY DEF SubmitConsume, At
<1>2. "taking" \in Waiting /\ "taking" \in Stages /\ "consume" \in Kinds
  BY DEF Waiting, Stages, Kinds
<1>3. IsIn(txs, cli[s].tx, "payout")
  BY <1>1, AtHand DEF Knows
<1>4. cli[s].tx \in Nat
  BY AtHand DEF SessionType
<1>5. x.stage = "taking" /\ x.tx = Len(txs) + 1 /\ x.command = "consume"
  BY <1>1, <1>2, AfterSubmission
<1>6. ASSUME Grows(txs, faucets, vaults, txs', faucets', vaults'),
             txs'[Len(txs) + 1].kind = "consume",
             txs'[Len(txs) + 1].input = cli[s].tx
      PROVE  Knows(txs', faucets', x)
  <2>1. IsIn(txs', cli[s].tx, "payout")
    BY <1>3, <1>6 DEF IsIn, Grows
  <2> HIDE DEF x
  <2> QED BY <1>5, <1>6, <2>1 DEF Knows
<1> QED BY <1>1, <1>2, <1>4, <1>6, Submits

(* What is on file afterwards, for each entry a command adds.              *)
LEMMA RecordDeploymentKeeps ==
  ASSUME IInv, NEW s \in Sessions, RecordDeployment(s)
  PROVE  IInv'
<1> DEFINE c == [cli[s].config EXCEPT !.deploy = cli[s].tx]
<1>1. Finished(s, "deploying", "create-faucet") /\ Finish(s, c)
  BY DEF RecordDeployment
<1>2. "deploying" \in Waiting
  BY DEF Waiting
<1>3. /\ cli[s].stage = "deploying" /\ cli[s].tx \in Nat
      /\ IsIn(txs, cli[s].tx, txs[cli[s].tx].kind)
  BY <1>1, <1>2, OwnTx
<1>4. IsIn(txs, cli[s].tx, "deploy")
  BY <1>3, AtHand DEF Knows
<1>5. /\ cli[s].config \in ConfigType
      /\ Good(txs, faucets, vaults, cli[s].config)
  BY AtHand
<1>6. /\ c \in ConfigType /\ c.deploy = cli[s].tx
      /\ c.faucet = cli[s].config.faucet /\ c.vault = cli[s].config.vault
      /\ c.fund = cli[s].config.fund /\ c.payout = cli[s].config.payout
      /\ c.mint = cli[s].config.mint /\ c.consume = cli[s].config.consume
  BY <1>3, <1>5 DEF ConfigType
<1> HIDE DEF c
<1>7. Good(txs, faucets, vaults, c)
  BY <1>4, <1>5, <1>6 DEF Good
<1> QED BY <1>1, <1>6, <1>7, Finishes

LEMMA RecordFundingKeeps ==
  ASSUME IInv, NEW s \in Sessions, RecordFunding(s)
  PROVE  IInv'
<1> DEFINE c == [cli[s].config EXCEPT !.fund = cli[s].tx]
<1>1. Finished(s, "funding", "fund-fees") /\ Finish(s, c)
  BY DEF RecordFunding
<1>2. "funding" \in Waiting
  BY DEF Waiting
<1>3. /\ cli[s].stage = "funding" /\ cli[s].tx \in Nat
      /\ IsIn(txs, cli[s].tx, txs[cli[s].tx].kind)
  BY <1>1, <1>2, OwnTx
<1>4. IsIn(txs, cli[s].tx, "fund")
  BY <1>3, AtHand DEF Knows
<1>5. /\ cli[s].config \in ConfigType
      /\ Good(txs, faucets, vaults, cli[s].config)
  BY AtHand
<1>6. /\ c \in ConfigType /\ c.fund = cli[s].tx
      /\ c.faucet = cli[s].config.faucet /\ c.vault = cli[s].config.vault
      /\ c.deploy = cli[s].config.deploy /\ c.payout = cli[s].config.payout
      /\ c.mint = cli[s].config.mint /\ c.consume = cli[s].config.consume
  BY <1>3, <1>5 DEF ConfigType
<1> HIDE DEF c
<1>7. Good(txs, faucets, vaults, c)
  BY <1>4, <1>5, <1>6 DEF Good
<1> QED BY <1>1, <1>6, <1>7, Finishes

LEMMA RecordMintKeeps ==
  ASSUME IInv, NEW s \in Sessions, RecordMint(s)
  PROVE  IInv'
<1> DEFINE m == txs[cli[s].tx].input
           c == [cli[s].config EXCEPT !.mint = m]
<1>1. Finished(s, "taking", "mint") /\ Finish(s, c)
  BY DEF RecordMint
<1>2. "taking" \in Waiting
  BY DEF Waiting
<1>3. /\ cli[s].stage = "taking" /\ cli[s].command = "mint"
      /\ cli[s].tx \in DOMAIN txs
      /\ IsIn(txs, cli[s].tx, txs[cli[s].tx].kind)
  BY <1>1, <1>2, OwnTx
<1>4. IsIn(txs, cli[s].tx, "collect") /\ MintIn(txs, m)
  BY <1>3, AtHand DEF Knows
<1>5. /\ cli[s].config \in ConfigType
      /\ Good(txs, faucets, vaults, cli[s].config)
  BY AtHand
<1>6. m \in Nat
  <2>1. txs[cli[s].tx] \in TxType
    BY <1>3, AtHand
  <2> QED BY <2>1 DEF TxType
<1> HIDE DEF m
<1>7. /\ c \in ConfigType /\ c.mint = m
      /\ c.faucet = cli[s].config.faucet /\ c.vault = cli[s].config.vault
      /\ c.deploy = cli[s].config.deploy /\ c.payout = cli[s].config.payout
      /\ c.fund = cli[s].config.fund /\ c.consume = cli[s].config.consume
  BY <1>5, <1>6 DEF ConfigType
<1>8. \E t \in DOMAIN txs : IsIn(txs, t, "collect") /\ txs[t].input = m
  BY <1>3, <1>4 DEF m
<1> HIDE DEF c
<1>9. Good(txs, faucets, vaults, c)
  BY <1>4, <1>5, <1>7, <1>8 DEF Good
<1> QED BY <1>1, <1>7, <1>9, Finishes

LEMMA RecordConsumptionKeeps ==
  ASSUME IInv, NEW s \in Sessions, RecordConsumption(s)
  PROVE  IInv'
<1> DEFINE c == [cli[s].config EXCEPT !.consume = cli[s].tx]
<1>1. Finished(s, "taking", "consume") /\ Finish(s, c)
  BY DEF RecordConsumption
<1>2. "taking" \in Waiting
  BY DEF Waiting
<1>3. /\ cli[s].stage = "taking" /\ cli[s].command = "consume"
      /\ cli[s].tx \in Nat
      /\ IsIn(txs, cli[s].tx, txs[cli[s].tx].kind)
  BY <1>1, <1>2, OwnTx
<1>4. IsIn(txs, cli[s].tx, "consume")
      /\ IsIn(txs, txs[cli[s].tx].input, "payout")
  BY <1>3, AtHand DEF Knows
<1>5. /\ cli[s].config \in ConfigType
      /\ Good(txs, faucets, vaults, cli[s].config)
  BY AtHand
<1>6. /\ c \in ConfigType /\ c.consume = cli[s].tx
      /\ c.faucet = cli[s].config.faucet /\ c.vault = cli[s].config.vault
      /\ c.deploy = cli[s].config.deploy /\ c.payout = cli[s].config.payout
      /\ c.mint = cli[s].config.mint /\ c.fund = cli[s].config.fund
  BY <1>3, <1>5 DEF ConfigType
<1> HIDE DEF c
<1>7. Good(txs, faucets, vaults, c)
  BY <1>4, <1>5, <1>6 DEF Good
<1> QED BY <1>1, <1>6, <1>7, Finishes

(* Balances are numbers: the transactions submitted are finitely many.     *)
LEMMA Counted ==
  ASSUME txs \in Seq(TxType), NEW account, NEW f
  PROVE  LocalBalance(account, f) \in Nat /\ LocalSupply(f) \in Nat
<1>1. IsFiniteSet(DOMAIN txs)
  <2>1. DOMAIN txs = 1..Len(txs) /\ Len(txs) \in Nat
    OBVIOUS
  <2> QED BY <2>1, FS_Interval
<1>2. \A S \in SUBSET DOMAIN txs : Cardinality(S) \in Nat
  BY <1>1, FS_Subset, FS_CardinalityType
<1> QED BY <1>2 DEF LocalBalance, LocalSupply

LEMMA CountKeeps ==
  ASSUME IInv, NEW s \in Sessions, NEW account, NEW n \in Nat,
         Count(s, account, n),
         IsIn(txs, n, IF cli[s].command = "mint" THEN "fund" ELSE "payout")
  PROVE  IInv'
<1> DEFINE b == LocalBalance(account, cli[s].faucet)
           q == LocalSupply(cli[s].faucet)
           x == [cli[s] EXCEPT !.stage = "counted", !.tx = n, !.balance = b,
                               !.supply = q]
<1>1. cli[s] \in SessionType /\ Good(txs, faucets, vaults, cli[s].config)
      /\ cli \in [Sessions -> SessionType] /\ txs \in Seq(TxType)
  BY AtHand
<1>2. b \in Nat /\ q \in Nat
  BY <1>1, Counted
<1>3. cli' = [cli EXCEPT ![s] = x]
      /\ UNCHANGED <<faucets, vaults, txs, reserve, disk, runs, faults>>
  BY <1>1 DEF Count
<1> HIDE DEF b, q
<1>4. x \in SessionType /\ x.stage = "counted" /\ x.config = cli[s].config
      /\ x.command = cli[s].command /\ x.tx = n
  BY <1>1, <1>2 DEF SessionType, Stages
<1> HIDE DEF x
<1>5. Knows(txs, faucets, x) /\ x.stage \notin Waiting
  BY <1>4 DEF Knows, Waiting
<1>6. runs' \in 0..MaxRuns /\ faults' \in 0..MaxFaults
  BY <1>3, CountedFault, SameRuns
<1> QED BY <1>1, <1>3, <1>4, <1>5, <1>6, SessionOnly

LEMMA ReadBeforeMintKeeps ==
  ASSUME IInv, NEW s \in Sessions, ReadBeforeMint(s)
  PROVE  IInv'
<1>1. Finished(s, "funding", "mint") /\ Count(s, "owner", cli[s].tx)
  BY DEF ReadBeforeMint
<1>2. "funding" \in Waiting
  BY DEF Waiting
<1>3. /\ cli[s].stage = "funding" /\ cli[s].command = "mint"
      /\ cli[s].tx \in Nat
      /\ IsIn(txs, cli[s].tx, txs[cli[s].tx].kind)
  BY <1>1, <1>2, OwnTx
<1>4. IsIn(txs, cli[s].tx, "fund")
  BY <1>3, AtHand DEF Knows
<1> QED BY <1>1, <1>3, <1>4, CountKeeps

LEMMA ReadBeforeConsumeKeeps ==
  ASSUME IInv, NEW s \in Sessions, NEW n \in DOMAIN txs,
         ReadBeforeConsume(s, n)
  PROVE  IInv'
<1>1. cli[s].command = "consume" /\ Count(s, "beneficiary", n)
      /\ txs[n].kind = "payout" /\ txs[n].status = "committed"
  BY DEF ReadBeforeConsume, At, ConsumableBy, Inspected, Consumable, Committed
<1>2. n \in Nat
  BY AtHand
<1>3. IsIn(txs, n, IF cli[s].command = "mint" THEN "fund" ELSE "payout")
  BY <1>1 DEF IsIn
<1> QED BY <1>1, <1>2, <1>3, CountKeeps

LEMMA StepKeeps ==
  ASSUME IInv, NEW s \in Sessions, Step(s)
  PROVE  IInv'
<1>1. CASE CreateFaucet(s)
  <2>1. CASE UseConfigured(s)
    <3>1. cli[s].config.faucet \in Nat
      BY AtHand DEF ConfigType
    <3> QED BY <2>1, <3>1, Chooses DEF UseConfigured
  <2>2. ASSUME NEW cap \in Caps, CreateKey(s, cap) PROVE IInv'
    BY <2>2, CreateKeyKeeps
  <2>3. CASE AddFaucet(s)
    BY <2>3, AddFaucetKeeps
  <2>4. CASE SaveFaucet(s)
    BY <2>4, SaveFaucetKeeps
  <2>5. CASE AlreadyDeployed(s)
    BY <2>5, Ended DEF AlreadyDeployed
  <2>6. CASE SubmitBootstrap(s)
    BY <2>6, SubmitBootstrapKeeps
  <2>7. CASE SubmitDeploy(s)
    BY <2>7, SubmitDeployKeeps
  <2>8. CASE RecordDeployment(s)
    BY <2>8, RecordDeploymentKeeps
  <2>9. CASE DeployedDiffers(s)
    BY <2>9, Ended DEF DeployedDiffers
  <2> QED
    BY <1>1, <2>1, <2>2, <2>3, <2>4, <2>5, <2>6, <2>7, <2>8, <2>9
    DEF CreateFaucet
<1>2. CASE Mint(s)
  BY <1>2, SubmitFundKeeps, RecordFundingKeeps, ReadBeforeMintKeeps,
     SubmitMintKeeps, SubmitCollectKeeps, RecordMintKeeps
  DEF Mint
<1>3. CASE Consume(s)
  BY <1>3, ReadBeforeConsumeKeeps, SubmitConsumeKeeps, RecordConsumptionKeeps
  DEF Consume
<1>4. CASE NotAsCounted(s)
  BY <1>4, Ended DEF NotAsCounted
<1>5. CASE GiveUp(s)
  <2>1. CountFault \/ faults' = faults
    BY <1>5 DEF GiveUp
  <2> QED BY <1>5, <2>1, Ended DEF GiveUp
<1>6. CASE Fail(s)
  <2>1. CountFault \/ faults' = faults
    BY <1>6 DEF Fail
  <2> QED BY <1>6, <2>1, Ended DEF Fail
<1> QED BY <1>1, <1>2, <1>3, <1>4, <1>5, <1>6 DEF Step

LEMMA StartKeeps ==
  ASSUME IInv, NEW s \in Sessions, Start(s)
  PROVE  IInv'
<1>1. {"mint", "fund-fees", "consume", "create-faucet"} \subseteq Commands
      /\ FALSE \in BOOLEAN /\ Forces \subseteq BOOLEAN
  BY ForcesAssumption DEF Commands
<1> QED BY <1>1, LaunchKeeps DEF Start

LEMMA StutterKeeps == IInv /\ UNCHANGED vars => IInv'
BY DEF IInv, vars, TypeOK, FileGood, VaultsUsable, CopyGood, SessionKnows

(* The invariant is inductive: a file is only ever replaced by a copy that *)
(* was good when it was read, plus what its process has seen committed.    *)
THEOREM InvariantHolds == Spec => []IInv
<1>1. IInv /\ [Next]_vars => IInv'
  BY SettleKeeps, NewVaultKeeps, PayOutKeeps, TopUpKeeps, StepKeeps,
     StartKeeps, StutterKeeps
  DEF Next
<1> QED BY <1>1, InitHolds, PTL DEF Spec

(* Every variable keeps its type, and a process that waits waits for a     *)
(* transaction that has been submitted.                                    *)
THEOREM TypeCorrect == Spec => []TypeOK
<1>1. IInv => TypeOK
  BY DEF IInv
<1> QED BY <1>1, InvariantHolds, PTL

(* The file names only faucets whose account is in the store, wherever any *)
(* number of processes are killed and whichever overwrites the others.     *)
THEOREM FileNamesUsableFaucets == Spec => []ConfiguredFaucetUsable
<1>1. IInv => ConfiguredFaucetUsable
  BY DEF IInv, FileGood, Good, VaultsUsable, ConfiguredFaucetUsable
<1> QED BY <1>1, InvariantHolds, PTL

(* What the file records has happened: transactions of the right kind were *)
(* committed, and so was what they used up.                                *)
THEOREM FileRecordsWhatHappened == Spec => []RecordsAreReal
<1>1. ASSUME NEW t, NEW kind, IsIn(txs, t, kind) PROVE Is(t, kind)
  BY <1>1 DEF IsIn, Is, Committed
<1>2. IInv => RecordsAreReal
  BY <1>1 DEF IInv, FileGood, Good, MintIn, RecordsAreReal
<1> QED BY <1>2, InvariantHolds, PTL
=============================================================================
