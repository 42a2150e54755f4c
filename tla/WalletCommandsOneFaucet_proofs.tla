-------------------- MODULE WalletCommandsOneFaucet_proofs --------------------
(***************************************************************************)
(* As long as create-faucet is not told to replace the faucet on file, the *)
(* file is about one faucet, for any number of processes that overwrite    *)
(* each other's.                                                           *)
(*                                                                         *)
(* Files do get overwritten with another faucet, by a process that found   *)
(* none on file when it read it.  The invariant therefore speaks of every  *)
(* copy on its own (One): a copy is only written as a whole, so it is      *)
(* enough that none of them mixes faucets, and that what a process is      *)
(* about to add is of the faucet in its own copy (Aligned).                *)
(***************************************************************************)
EXTENDS WalletCommands_proofs

Unforced(F) == \A i \in DOMAIN F : ~F[i].forced

Of(T, t, f) == t \in DOMAIN T /\ T[t].faucet = f

One(T, V, c) ==
  /\ c.faucet = 0 => /\ c.vault = 0 /\ c.deploy = 0 /\ c.mint = 0
                     /\ c.consume = 0 /\ c.payout = 0
  /\ c.vault # 0 => c.vault \in DOMAIN V /\ V[c.vault] = c.faucet
  /\ c.deploy # 0 => Of(T, c.deploy, c.faucet)
  /\ c.mint # 0 => Of(T, c.mint, c.faucet)
  /\ c.consume # 0 => Of(T, c.consume, c.faucet)
  /\ c.payout # 0 => Of(T, c.payout, c.faucet)

(* The process acts for the faucet in its copy of the file.                *)
OnFile(x) ==
  \/ x.stage \in {"chosen", "bootstrapping", "deploying"}
  \/ x.stage # "idle" /\ x.command \in {"mint", "consume"}

Aligned(T, x) ==
  /\ x.stage \in {"keyed", "created"} => x.config.faucet = 0
  /\ OnFile(x) => x.faucet = x.config.faucet /\ x.faucet # 0
  /\ x.stage \in {"deploying", "minting"} => Of(T, x.tx, x.faucet)
  /\ x.stage = "taking" /\ x.command = "consume" => Of(T, x.tx, x.faucet)
  /\ x.stage = "taking" /\ x.command = "mint" =>
       x.tx \in DOMAIN T /\ Of(T, T[x.tx].input, x.faucet)

OneEach ==
  Unforced(faucets) =>
    /\ One(txs, vaults, disk)
    /\ \A s \in Sessions : /\ One(txs, vaults, cli[s].config)
                           /\ Aligned(txs, cli[s])

(* A transaction's faucet and input, and a vault's faucet, never change.   *)
Retains(T, V, T2, V2) ==
  /\ \A t \in DOMAIN T : /\ t \in DOMAIN T2 /\ T2[t].faucet = T[t].faucet
                         /\ T2[t].input = T[t].input
  /\ \A v \in DOMAIN V : v \in DOMAIN V2 /\ V2[v] = V[v]

LEMMA OnePersists ==
  ASSUME NEW T, NEW V, NEW T2, NEW V2, NEW c,
         Retains(T, V, T2, V2), One(T, V, c)
  PROVE  One(T2, V2, c)
BY DEF Retains, One, Of

LEMMA AlignedPersists ==
  ASSUME NEW T, NEW V, NEW T2, NEW V2, NEW x,
         Retains(T, V, T2, V2), Aligned(T, x)
  PROVE  Aligned(T2, x)
BY DEF Retains, Aligned, Of

LEMMA AllRetained == Retains(txs, vaults, txs, vaults)
BY DEF Retains

LEMMA NothingMixed ==
  ASSUME NEW T, NEW V
  PROVE  One(T, V, EmptyConfig) /\ One(T, V, Idle.config) /\ Aligned(T, Idle)
<1>1. Idle.stage = "idle" /\ Idle.config = EmptyConfig
  BY DEF Idle
<1>2. One(T, V, EmptyConfig)
  BY DEF One, EmptyConfig
<1>3. Aligned(T, Idle)
  BY <1>1 DEF Aligned, OnFile
<1> QED BY <1>1, <1>2, <1>3

LEMMA StartsUnmixed == Init => OneEach
<1> SUFFICES ASSUME Init PROVE OneEach OBVIOUS
<1>1. disk = EmptyConfig /\ \A s \in Sessions : cli[s] = Idle
  BY DEF Init
<1> QED BY <1>1, NothingMixed DEF OneEach

-----------------------------------------------------------------------------
(* One process becomes x; the file may change with it.                     *)
LEMMA Moves ==
  ASSUME IInv, OneEach, NEW s \in Sessions, NEW x,
         cli' = [cli EXCEPT ![s] = x],
         Unforced(faucets') => Unforced(faucets),
         Retains(txs, vaults, txs', vaults'),
         Unforced(faucets') =>
           /\ One(txs', vaults', disk') /\ One(txs', vaults', x.config)
           /\ Aligned(txs', x)
  PROVE  OneEach'
<1> SUFFICES ASSUME Unforced(faucets')
             PROVE  /\ One(txs', vaults', disk')
                    /\ \A r \in Sessions : /\ One(txs', vaults', cli'[r].config)
                                           /\ Aligned(txs', cli'[r])
  BY DEF OneEach
<1>1. cli'[s] = x /\ \A r \in Sessions \ {s} : cli'[r] = cli[r]
  BY AtHand
<1>2. ASSUME NEW r \in Sessions
      PROVE  One(txs', vaults', cli'[r].config) /\ Aligned(txs', cli'[r])
  <2>1. CASE r = s
    BY <1>1, <2>1
  <2>2. CASE r # s
    <3>1. cli'[r] = cli[r] /\ One(txs, vaults, cli[r].config)
          /\ Aligned(txs, cli[r])
      BY <1>1, <2>2 DEF OneEach
    <3> QED BY <3>1, OnePersists, AlignedPersists
  <2> QED BY <2>1, <2>2
<1> QED BY <1>2

(* A process moves on by itself.                                           *)
LEMMA MovesAlone ==
  ASSUME IInv, OneEach, NEW s \in Sessions, NEW x,
         cli' = [cli EXCEPT ![s] = x],
         UNCHANGED <<faucets, vaults, txs, disk>>,
         Unforced(faucets) => One(txs, vaults, x.config) /\ Aligned(txs, x)
  PROVE  OneEach'
<1>1. Retains(txs, vaults, txs', vaults')
  BY AllRetained
<1>2. Unforced(faucets) => One(txs, vaults, disk)
  BY DEF OneEach
<1> QED BY <1>1, <1>2, Moves

LEMMA EndsUnmixed ==
  ASSUME IInv, OneEach, NEW s \in Sessions, End(s),
         UNCHANGED <<faucets, vaults, txs, disk>>
  PROVE  OneEach'
<1>1. cli' = [cli EXCEPT ![s] = Idle]
  BY DEF End
<1> QED BY <1>1, NothingMixed, MovesAlone

LEMMA FinishesUnmixed ==
  ASSUME IInv, OneEach, NEW s \in Sessions, NEW c, Finish(s, c),
         Unforced(faucets) => One(txs, vaults, c)
  PROVE  OneEach'
<1>1. /\ cli' = [cli EXCEPT ![s] = Idle] /\ disk' = c
      /\ UNCHANGED <<faucets, vaults, txs>>
  BY DEF Finish, Save, End
<1>2. Retains(txs, vaults, txs', vaults')
  BY <1>1, AllRetained
<1> QED BY <1>1, <1>2, NothingMixed, Moves

(* A process submits for its own faucet.                                   *)
LEMMA SubmitsUnmixed ==
  ASSUME IInv, OneEach, NEW s \in Sessions, NEW kind \in Kinds,
         NEW input \in Nat, NEW to \in {"faucet", "owner", "beneficiary"},
         NEW stage \in Waiting, Submit(s, kind, input, to, stage),
         Retains(txs, vaults, txs', vaults')
           /\ Of(txs', Len(txs) + 1, cli[s].faucet)
           /\ txs'[Len(txs) + 1].input = input
           /\ Aligned(txs, cli[s])
         => Aligned(txs', [cli[s] EXCEPT !.stage = stage, !.tx = Len(txs) + 1])
  PROVE  OneEach'
<1> DEFINE x == [cli[s] EXCEPT !.stage = stage, !.tx = Len(txs) + 1]
<1>1. cli[s] \in SessionType /\ txs \in Seq(TxType)
      /\ cli \in [Sessions -> SessionType]
  BY AtHand
<1>2. PICK tx \in TxType : tx = NewTx(s, kind, input, to)
  BY <1>1 DEF NewTx, TxType, SessionType
<1>3. tx.input = input /\ tx.faucet = cli[s].faucet
  BY <1>2 DEF NewTx
<1>4. txs' = Append(txs, tx) /\ cli' = [cli EXCEPT ![s] = x]
      /\ UNCHANGED <<faucets, vaults, disk>>
  BY <1>1, <1>2 DEF Submit, NewTx
<1>5. Len(txs) \in Nat /\ DOMAIN txs = 1..Len(txs)
      /\ DOMAIN txs' = 1..(Len(txs) + 1) /\ txs'[Len(txs) + 1] = tx
      /\ \A t \in DOMAIN txs : txs'[t] = txs[t]
  BY <1>1, <1>4
<1>6. Of(txs', Len(txs) + 1, cli[s].faucet)
      /\ txs'[Len(txs) + 1].input = input
  BY <1>3, <1>5 DEF Of
<1>7. Retains(txs, vaults, txs', vaults')
  BY <1>4, <1>5 DEF Retains
<1>8. x.config = cli[s].config
  BY <1>1 DEF SessionType
<1>9. Unforced(faucets) => /\ One(txs', vaults', disk')
                           /\ One(txs', vaults', cli[s].config)
                           /\ Aligned(txs', x)
  BY <1>4, <1>6, <1>7, OnePersists DEF OneEach
<1> HIDE DEF x
<1> QED BY <1>4, <1>7, <1>8, <1>9, Moves

-----------------------------------------------------------------------------
(* Steps of the chain.                                                     *)

LEMMA OutsideUnmixed ==
  ASSUME OneEach, UNCHANGED <<faucets, cli>>,
         Retains(txs, vaults, txs', vaults'),
         Unforced(faucets) => One(txs', vaults', disk')
  PROVE  OneEach'
<1> SUFFICES ASSUME Unforced(faucets), NEW s \in Sessions
             PROVE  One(txs', vaults', cli[s].config) /\ Aligned(txs', cli[s])
  BY DEF OneEach
<1> QED BY OnePersists, AlignedPersists DEF OneEach

LEMMA SettleUnmixed == IInv /\ OneEach /\ Settle => OneEach'
<1> SUFFICES ASSUME IInv, OneEach, NEW t \in DOMAIN txs,
                    NEW status \in {"committed", "discarded"},
                    MarkTx(t, status), UNCHANGED <<faucets, vaults, disk, cli>>
             PROVE  OneEach'
  BY DEF Settle, CommitTx, DiscardTx
<1>1. txs \in Seq(TxType) /\ txs' = [txs EXCEPT ![t].status = status]
  BY DEF IInv, TypeOK, MarkTx
<1>2. ASSUME NEW i \in DOMAIN txs
      PROVE  /\ i \in DOMAIN txs' /\ txs'[i].faucet = txs[i].faucet
             /\ txs'[i].input = txs[i].input
  <2>1. txs[i] \in TxType
    BY <1>1
  <2>2. CASE i = t
    BY <1>1, <2>1, <2>2 DEF TxType
  <2>3. CASE i # t
    BY <1>1, <2>3
  <2> QED BY <2>2, <2>3
<1>3. Retains(txs, vaults, txs', vaults')
  BY <1>2 DEF Retains
<1>4. Unforced(faucets) => One(txs', vaults', disk')
  BY <1>3, OnePersists DEF OneEach
<1> QED BY <1>3, <1>4, OutsideUnmixed

LEMMA NewVaultUnmixed == IInv /\ OneEach /\ NewVault => OneEach'
<1> SUFFICES ASSUME IInv, OneEach, NewVault PROVE OneEach' OBVIOUS
<1>1. vaults \in Seq(1..Len(faucets)) /\ disk \in ConfigType
      /\ Good(txs, faucets, vaults, disk) /\ faucets \in Seq(FaucetType)
  BY DEF IInv, TypeOK, FileGood
<1>2. /\ disk.faucet # 0 /\ vaults' = Append(vaults, disk.faucet)
      /\ disk' = [disk EXCEPT !.vault = Len(vaults) + 1]
      /\ UNCHANGED <<faucets, txs, cli>>
  BY DEF NewVault
<1>3. /\ Len(vaults) + 1 \in DOMAIN vaults'
      /\ vaults'[Len(vaults) + 1] = disk.faucet
      /\ \A v \in DOMAIN vaults : v \in DOMAIN vaults' /\ vaults'[v] = vaults[v]
  <2>1. disk.faucet \in 1..Len(faucets)
    BY <1>1, <1>2 DEF Good
  <2> QED BY <1>1, <1>2, <2>1
<1>4. Retains(txs, vaults, txs', vaults')
  BY <1>2, <1>3 DEF Retains
<1>5. /\ disk'.vault = Len(vaults) + 1 /\ disk'.faucet = disk.faucet
      /\ disk'.deploy = disk.deploy /\ disk'.mint = disk.mint
      /\ disk'.consume = disk.consume /\ disk'.payout = disk.payout
  BY <1>1, <1>2 DEF ConfigType
<1>6. Unforced(faucets) => One(txs', vaults', disk)
  BY <1>4, OnePersists DEF OneEach
<1>7. Unforced(faucets) => One(txs', vaults', disk')
  BY <1>2, <1>3, <1>5, <1>6 DEF One
<1> QED BY <1>2, <1>4, <1>7, OutsideUnmixed

(* A payout is of the asset its vault inherits, the one on file.           *)
LEMMA PayOutUnmixed == IInv /\ OneEach /\ PayOut => OneEach'
<1> SUFFICES ASSUME IInv, OneEach, PayOut PROVE OneEach' OBVIOUS
<1> DEFINE f == vaults[disk.vault]
<1>1. txs \in Seq(TxType) /\ disk \in ConfigType
      /\ vaults \in Seq(1..Len(faucets)) /\ faucets \in Seq(FaucetType)
      /\ disk.vault \in DOMAIN vaults /\ disk.vault # 0
  BY DEF IInv, TypeOK, FileGood, Good, PayOut
<1>2. PICK tx \in TxType :
        /\ tx.faucet = f /\ txs' = Append(txs, tx)
        /\ disk' = [disk EXCEPT !.payout = Len(txs) + 1]
        /\ UNCHANGED <<faucets, vaults, cli>>
  <2>1. f \in Nat /\ disk.vault \in Nat
    BY <1>1 DEF ConfigType
  <2> DEFINE tx == [kind |-> "payout", input |-> 0, vault |-> disk.vault,
                    faucet |-> f, to |-> "beneficiary",
                    status |-> "committed"]
  <2>2. tx \in TxType /\ tx.faucet = f
    BY <2>1 DEF TxType, Kinds
  <2>3. txs' = Append(txs, tx)
        /\ disk' = [disk EXCEPT !.payout = Len(txs) + 1]
        /\ UNCHANGED <<faucets, vaults, cli>>
    BY DEF PayOut
  <2> HIDE DEF tx
  <2> QED BY <2>2, <2>3
<1>3. /\ Len(txs) + 1 \in DOMAIN txs' /\ txs'[Len(txs) + 1] = tx
      /\ \A t \in DOMAIN txs : t \in DOMAIN txs' /\ txs'[t] = txs[t]
  BY <1>1, <1>2
<1>4. Retains(txs, vaults, txs', vaults')
  BY <1>2, <1>3 DEF Retains
<1>5. /\ disk'.payout = Len(txs) + 1 /\ disk'.faucet = disk.faucet
      /\ disk'.deploy = disk.deploy /\ disk'.mint = disk.mint
      /\ disk'.consume = disk.consume /\ disk'.vault = disk.vault
  BY <1>1, <1>2 DEF ConfigType
<1>6. Unforced(faucets) =>
        /\ One(txs', vaults', disk) /\ f = disk.faucet /\ disk.faucet # 0
  <2>1. Unforced(faucets) => One(txs, vaults, disk)
    BY DEF OneEach
  <2>2. Unforced(faucets) => One(txs', vaults', disk)
    BY <1>4, <2>1, OnePersists
  <2> QED BY <1>1, <2>1, <2>2 DEF One
<1>7. Unforced(faucets) => One(txs', vaults', disk')
  BY <1>2, <1>3, <1>5, <1>6 DEF One, Of
<1> QED BY <1>2, <1>4, <1>7, OutsideUnmixed

LEMMA TopUpUnmixed == IInv /\ OneEach /\ TopUp => OneEach'
BY DEF TopUp, OneEach

-----------------------------------------------------------------------------
(* Steps of the commands.                                                  *)

(* What a step may assume of the process that takes it.                    *)
LEMMA Unmixed ==
  ASSUME OneEach, NEW s \in Sessions
  PROVE  Unforced(faucets) =>
           One(txs, vaults, cli[s].config) /\ Aligned(txs, cli[s])
BY DEF OneEach

LEMMA LaunchUnmixed ==
  ASSUME IInv, OneEach, NEW s \in Sessions, NEW command \in Commands,
         NEW force \in BOOLEAN, Launch(s, command, force)
  PROVE  OneEach'
<1> DEFINE f == IF command \in {"mint", "consume"} THEN disk.faucet ELSE 0
<1>1. PICK x : x = [Idle EXCEPT !.stage = "launched", !.command = command,
                      !.force = force, !.config = disk, !.faucet = f]
  OBVIOUS
<1>2. Idle \in SessionType
  BY EndedSession
<1>3. /\ x.stage = "launched" /\ x.config = disk /\ x.command = command
      /\ x.faucet = f
  <2> HIDE DEF f
  <2> QED BY <1>1, <1>2 DEF SessionType
<1>4. cli' = [cli EXCEPT ![s] = x]
      /\ UNCHANGED <<faucets, vaults, txs, disk>>
      /\ (command \in {"mint", "consume"} => disk.faucet # 0)
  BY <1>1 DEF Launch
<1>5. Aligned(txs, x)
  BY <1>3, <1>4 DEF Aligned, OnFile
<1>6. Unforced(faucets) => One(txs, vaults, x.config)
  BY <1>3 DEF OneEach
<1> QED BY <1>4, <1>5, <1>6, MovesAlone

LEMMA UseConfiguredUnmixed ==
  ASSUME IInv, OneEach, NEW s \in Sessions, UseConfigured(s)
  PROVE  OneEach'
<1>1. PICK x : x = [cli[s] EXCEPT !.stage = "chosen",
                                  !.faucet = cli[s].config.faucet]
  OBVIOUS
<1>2. cli[s] \in SessionType /\ cli \in [Sessions -> SessionType]
  BY AtHand
<1>3. /\ x.stage = "chosen" /\ x.config = cli[s].config
      /\ x.faucet = cli[s].config.faucet
  BY <1>1, <1>2 DEF SessionType
<1>4. cli' = [cli EXCEPT ![s] = x] /\ cli[s].config.faucet # 0
      /\ UNCHANGED <<faucets, vaults, txs, disk>>
  BY <1>1, <1>2 DEF UseConfigured, NeedsFaucet
<1>5. Aligned(txs, x)
  BY <1>3, <1>4 DEF Aligned, OnFile
<1>6. Unforced(faucets) => One(txs, vaults, x.config)
  BY <1>3, Unmixed
<1> QED BY <1>4, <1>5, <1>6, MovesAlone

(* Without --force, a faucet is generated only if none was on file.        *)
LEMMA CreateKeyUnmixed ==
  ASSUME IInv, OneEach, NEW s \in Sessions, NEW cap \in Caps,
         CreateKey(s, cap)
  PROVE  OneEach'
<1>1. PICK x : x = [cli[s] EXCEPT !.stage = "keyed",
                                  !.faucet = Len(faucets) + 1]
  OBVIOUS
<1>2. PICK new : new = [cap |-> cap, stored |-> FALSE,
                        forced |-> cli[s].force]
  OBVIOUS
<1>3. /\ cli[s] \in SessionType /\ cli \in [Sessions -> SessionType]
      /\ faucets \in Seq(FaucetType)
  BY AtHand
<1>4. new \in FaucetType /\ new.forced = cli[s].force
  BY <1>2, <1>3, CapsAssumption DEF FaucetType, SessionType
<1>5. /\ faucets' = Append(faucets, new) /\ cli' = [cli EXCEPT ![s] = x]
      /\ UNCHANGED <<vaults, txs, disk>>
      /\ cli[s].command = "create-faucet"
      /\ (cli[s].force \/ cli[s].config.faucet = 0)
  BY <1>1, <1>2, <1>3 DEF CreateKey, Generate, NeedsFaucet, At
<1>6. /\ \A i \in DOMAIN faucets : i \in DOMAIN faucets'
                                   /\ faucets'[i] = faucets[i]
      /\ Len(faucets) + 1 \in DOMAIN faucets'
      /\ faucets'[Len(faucets) + 1] = new
  BY <1>3, <1>4, <1>5
<1>7. Unforced(faucets') => Unforced(faucets) /\ ~cli[s].force
  BY <1>4, <1>6 DEF Unforced
<1>8. /\ x.stage = "keyed" /\ x.config = cli[s].config
      /\ x.command = "create-faucet"
  BY <1>1, <1>3, <1>5 DEF SessionType
<1>9. Unforced(faucets') => Aligned(txs, x)
  BY <1>5, <1>7, <1>8 DEF Aligned, OnFile
<1>10. Unforced(faucets') => /\ One(txs, vaults, disk)
                             /\ One(txs, vaults, x.config)
  BY <1>7, <1>8 DEF OneEach
<1>11. Retains(txs, vaults, txs', vaults')
  BY <1>5, AllRetained
<1> QED BY <1>5, <1>7, <1>9, <1>10, <1>11, Moves

LEMMA AddFaucetUnmixed ==
  ASSUME IInv, OneEach, NEW s \in Sessions, AddFaucet(s)
  PROVE  OneEach'
<1>1. PICK x : x = [cli[s] EXCEPT !.stage = "created"]
  OBVIOUS
<1>2. /\ cli[s] \in SessionType /\ cli \in [Sessions -> SessionType]
      /\ faucets \in Seq(FaucetType)
  BY AtHand
<1>3. /\ faucets' = [faucets EXCEPT ![cli[s].faucet].stored = TRUE]
      /\ cli' = [cli EXCEPT ![s] = x] /\ UNCHANGED <<vaults, txs, disk>>
      /\ cli[s].stage = "keyed" /\ cli[s].command = "create-faucet"
  BY <1>1, <1>2 DEF AddFaucet, Continue, At
<1>4. ASSUME NEW i \in DOMAIN faucets
      PROVE  i \in DOMAIN faucets' /\ faucets'[i].forced = faucets[i].forced
  <2>1. faucets[i] \in FaucetType
    BY <1>2
  <2>2. CASE i = cli[s].faucet
    BY <1>3, <2>1, <2>2 DEF FaucetType
  <2>3. CASE i # cli[s].faucet
    BY <1>3, <2>3
  <2> QED BY <2>2, <2>3
<1>5. Unforced(faucets') => Unforced(faucets)
  BY <1>4 DEF Unforced
<1>6. /\ x.stage = "created" /\ x.config = cli[s].config
      /\ x.command = "create-faucet"
  BY <1>1, <1>2, <1>3 DEF SessionType
<1>7. Unforced(faucets) => Aligned(txs, x)
  <2>1. Unforced(faucets) => cli[s].config.faucet = 0
    BY <1>3, Unmixed DEF Aligned
  <2> QED BY <1>6, <2>1 DEF Aligned, OnFile
<1>8. Unforced(faucets) => /\ One(txs, vaults, disk)
                           /\ One(txs, vaults, x.config)
  BY <1>6 DEF OneEach
<1>9. Retains(txs, vaults, txs', vaults')
  BY <1>3, AllRetained
<1> QED BY <1>3, <1>5, <1>7, <1>8, <1>9, Moves

(* The copy was empty of anything about a faucet, and is now about this.   *)
LEMMA SaveFaucetUnmixed ==
  ASSUME IInv, OneEach, NEW s \in Sessions, SaveFaucet(s)
  PROVE  OneEach'
<1>1. PICK c : c = [cli[s].config EXCEPT !.faucet = cli[s].faucet]
  OBVIOUS
<1>2. PICK x : x = [cli[s] EXCEPT !.stage = "chosen", !.config = c]
  OBVIOUS
<1>3. /\ cli[s] \in SessionType /\ cli \in [Sessions -> SessionType]
      /\ cli[s].config \in ConfigType /\ faucets \in Seq(FaucetType)
      /\ Knows(txs, faucets, cli[s])
  BY AtHand
<1>4. /\ disk' = c /\ cli' = [cli EXCEPT ![s] = x]
      /\ UNCHANGED <<faucets, vaults, txs>>
      /\ cli[s].stage = "created" /\ cli[s].command = "create-faucet"
  BY <1>1, <1>2, <1>3 DEF SaveFaucet, Save, At
<1>5. cli[s].faucet \in DOMAIN faucets /\ cli[s].faucet # 0
  BY <1>3, <1>4 DEF Knows
<1>6. /\ c.faucet = cli[s].faucet /\ c.vault = cli[s].config.vault
      /\ c.deploy = cli[s].config.deploy /\ c.mint = cli[s].config.mint
      /\ c.consume = cli[s].config.consume
      /\ c.payout = cli[s].config.payout
  BY <1>1, <1>3 DEF ConfigType
<1>7. x.stage = "chosen" /\ x.config = c /\ x.faucet = cli[s].faucet
  BY <1>2, <1>3 DEF SessionType
<1>8. Unforced(faucets) => One(txs, vaults, c)
  <2>1. Unforced(faucets) =>
          cli[s].config.faucet = 0 /\ One(txs, vaults, cli[s].config)
    BY <1>4, Unmixed DEF Aligned
  <2> QED BY <1>5, <1>6, <2>1 DEF One
<1>9. Aligned(txs, x)
  BY <1>5, <1>6, <1>7 DEF Aligned, OnFile
<1>10. Retains(txs, vaults, txs', vaults')
  BY <1>4, AllRetained
<1> QED BY <1>4, <1>7, <1>8, <1>9, <1>10, Moves

LEMMA SubmitBootstrapUnmixed ==
  ASSUME IInv, OneEach, NEW s \in Sessions, SubmitBootstrap(s)
  PROVE  OneEach'
<1>1. Submit(s, "bootstrap", 0, "faucet", "bootstrapping")
      /\ cli[s].stage = "chosen"
  BY DEF SubmitBootstrap, At
<1>2. PICK x : x = [cli[s] EXCEPT !.stage = "bootstrapping",
                                  !.tx = Len(txs) + 1]
  OBVIOUS
<1>3. x.stage = "bootstrapping" /\ x.faucet = cli[s].faucet
      /\ x.config = cli[s].config
  BY <1>2, AtHand DEF SessionType
<1>4. Aligned(txs, cli[s]) => Aligned(txs', x)
  BY <1>1, <1>3 DEF Aligned, OnFile
<1>5. "bootstrap" \in Kinds /\ "bootstrapping" \in Waiting
  BY DEF Kinds, Waiting
<1> QED BY <1>1, <1>2, <1>4, <1>5, SubmitsUnmixed

LEMMA SubmitDeployUnmixed ==
  ASSUME IInv, OneEach, NEW s \in Sessions, SubmitDeploy(s)
  PROVE  OneEach'
<1>1. Finished(s, "bootstrapping", "create-faucet")
      /\ Submit(s, "deploy", cli[s].tx, "faucet", "deploying")
      /\ cli[s].stage = "bootstrapping"
  BY DEF SubmitDeploy, Finished, At
<1>2. PICK x : x = [cli[s] EXCEPT !.stage = "deploying", !.tx = Len(txs) + 1]
  OBVIOUS
<1>3. /\ x.stage = "deploying" /\ x.faucet = cli[s].faucet
      /\ x.config = cli[s].config /\ x.tx = Len(txs) + 1
      /\ cli[s].tx \in Nat
  BY <1>2, AtHand DEF SessionType
<1>4. Of(txs', Len(txs) + 1, cli[s].faucet) /\ Aligned(txs, cli[s])
        => Aligned(txs', x)
  BY <1>1, <1>3 DEF Aligned, OnFile
<1>5. "deploy" \in Kinds /\ "deploying" \in Waiting
  BY DEF Kinds, Waiting
<1> QED BY <1>1, <1>2, <1>3, <1>4, <1>5, SubmitsUnmixed

LEMMA SubmitFundUnmixed ==
  ASSUME IInv, OneEach, NEW s \in Sessions, SubmitFund(s)
  PROVE  OneEach'
<1> DEFINE to == IF cli[s].command = "mint" THEN "faucet" ELSE "beneficiary"
<1>1. Submit(s, "fund", 0, to, "funding") /\ cli[s].stage = "launched"
  BY DEF SubmitFund
<1>2. PICK x : x = [cli[s] EXCEPT !.stage = "funding", !.tx = Len(txs) + 1]
  OBVIOUS
<1>3. /\ x.stage = "funding" /\ x.faucet = cli[s].faucet
      /\ x.config = cli[s].config /\ x.command = cli[s].command
  BY <1>2, AtHand DEF SessionType
<1>4. Aligned(txs, cli[s]) => Aligned(txs', x)
  BY <1>1, <1>3 DEF Aligned, OnFile
<1>5. "fund" \in Kinds /\ "funding" \in Waiting
      /\ to \in {"faucet", "owner", "beneficiary"}
  BY DEF Kinds, Waiting
<1> HIDE DEF to
<1> QED BY <1>1, <1>2, <1>4, <1>5, SubmitsUnmixed

LEMMA SubmitMintUnmixed ==
  ASSUME IInv, OneEach, NEW s \in Sessions, SubmitMint(s)
  PROVE  OneEach'
<1>1. Submit(s, "mint", cli[s].tx, "owner", "minting")
      /\ cli[s].stage = "counted" /\ cli[s].command = "mint"
  BY DEF SubmitMint, At
<1>2. PICK x : x = [cli[s] EXCEPT !.stage = "minting", !.tx = Len(txs) + 1]
  OBVIOUS
<1>3. /\ x.stage = "minting" /\ x.faucet = cli[s].faucet
      /\ x.config = cli[s].config /\ x.command = cli[s].command
      /\ x.tx = Len(txs) + 1 /\ cli[s].tx \in Nat
  BY <1>2, AtHand DEF SessionType
<1>4. Of(txs', Len(txs) + 1, cli[s].faucet) /\ Aligned(txs, cli[s])
        => Aligned(txs', x)
  BY <1>1, <1>3 DEF Aligned, OnFile
<1>5. "mint" \in Kinds /\ "minting" \in Waiting
  BY DEF Kinds, Waiting
<1> QED BY <1>1, <1>2, <1>3, <1>4, <1>5, SubmitsUnmixed

(* The mint that is to be recorded is the one this process submitted.      *)
LEMMA SubmitCollectUnmixed ==
  ASSUME IInv, OneEach, NEW s \in Sessions, SubmitCollect(s)
  PROVE  OneEach'
<1>1. /\ Submit(s, "collect", cli[s].tx, "owner", "taking")
      /\ cli[s].stage = "minting" /\ cli[s].command = "mint"
  BY DEF SubmitCollect, Finished, At
<1>2. PICK x : x = [cli[s] EXCEPT !.stage = "taking", !.tx = Len(txs) + 1]
  OBVIOUS
<1>3. /\ x.stage = "taking" /\ x.faucet = cli[s].faucet
      /\ x.config = cli[s].config /\ x.command = cli[s].command
      /\ x.tx = Len(txs) + 1 /\ cli[s].tx \in Nat
  BY <1>2, AtHand DEF SessionType
<1>4. ASSUME Retains(txs, vaults, txs', vaults'),
             Of(txs', Len(txs) + 1, cli[s].faucet),
             txs'[Len(txs) + 1].input = cli[s].tx, Aligned(txs, cli[s])
      PROVE  Aligned(txs', x)
  <2>1. Of(txs, cli[s].tx, cli[s].faucet)
    BY <1>1, <1>4 DEF Aligned
  <2>2. Of(txs', cli[s].tx, cli[s].faucet)
    BY <1>4, <2>1 DEF Of, Retains
  <2> QED BY <1>1, <1>3, <1>4, <2>2 DEF Aligned, OnFile, Of
<1>5. "collect" \in Kinds /\ "taking" \in Waiting
  BY DEF Kinds, Waiting
<1> QED BY <1>1, <1>2, <1>3, <1>4, <1>5, SubmitsUnmixed

LEMMA SubmitConsumeUnmixed ==
  ASSUME IInv, OneEach, NEW s \in Sessions, SubmitConsume(s)
  PROVE  OneEach'
<1>1. Submit(s, "consume", cli[s].tx, "beneficiary", "taking")
      /\ cli[s].stage = "counted" /\ cli[s].command = "consume"
  BY DEF SubmitConsume, At
<1>2. PICK x : x = [cli[s] EXCEPT !.stage = "taking", !.tx = Len(txs) + 1]
  OBVIOUS
<1>3. /\ x.stage = "taking" /\ x.faucet = cli[s].faucet
      /\ x.config = cli[s].config /\ x.command = cli[s].command
      /\ x.tx = Len(txs) + 1 /\ cli[s].tx \in Nat
  BY <1>2, AtHand DEF SessionType
<1>4. Of(txs', Len(txs) + 1, cli[s].faucet) /\ Aligned(txs, cli[s])
        => Aligned(txs', x)
  BY <1>1, <1>3 DEF Aligned, OnFile
<1>5. "consume" \in Kinds /\ "taking" \in Waiting
  BY DEF Kinds, Waiting
<1> QED BY <1>1, <1>2, <1>3, <1>4, <1>5, SubmitsUnmixed

LEMMA CountUnmixed ==
  ASSUME IInv, OneEach, NEW s \in Sessions, NEW account, NEW n,
         Count(s, account, n), cli[s].stage # "idle",
         cli[s].command \in {"mint", "consume"}
  PROVE  OneEach'
<1> DEFINE b == LocalBalance(account, cli[s].faucet)
           q == LocalSupply(cli[s].faucet)
<1>1. PICK x : x = [cli[s] EXCEPT !.stage = "counted", !.tx = n,
                                  !.balance = b, !.supply = q]
  OBVIOUS
<1>2. cli[s] \in SessionType /\ cli \in [Sessions -> SessionType]
  BY AtHand
<1>3. cli' = [cli EXCEPT ![s] = x]
      /\ UNCHANGED <<faucets, vaults, txs, disk>>
  BY <1>1, <1>2 DEF Count
<1> HIDE DEF b, q
<1>4. /\ x.stage = "counted" /\ x.config = cli[s].config
      /\ x.faucet = cli[s].faucet /\ x.command = cli[s].command
  BY <1>1, <1>2 DEF SessionType
<1>5. Unforced(faucets) => Aligned(txs, x)
  <2>1. Unforced(faucets) =>
          cli[s].faucet = cli[s].config.faucet /\ cli[s].faucet # 0
    BY Unmixed DEF Aligned, OnFile
  <2> QED BY <1>4, <2>1 DEF Aligned, OnFile
<1>6. Unforced(faucets) => One(txs, vaults, x.config)
  BY <1>4, Unmixed
<1> QED BY <1>3, <1>5, <1>6, MovesAlone

(* What is on file afterwards, for each entry a command adds.              *)
LEMMA RecordDeploymentUnmixed ==
  ASSUME IInv, OneEach, NEW s \in Sessions, RecordDeployment(s)
  PROVE  OneEach'
<1>1. PICK c : c = [cli[s].config EXCEPT !.deploy = cli[s].tx]
  OBVIOUS
<1>2. Finish(s, c) /\ cli[s].stage = "deploying"
  BY <1>1 DEF RecordDeployment, Finished, At
<1>3. cli[s].config \in ConfigType
  BY AtHand
<1>4. /\ c.deploy = cli[s].tx /\ c.faucet = cli[s].config.faucet
      /\ c.vault = cli[s].config.vault /\ c.mint = cli[s].config.mint
      /\ c.consume = cli[s].config.consume
      /\ c.payout = cli[s].config.payout
  BY <1>1, <1>3 DEF ConfigType
<1>5. Unforced(faucets) =>
        /\ One(txs, vaults, cli[s].config) /\ Of(txs, c.deploy, c.faucet)
        /\ c.faucet # 0
  BY <1>2, <1>4, Unmixed DEF Aligned, OnFile
<1>6. Unforced(faucets) => One(txs, vaults, c)
  BY <1>4, <1>5 DEF One
<1> QED BY <1>2, <1>6, FinishesUnmixed

LEMMA RecordFundingUnmixed ==
  ASSUME IInv, OneEach, NEW s \in Sessions, RecordFunding(s)
  PROVE  OneEach'
<1>1. PICK c : c = [cli[s].config EXCEPT !.fund = cli[s].tx]
  OBVIOUS
<1>2. Finish(s, c)
  BY <1>1 DEF RecordFunding
<1>3. cli[s].config \in ConfigType
  BY AtHand
<1>4. /\ c.deploy = cli[s].config.deploy /\ c.faucet = cli[s].config.faucet
      /\ c.vault = cli[s].config.vault /\ c.mint = cli[s].config.mint
      /\ c.consume = cli[s].config.consume
      /\ c.payout = cli[s].config.payout
  BY <1>1, <1>3 DEF ConfigType
<1>5. Unforced(faucets) => One(txs, vaults, cli[s].config)
  BY Unmixed
<1>6. Unforced(faucets) => One(txs, vaults, c)
  BY <1>4, <1>5 DEF One
<1> QED BY <1>2, <1>6, FinishesUnmixed

LEMMA RecordMintUnmixed ==
  ASSUME IInv, OneEach, NEW s \in Sessions, RecordMint(s)
  PROVE  OneEach'
<1>1. PICK c : c = [cli[s].config EXCEPT !.mint = txs[cli[s].tx].input]
  OBVIOUS
<1>2. Finish(s, c) /\ cli[s].stage = "taking" /\ cli[s].command = "mint"
  BY <1>1 DEF RecordMint, Finished, At
<1>3. cli[s].config \in ConfigType
  BY AtHand
<1>4. /\ c.deploy = cli[s].config.deploy /\ c.faucet = cli[s].config.faucet
      /\ c.vault = cli[s].config.vault /\ c.mint = txs[cli[s].tx].input
      /\ c.consume = cli[s].config.consume
      /\ c.payout = cli[s].config.payout
  BY <1>1, <1>3 DEF ConfigType
<1>5. Unforced(faucets) =>
        /\ One(txs, vaults, cli[s].config) /\ Of(txs, c.mint, c.faucet)
        /\ c.faucet # 0
  BY <1>2, <1>4, Unmixed DEF Aligned, OnFile
<1>6. Unforced(faucets) => One(txs, vaults, c)
  BY <1>4, <1>5 DEF One
<1> QED BY <1>2, <1>6, FinishesUnmixed

LEMMA RecordConsumptionUnmixed ==
  ASSUME IInv, OneEach, NEW s \in Sessions, RecordConsumption(s)
  PROVE  OneEach'
<1>1. PICK c : c = [cli[s].config EXCEPT !.consume = cli[s].tx]
  OBVIOUS
<1>2. Finish(s, c) /\ cli[s].stage = "taking" /\ cli[s].command = "consume"
  BY <1>1 DEF RecordConsumption, Finished, At
<1>3. cli[s].config \in ConfigType
  BY AtHand
<1>4. /\ c.deploy = cli[s].config.deploy /\ c.faucet = cli[s].config.faucet
      /\ c.vault = cli[s].config.vault /\ c.mint = cli[s].config.mint
      /\ c.consume = cli[s].tx /\ c.payout = cli[s].config.payout
  BY <1>1, <1>3 DEF ConfigType
<1>5. Unforced(faucets) =>
        /\ One(txs, vaults, cli[s].config) /\ Of(txs, c.consume, c.faucet)
        /\ c.faucet # 0
  BY <1>2, <1>4, Unmixed DEF Aligned, OnFile
<1>6. Unforced(faucets) => One(txs, vaults, c)
  BY <1>4, <1>5 DEF One
<1> QED BY <1>2, <1>6, FinishesUnmixed

LEMMA StepUnmixed ==
  ASSUME IInv, OneEach, NEW s \in Sessions, Step(s)
  PROVE  OneEach'
<1>1. CASE CreateFaucet(s)
  <2>1. CASE AlreadyDeployed(s)
    BY <2>1, EndsUnmixed DEF AlreadyDeployed
  <2>2. CASE DeployedDiffers(s)
    BY <2>2, EndsUnmixed DEF DeployedDiffers
  <2> QED
    BY <1>1, <2>1, <2>2, UseConfiguredUnmixed, CreateKeyUnmixed,
       AddFaucetUnmixed, SaveFaucetUnmixed, SubmitBootstrapUnmixed,
       SubmitDeployUnmixed, RecordDeploymentUnmixed
    DEF CreateFaucet
<1>2. CASE Mint(s)
  <2>1. CASE ReadBeforeMint(s)
    <3>1. Count(s, "owner", cli[s].tx) /\ cli[s].stage = "funding"
          /\ cli[s].command = "mint"
      BY <2>1 DEF ReadBeforeMint, Finished, At
    <3> QED BY <3>1, CountUnmixed
  <2> QED
    BY <1>2, <2>1, SubmitFundUnmixed, RecordFundingUnmixed,
       SubmitMintUnmixed, SubmitCollectUnmixed, RecordMintUnmixed
    DEF Mint
<1>3. CASE Consume(s)
  <2>1. ASSUME NEW n \in DOMAIN txs, ReadBeforeConsume(s, n)
        PROVE  OneEach'
    <3>1. Count(s, "beneficiary", n) /\ cli[s].stage = "launched"
          /\ cli[s].command = "consume"
      BY <2>1 DEF ReadBeforeConsume, At
    <3> QED BY <3>1, CountUnmixed
  <2> QED
    BY <1>3, <2>1, SubmitConsumeUnmixed, RecordConsumptionUnmixed
    DEF Consume
<1>4. CASE NotAsCounted(s)
  BY <1>4, EndsUnmixed DEF NotAsCounted
<1>5. CASE GiveUp(s)
  BY <1>5, EndsUnmixed DEF GiveUp
<1>6. CASE Fail(s)
  BY <1>6, EndsUnmixed DEF Fail
<1> QED BY <1>1, <1>2, <1>3, <1>4, <1>5, <1>6 DEF Step

LEMMA StartUnmixed ==
  ASSUME IInv, OneEach, NEW s \in Sessions, Start(s)
  PROVE  OneEach'
<1>1. {"mint", "fund-fees", "consume", "create-faucet"} \subseteq Commands
      /\ FALSE \in BOOLEAN /\ Forces \subseteq BOOLEAN
  BY ForcesAssumption DEF Commands
<1> QED BY <1>1, LaunchUnmixed DEF Start

(* Unless --force is used, the faucet, vault and transactions the file     *)
(* names belong together, whichever process wrote it last.                 *)
THEOREM FileKeepsToOneFaucet == Spec => []OneFaucetOnFile
<1>1. IInv /\ OneEach /\ [Next]_vars => OneEach'
  <2> SUFFICES ASSUME IInv, OneEach, [Next]_vars PROVE OneEach' OBVIOUS
  <2>1. CASE UNCHANGED vars
    BY <2>1 DEF vars, OneEach
  <2> QED
    BY <2>1, SettleUnmixed, NewVaultUnmixed, PayOutUnmixed, TopUpUnmixed,
       StepUnmixed, StartUnmixed
    DEF Next
<1>2. OneEach => OneFaucetOnFile
  BY DEF OneEach, Unforced, One, Of, OneFaucetOnFile
<1> QED BY <1>1, <1>2, InvariantHolds, StartsUnmixed, PTL DEF Spec
=============================================================================
