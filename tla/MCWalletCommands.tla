---------------------------- MODULE MCWalletCommands ----------------------------
(* Starting points and bounds under which TLC checks WalletCommands.  Two  *)
(* processes are too few to come all the way from an empty machine to a    *)
(* payout, so some behaviours start where earlier processes have left off. *)
EXTENDS WalletCommands

Faucet == [cap |-> "default", stored |-> TRUE, forced |-> FALSE]

Past(kind, input, to) ==
  [kind |-> kind, input |-> input, faucet |-> 1, vault |-> 0, to |-> to,
   status |-> "committed"]

Quiet ==
  cli = [s \in Sessions |-> Idle] /\ runs = 0 /\ faults = 0

(* create-faucet was killed after saving the file.                         *)
Created ==
  /\ Quiet /\ reserve = TRUE
  /\ faucets = <<Faucet>> /\ vaults = <<>> /\ txs = <<>>
  /\ disk = [EmptyConfig EXCEPT !.faucet = 1]

(* The first mint has deployed the faucet; the vault has been deployed.    *)
Operating ==
  /\ Quiet /\ reserve = FALSE
  /\ faucets = <<Faucet>> /\ vaults = <<1>>
  /\ txs = <<Past("fund", 0, "faucet"), Past("mint", 1, "owner"),
             Past("collect", 2, "owner")>>
  /\ disk = [EmptyConfig EXCEPT !.faucet = 1, !.vault = 1, !.mint = 2]

MCSpec ==
  /\ (Init /\ reserve) \/ Created \/ Operating
  /\ [][Next]_vars /\ Fairness
=============================================================================
