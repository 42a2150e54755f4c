------------------------- MODULE InheritanceContract -------------------------
(***************************************************************************)
(* What the vault promises, without notes, allowlists or transactions: an  *)
(* asset pot that only grows until one single payout of all of it, which   *)
(* cannot happen before the owner has been silent for Timeout blocks.      *)
(***************************************************************************)
EXTENDS Naturals

CONSTANTS
  Timeout,   \* blocks of silence that entitle the beneficiary
  MaxHeight  \* bound of the clock

VARIABLES
  clock,     \* current block
  phase,     \* where the inheritance is in its one-way life
  lastBeat,  \* block of the last heartbeat
  pot,       \* what the vault holds
  paid       \* what the beneficiary was paid

vars == <<clock, phase, lastBeat, pot, paid>>

Phases == {"setup", "active", "closed"}

Init ==
  /\ clock = 0
  /\ phase = "setup"
  /\ lastBeat = 0
  /\ pot = 0
  /\ paid = 0

(* The vault after its setup, before its first heartbeat or deposit.        *)
InService == clock = 0 /\ phase = "active" /\ lastBeat = 0 /\ pot = 0 /\ paid = 0

NextBlock == clock < MaxHeight /\ clock' = clock + 1

(* A transaction is executed on the block before it, which it may follow.  *)
Executes == clock' = clock \/ NextBlock

(* Time passes, and nothing else with it.                                  *)
Tick ==
  /\ NextBlock
  /\ UNCHANGED <<phase, lastBeat, pot, paid>>

(* Setup may leave assets in the pot.                                      *)
SetUp ==
  /\ phase = "setup"
  /\ pot' >= pot
  /\ UNCHANGED <<clock, phase, lastBeat, paid>>

(* The owner puts the vault into service.                                  *)
Start ==
  /\ phase = "setup"
  /\ phase' = "active"
  /\ UNCHANGED <<clock, lastBeat, pot, paid>>

(* Heartbeats and deposits, several of them at once if a transaction       *)
(* consumes several notes.                                                 *)
Serve ==
  /\ phase = "active"
  /\ lastBeat' \in lastBeat..clock
  /\ pot' >= pot
  /\ Executes
  /\ UNCHANGED <<phase, paid>>

(* The payout: everything held, together with whatever the same            *)
(* transaction deposited before it.                                        *)
PayOut ==
  /\ phase = "active"
  /\ phase' = "closed"
  /\ lastBeat' \in lastBeat..clock
  /\ lastBeat' + Timeout <= clock
  /\ paid' >= pot /\ paid' > 0
  /\ pot' = 0
  /\ Executes

Next == Tick \/ SetUp \/ Start \/ Serve \/ PayOut

Spec == Init /\ [][Next]_vars
=============================================================================
