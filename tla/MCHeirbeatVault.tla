--------------------------- MODULE MCHeirbeatVault ---------------------------
(* Note populations and bounds under which TLC checks HeirbeatVault.       *)
EXTENDS HeirbeatVault

MCAccounts == {"owner", "heir", "other"}

Blank(id, script, sender) ==
  [id |-> id, script |-> script, sender |-> sender, amount |-> 0,
   foreign |-> 0, bound |-> TRUE, adds |-> FALSE, root |-> "p2id",
   feature |-> 0]

RemoveP2id == Blank(1, "config", "owner")
Activation == Blank(2, "activate", "owner")
AddP2id    == [Blank(3, "config", "owner") EXCEPT !.adds = TRUE]
Bootstrap  == [Blank(5, "p2id", "owner") EXCEPT !.amount = 1]
PaidActivation == [Blank(7, "sponsorship", "owner") EXCEPT !.feature = 2]

Beat1      == Blank(11, "check_in", "owner")
Beat2      == Blank(12, "check_in", "owner")
OtherBeat  == Blank(13, "check_in", "other")
Claim1     == Blank(14, "claim", "heir")
Claim2     == Blank(15, "claim", "heir")
Deposit1   == [Blank(17, "deposit", "owner") EXCEPT !.amount = 1]
Deposit2   == [Blank(18, "deposit", "other") EXCEPT !.amount = 2]
Misrouted  == [Blank(19, "deposit", "owner") EXCEPT !.amount = 4,
                                                    !.bound = FALSE]
Mixed      == [Blank(20, "deposit", "other") EXCEPT !.amount = 8,
                                                    !.foreign = 1]

LifeNotes  == {RemoveP2id, Activation, AddP2id, PaidActivation, Bootstrap,
               Beat1, OtherBeat, Claim1, Deposit1, Misrouted, Mixed}
RaceNotes  == {RemoveP2id, Activation, Beat1, Beat2, Claim1, Claim2,
               Deposit1, Deposit2}
FairNotes  == {RemoveP2id, Activation, Beat1, Claim1, Deposit1}
=============================================================================
