--------------------------- MODULE MCFeatureCommand ---------------------------
(* Bounds under which TLC checks FeatureCommand.                           *)
EXTENDS FeatureCommand, TLC

(* Processes are interchangeable.                                          *)
SessionSymmetry == Permutations(Sessions)

(* A process may die anywhere, or anywhere but between the submission of   *)
(* the funding transaction and the write of the pending note.  Dying       *)
(* before the submission is no different from being refused.               *)
Anywhere == Stages \ {"idle", "launched", "checked"}
OutsideFunding == Anywhere \ {"funding"}
=============================================================================
