----------------------------- MODULE MCVaultView -----------------------------
(* VaultView over a note population of MCHeirbeatVault.                    *)
EXTENDS VaultView, MCHeirbeatVault
=============================================================================
