----------------------------- MODULE MCDeployVault -----------------------------
(* Bounds under which TLC checks DeployVault.                              *)
EXTENDS DeployVault

Anywhere == Stages \ {"idle"}
=============================================================================
