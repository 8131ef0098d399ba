---------------------------- MODULE MCMatterAccess ----------------------------
(* Small instances of MatterAccess for TLC.                                   *)
EXTENDS MatterAccess, TLC

SecretSymmetry == Permutations(Secrets)
=============================================================================
