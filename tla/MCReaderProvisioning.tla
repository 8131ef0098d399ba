------------------------- MODULE MCReaderProvisioning -------------------------
(* A small instance of ReaderProvisioning for TLC.                            *)
EXTENDS ReaderProvisioning, TLC

ConfigSymmetry == Permutations(Configs)
=============================================================================
