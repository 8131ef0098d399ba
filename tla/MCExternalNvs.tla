--------------------------- MODULE MCExternalNvs ---------------------------
(* Small instances of ExternalNvs for TLC. *)
EXTENDS ExternalNvs
=============================================================================
