--------------------------- MODULE MCAliroService ---------------------------
(* Small instances of AliroService for TLC: two connections to phones. *)
EXTENDS AliroService, TLC

CONSTANTS c1, c2

Symmetry == Permutations(Conns)
=============================================================================
