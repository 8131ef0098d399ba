-------------------------- MODULE MCCredentialStore --------------------------
EXTENDS CredentialStore, TLC
KeySymmetry == Permutations(Keys)

Excused(causes) == upset \cap causes # {}

(* Nothing is explored after a removal by Matter ran beside a verification:   *)
(* the run with fewer slots does that. Nor is a history after which every     *)
(* property of the run is excused: what failed is never forgotten. Nor one in *)
(* which a Kpersistent key stayed behind: nothing but kp differs then, which  *)
(* neither the properties of this run nor the other variables depend on.      *)
TakingTurns ==
    /\ ~Excused({"overlap", "delete", "kp", "cut"})
    /\ ~(Excused({"read"}) /\ Excused({"zero"}))

(* The same for the run with fewer slots.                                     *)
MoreToSay ==
    ~(Excused({"iteration", "overlap"}) /\ Excused({"write", "read", "delete", "zero"}))
=============================================================================
