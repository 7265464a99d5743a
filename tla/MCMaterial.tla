----------------------------- MODULE MCMaterial -----------------------------
(* Constant values and symmetry for the run of Material. *)
EXTENDS Material, TLC

CONSTANTS m1, m2, c1, s1, none

TwoSessionUploads == {m1, m2}
OneClassUpload    == {c1}
OneUser           == {s1}
AllFaults         == {"io", "lost", "restart", "expiry"}

Symmetry == Permutations(SessionUploads)
=============================================================================
