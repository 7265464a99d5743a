---------------------------- MODULE MCQuestions ----------------------------
(* Constant values and symmetry for the run of Questions. *)
EXTENDS Questions, TLC

CONSTANTS s1, t1, k1, k2, k3, q1, a1, a2, c1, c2

OneStudent   == {s1}
OneTeacher   == {t1}
ThreeSockets == {k1, k2, k3}
Whose        == k1 :> s1 @@ k2 :> s1 @@ k3 :> t1
OneId        == {q1}
TwoAnswers   == {a1, a2}
TwoRequests  == {c1, c2}

Symmetry == Permutations(Answers) \cup Permutations(Requests) \cup Permutations({k1, k2})
=============================================================================
