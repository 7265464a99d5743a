-------------------------- MODULE MCQuizQuestions --------------------------
(* Constant values and symmetry for the run of QuizQuestions. *)
EXTENDS QuizQuestions, TLC

CONSTANTS q1, q2, q3, c1, c2, u1, u2

ThreeIds    == {q1, q2, q3}
TwoRequests == {c1, c2}
TwoClients  == {u1, u2}

Symmetry == Permutations(Ids) \cup Permutations(Requests) \cup Permutations(Clients)
=============================================================================
