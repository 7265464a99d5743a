--------------------------- MODULE MCQuizAnswers ---------------------------
(* Constant values for the run of QuizAnswers. *)
EXTENDS QuizAnswers

CONSTANTS s1, s2, q1, c1, c2

TwoStudents  == {s1, s2}
OneQuestion  == {q1}
TwoRequests  == {c1, c2}
=============================================================================
