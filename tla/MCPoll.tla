------------------------------- MODULE MCPoll -------------------------------
(* Constant values for the run of Poll. *)
EXTENDS Poll

CONSTANTS u1, u2, yes, no

TwoStudents == {u1, u2}
TwoOptions  == {yes, no}
=============================================================================
