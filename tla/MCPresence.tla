----------------------------- MODULE MCPresence -----------------------------
(* Constant values for the run of Presence. *)
EXTENDS Presence, TLC

CONSTANTS s1, s2, s3, tea, stu, r1, r2

TwoUsers     == {tea, stu}
TwoAndOne    == s1 :> stu @@ s2 :> stu @@ s3 :> tea
ThreeSockets == {s1, s2, s3}
TwoRooms     == {r1, r2}
=============================================================================
