---------------------------- MODULE MCWhiteboard ----------------------------
(* Constant values and symmetry for the runs of Whiteboard. *)
EXTENDS Whiteboard, TLC

CONSTANTS t1, s1, a, b, p1, o1, o2

OneTeacher  == {t1}
NoStudent   == {}
OneStudent  == {s1}
OneStroke   == {a}
TwoStrokes  == {a, b}
OnePage     == {p1}
TwoOps      == {o1, o2}
AllKinds    == {"de", "un", "cl"}
\* With one stroke a cl does what an un does.
OneErasure  == {"de", "un"}

PageFaults  == {"lease", "redis", "expiry"}
RoomFaults  == {"leave", "end", "restart"}
RestartOnly == {"restart"}

Symmetry == Permutations(Teachers) \cup Permutations(Ops) \cup Permutations(StrokeIds)
=============================================================================
