---------------------------- MODULE SessionPromise ----------------------------
(***************************************************************************)
(* What the end of a session promises, without requests, processes or      *)
(* commands that fail: an attempt closes the session and may be given up   *)
(* or tried again, it saves whatever the attempts so far owe, and only     *)
(* what is saved is archived and told.  An archived session stays so, and  *)
(* with it its file.                                                       *)
(***************************************************************************)
CONSTANT Strokes

VARIABLES
  phase,  \* "none", "open", "closing" or "archived"
  owed,   \* strokes the attempts found stored, and that stayed
  kept,   \* the file: [saved, strokes]
  told    \* the rooms were told, and drawing is blocked

vars == <<phase, owed, kept, told>>

Init ==
  /\ phase = "none" /\ owed = {} /\ told = FALSE
  /\ kept = [saved |-> FALSE, strokes |-> {}]

Open == phase = "none" /\ phase' = "open" /\ UNCHANGED <<owed, kept, told>>

\* An attempt begins, and owes what it finds as well.
Try ==
  /\ phase \in {"open", "closing"} /\ phase' = "closing"
  /\ \E found \in SUBSET Strokes : owed' = owed \cup found
  /\ UNCHANGED <<kept, told>>

Save ==
  /\ phase = "closing"
  /\ \E s \in SUBSET Strokes : owed \subseteq s /\ kept' = [saved |-> TRUE, strokes |-> s]
  /\ UNCHANGED <<phase, owed, told>>

GiveUp == phase = "closing" /\ phase' = "open" /\ UNCHANGED <<owed, kept, told>>

Archive ==
  /\ phase = "closing" /\ kept.saved /\ owed \subseteq kept.strokes
  /\ phase' = "archived"
  /\ UNCHANGED <<owed, kept, told>>

Tell == phase = "archived" /\ told' = TRUE /\ UNCHANGED <<phase, owed, kept>>

\* A restart forgets that drawing is blocked, and nothing else.
Forget == told' = FALSE /\ UNCHANGED <<phase, owed, kept>>

\* Strokes are erased, or expire with their page.
Vanish ==
  /\ \E gone \in SUBSET Strokes : owed' = owed \ gone
  /\ UNCHANGED <<phase, kept, told>>

Next == Open \/ Try \/ Save \/ GiveUp \/ Archive \/ Tell \/ Forget \/ Vanish

Spec == Init /\ [][Next]_vars
=============================================================================
