------------------------------ MODULE PageStore ------------------------------
(***************************************************************************)
(* What the stored whiteboard promises: pages of strokes that change one   *)
(* edit at a time, each edit being one the room was shown before.  Pages   *)
(* may expire as a whole, and together when what would have renewed them   *)
(* dies; nothing is promised any more of one whose lock was outlived.      *)
(***************************************************************************)
EXTENDS Naturals

CONSTANTS StrokeIds, Pages

VARIABLES
  page,   \* the tick of each stroke, 0 for none, of each page that is kept
  edits   \* the edits broadcast so far: [t, epoch, req]

vars == <<page, edits>>

EmptyPage == [s \in StrokeIds |-> 0]

Apply(strokes, e) ==
  [s \in StrokeIds |->
     CASE e.req.kind = "cl" -> 0
       [] e.req.kind # "cl" /\ s # e.req.sId -> strokes[s]
       [] e.req.kind = "de" /\ s = e.req.sId -> e.t
       [] e.req.kind = "un" /\ s = e.req.sId -> 0]

Init == page = [p \in Pages |-> EmptyPage] /\ edits = {}

Announce == \E e \in edits' : edits' = edits \cup {e} /\ page' = page

Store == \E e \in edits :
           /\ page' = [page EXCEPT ![e.req.page] = Apply(@, e)]
           /\ edits' = edits

Expire == \E gone \in SUBSET DOMAIN page :
            /\ page' = [p \in DOMAIN page |-> IF p \in gone THEN EmptyPage ELSE page[p]]
            /\ edits' = edits

Outlive == \E p \in DOMAIN page :
             page' = [q \in DOMAIN page \ {p} |-> page[q]] /\ edits' = edits

Spec == Init /\ [][Announce \/ Store \/ Expire \/ Outlive]_vars
=============================================================================
