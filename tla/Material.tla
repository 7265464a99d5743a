------------------------------ MODULE Material ------------------------------
(***************************************************************************)
(* The material of one session: the two requests that upload a PDF, what   *)
(* they leave in the database, and the copies of Session.materialId - in   *)
(* the session's Redis key, in the lastSession caches and in joins that    *)
(* are under way - that join_room trusts.                                  *)
(*                                                                         *)
(* A material is named by the request that uploads it.  Files in S3 and    *)
(* the pixels of pages are left out: a material has its pages or not.      *)
(***************************************************************************)
EXTENDS Naturals, FiniteSets

CONSTANTS
  SessionUploads,  \* POST /sessions/:id/material, one per file
  ClassUploads,    \* POST /materials/pdf, one per file
  Users,           \* who joins the session
  None,            \* no material
  MaxFaults,       \* bound: failures and restarts
  Faults           \* "io", "lost", "restart", "expiry"

Uploads == SessionUploads \cup ClassUploads

ASSUME MaterialAssumption ==
  /\ SessionUploads \cap ClassUploads = {}
  /\ None \notin Uploads
  /\ MaxFaults \in Nat
  /\ Faults \subseteq {"io", "lost", "restart", "expiry"}

VARIABLES
  creating,     \* how far POST /sessions is, and the material it was given
  status,       \* Session.status, "NONE" while there is no row
  linked,       \* Session.materialId
  rows, paged,  \* Material rows, and those of them that have MaterialPage rows
  copy,         \* session:<id> in Redis
  upload,       \* upload requests
  cache,        \* user:<id>:lastSession, as far as it names this session
  join,         \* join_room handlers
  participants, \* SessionParticipant rows
  shown,        \* history: the material of the user's last join_success
  shifted,      \* history: the session's material was replaced, or unfinished when chosen
  abandoned,    \* history: uploads that failed to clean up, or whose process died
  faults        \* bound on failures

sessionVars == <<creating, status, linked, copy>>
userVars    == <<cache, join, participants, shown>>
vars == <<sessionVars, rows, paged, upload, userVars, shifted, abandoned, faults>>

Materials == Uploads \cup {None}
\* What a copy says: whether it is there, and the material it names.
Absent    == [there |-> FALSE, material |-> None]
Naming(m) == [there |-> TRUE, material |-> m]

Unsent     == [pc |-> "new", copying |-> "no", reply |-> "none"]
NotJoining == [pc |-> "idle", hit |-> FALSE, material |-> None]

Init ==
  /\ creating = [pc |-> "new", material |-> None] /\ status = "NONE"
  /\ linked = None /\ rows = {} /\ paged = {} /\ copy = Absent
  /\ upload = [u \in Uploads |-> Unsent]
  /\ cache = [s \in Users |-> Absent]
  /\ join = [s \in Users |-> NotJoining]
  /\ participants = {} /\ shown = [s \in Users |-> None]
  /\ shifted = FALSE /\ abandoned = {} /\ faults = 0

MayFail(kind) == kind \in Faults /\ faults < MaxFaults /\ faults' = faults + 1

-----------------------------------------------------------------------------
(* The session *)

\* POST /sessions checks that the material exists, not that it has its pages,
CreateCheck(m) ==
  /\ creating.pc = "new" /\ m \in rows \cup {None}
  /\ creating' = [pc |-> "row", material |-> m]
  /\ UNCHANGED <<status, linked, copy, rows, paged, upload, userVars, shifted, abandoned, faults>>

\* (a material is finished when its pages are stored and its upload is answered)
Finished(m) == m \in paged /\ upload[m].pc = "done"

\* hashes the password and inserts the row, whose foreign key refuses a material
\* that is gone by now,
CreateRow ==
  /\ creating.pc = "row"
  /\ IF creating.material \in rows \cup {None}
       THEN /\ status' = "ACTIVE" /\ linked' = creating.material
            /\ creating' = [creating EXCEPT !.pc = "key"]
            /\ shifted' = (creating.material # None /\ ~Finished(creating.material))
       ELSE creating' = [creating EXCEPT !.pc = "done"] /\ UNCHANGED <<status, linked, shifted>>
  /\ UNCHANGED <<copy, rows, paged, upload, userVars, abandoned, faults>>

\* and writes the Redis key with the material it was given.
CreateKey ==
  /\ creating.pc = "key"
  /\ creating' = [creating EXCEPT !.pc = "done"]
  /\ copy' = Naming(creating.material)
  /\ UNCHANGED <<status, linked, rows, paged, upload, userVars, shifted, abandoned, faults>>

\* The end handler as far as uploads see it: CLOSING (or FAILED), back to ACTIVE
\* after a failed upload, ARCHIVED.
EndMoves ==
  /\ \/ status = "ACTIVE" /\ status' = "CLOSING"
     \/ status = "CLOSING" /\ status' \in {"ACTIVE", "ARCHIVED"}
  /\ UNCHANGED <<creating, linked, copy, rows, paged, upload, userVars, shifted, abandoned, faults>>

-----------------------------------------------------------------------------
(* Uploads *)

Moved(u, pc, copying, reply) ==
  upload' = [upload EXCEPT ![u] = [pc |-> pc, copying |-> copying, reply |-> reply]]
Step(u, pc) == Moved(u, pc, upload[u].copying, upload[u].reply)
\* A request is answered once.
First(u, answer) == IF upload[u].reply = "none" THEN answer ELSE upload[u].reply
Reply(u, answer) == Moved(u, "done", upload[u].copying, First(u, answer))

\* The session is there, its class is the teacher's, and it is ACTIVE.
SessionUpload(u) ==
  /\ u \in SessionUploads /\ upload[u].pc = "new" /\ status = "ACTIVE"
  /\ Step(u, "save")
  /\ UNCHANGED <<sessionVars, rows, paged, userVars, shifted, abandoned, faults>>

\* The class is the teacher's; the session, if one is named, is not looked at.
ClassUpload(u) ==
  /\ u \in ClassUploads /\ upload[u].pc = "new"
  /\ Step(u, "save")
  /\ UNCHANGED <<sessionVars, rows, paged, userVars, shifted, abandoned, faults>>

\* saveFile, then material.create.
CreateMaterial(u) ==
  /\ upload[u].pc = "save"
  /\ rows' = rows \cup {u}
  /\ Step(u, "rasterize")
  /\ UNCHANGED <<sessionVars, paged, userVars, shifted, abandoned, faults>>

\* Either of them fails; nothing takes back a row whose insertion was not answered.
CreateMaterialFails(u) ==
  /\ upload[u].pc = "save"
  /\ Reply(u, "failed")
  /\ \/ MayFail("io") /\ UNCHANGED <<rows, abandoned>>
     \/ MayFail("lost") /\ rows' = rows \cup {u} /\ abandoned' = abandoned \cup {u}
  /\ UNCHANGED <<sessionVars, paged, userVars, shifted>>

\* rasterizePdfToPages: every page of the PDF has its image, or it throws.
Rasterize(u) ==
  /\ upload[u].pc = "rasterize"
  /\ Step(u, IF u \in SessionUploads THEN "link" ELSE "pages")
  /\ UNCHANGED <<sessionVars, rows, paged, userVars, shifted, abandoned, faults>>

\* Rasterising, or the database after it, throws: the row is to be taken back.
\* With "lost" the database has committed and its answer does not arrive.
WorkFails(u) ==
  /\ upload[u].pc \in {"rasterize", "link", "pages"}
  /\ Step(u, "cleanup")
  /\ \/ MayFail("io") /\ UNCHANGED <<linked, paged>>
     \/ /\ upload[u].pc = "pages" /\ MayFail("lost")
        /\ paged' = paged \cup {u} /\ UNCHANGED linked
     \/ /\ upload[u].pc = "link" /\ linked = None /\ status = "ACTIVE" /\ MayFail("lost")
        /\ paged' = paged \cup {u} /\ linked' = u
  /\ UNCHANGED <<creating, status, copy, rows, userVars, shifted, abandoned>>

\* Mutant: the update is not conditional on materialId being null.
LinkAnyway(u) ==
  /\ upload[u].pc = "link"
  /\ status = "ACTIVE"
  /\ linked' = u /\ paged' = paged \cup {u}
  /\ Moved(u, "wait", "get", upload[u].reply)
  /\ UNCHANGED <<creating, status, copy, rows, userVars, shifted, abandoned, faults>>

\* Mutant: the count of the updateMany is not looked at.
LinkUnnoticed(u) ==
  /\ upload[u].pc = "link"
  /\ linked' = (IF linked = None /\ status = "ACTIVE" THEN u ELSE linked)
  /\ paged' = paged \cup {u}
  /\ Moved(u, "wait", "get", upload[u].reply)
  /\ UNCHANGED <<creating, status, copy, rows, userVars, shifted, abandoned, faults>>

\* The transaction: pages, and the session's material if it has none and is ACTIVE.
Link(u) ==
  /\ upload[u].pc = "link"
  /\ IF linked = None /\ status = "ACTIVE"
       THEN /\ linked' = u /\ paged' = paged \cup {u}
            /\ Moved(u, "wait", "get", upload[u].reply)
       ELSE /\ Moved(u, "cleanup", "no", "taken")
            /\ UNCHANGED <<linked, paged>>
  /\ UNCHANGED <<creating, status, copy, rows, userVars, shifted, abandoned, faults>>

\* materialPage.createMany; then the Redis key and the row of the session, if
\* one was named, are updated at the same time, whatever they say by now.
StorePages(u) ==
  /\ upload[u].pc = "pages"
  /\ paged' = paged \cup {u}
  /\ \/ Reply(u, "ok")
     \/ status # "NONE" /\ Moved(u, "update", "get", upload[u].reply)
  /\ UNCHANGED <<sessionVars, rows, userVars, shifted, abandoned, faults>>

\* prisma.session.update, next to the update of the Redis key.
Replace(u) ==
  /\ upload[u].pc = "update"
  /\ linked' = u
  /\ shifted' = TRUE
  /\ IF upload[u].copying = "no" THEN Reply(u, "ok") ELSE Step(u, "wait")
  /\ UNCHANGED <<creating, status, copy, rows, paged, userVars, abandoned, faults>>

ReplaceFails(u) ==
  /\ upload[u].pc = "update"
  /\ Moved(u, IF upload[u].copying = "no" THEN "done" ELSE "wait", upload[u].copying, "failed")
  /\ \/ MayFail("io") /\ UNCHANGED <<linked, shifted>>
     \/ MayFail("lost") /\ linked' = u /\ shifted' = TRUE
  /\ UNCHANGED <<creating, status, copy, rows, paged, userVars, abandoned>>

\* Mutant: the pages do not go with their material.
CleanUpRowOnly(u) ==
  /\ upload[u].pc = "cleanup"
  /\ rows' = rows \ {u}
  /\ linked' = IF linked = u THEN None ELSE linked
  /\ Reply(u, "failed")
  /\ UNCHANGED <<creating, status, copy, paged, userVars, shifted, abandoned, faults>>

\* Mutant: the row is left where it is.
KeepRow(u) ==
  /\ upload[u].pc = "cleanup"
  /\ Reply(u, "failed")
  /\ UNCHANGED <<sessionVars, rows, paged, userVars, shifted, abandoned, faults>>

\* material.delete takes the pages along and sets Session.materialId to null.
CleanUp(u) ==
  /\ upload[u].pc = "cleanup"
  /\ rows' = rows \ {u} /\ paged' = paged \ {u}
  /\ linked' = IF linked = u THEN None ELSE linked
  /\ Reply(u, "failed")
  /\ UNCHANGED <<creating, status, copy, userVars, shifted, abandoned, faults>>

\* That it fails is ignored.
CleanUpFails(u) ==
  /\ upload[u].pc = "cleanup" /\ MayFail("io")
  /\ abandoned' = abandoned \cup {u}
  /\ Reply(u, "failed")
  /\ UNCHANGED <<sessionVars, rows, paged, userVars, shifted>>

\* sessionStore.update: GET (no key, no update), then TTL and SETEX, which puts a
\* key back that has expired in between.
CopyEnds(u, answer) ==
  Moved(u, IF upload[u].pc = "wait" THEN "done" ELSE upload[u].pc, "no",
        IF upload[u].pc = "wait" \/ answer = "failed" THEN First(u, answer) ELSE upload[u].reply)

CopyGet(u) ==
  /\ upload[u].copying = "get"
  /\ IF copy.there THEN Moved(u, upload[u].pc, "set", upload[u].reply) ELSE CopyEnds(u, "ok")
  /\ UNCHANGED <<sessionVars, rows, paged, userVars, shifted, abandoned, faults>>

CopySet(u) ==
  /\ upload[u].copying = "set"
  /\ copy' = Naming(u)
  /\ shifted' = (shifted \/ u \in ClassUploads)
  /\ CopyEnds(u, "ok")
  /\ UNCHANGED <<creating, status, linked, rows, paged, userVars, abandoned, faults>>

CopyFails(u) ==
  /\ upload[u].copying # "no"
  /\ CopyEnds(u, "failed")
  /\ \/ MayFail("io") /\ UNCHANGED <<copy, shifted>>
     \/ /\ upload[u].copying = "set" /\ MayFail("lost")
        /\ copy' = Naming(u) /\ shifted' = (shifted \/ u \in ClassUploads)
  /\ UNCHANGED <<creating, status, linked, rows, paged, userVars, abandoned>>

-----------------------------------------------------------------------------
(* Joins, as far as the material is concerned *)

\* The cache answers with the material it was stored with, or the Redis key is read.
JoinStart(s) ==
  /\ join[s].pc = "idle"
  /\ join' = [join EXCEPT ![s] =
                IF cache[s].there
                  THEN [pc |-> "record", hit |-> TRUE, material |-> cache[s].material]
                  ELSE [pc |-> "fetch", hit |-> FALSE, material |-> None]]
  /\ UNCHANGED <<sessionVars, rows, paged, upload, cache, participants, shown, shifted, abandoned, faults>>

JoinFetch(s) ==
  /\ join[s].pc = "fetch"
  /\ join' = [join EXCEPT ![s] =
                IF copy.there THEN [pc |-> "check", hit |-> FALSE, material |-> copy.material]
                              ELSE NotJoining]
  /\ UNCHANGED <<sessionVars, rows, paged, upload, cache, participants, shown, shifted, abandoned, faults>>

\* After a miss the row must not be ARCHIVED.
JoinCheck(s) ==
  /\ join[s].pc = "check"
  /\ IF status = "ARCHIVED" THEN join' = [join EXCEPT ![s] = NotJoining]
                            ELSE join' = [join EXCEPT ![s].pc = "record"]
  /\ UNCHANGED <<sessionVars, rows, paged, upload, cache, participants, shown, shifted, abandoned, faults>>

\* A client that names another material, or none, is refused.
JoinMismatch(s) ==
  /\ join[s].pc = "record" /\ join[s].material # None
  /\ join' = [join EXCEPT ![s] = NotJoining]
  /\ UNCHANGED <<sessionVars, rows, paged, upload, cache, participants, shown, shifted, abandoned, faults>>

\* The participant row; that it fails is logged.
JoinRecord(s) ==
  /\ join[s].pc = "record"
  /\ join' = [join EXCEPT ![s].pc = "show"]
  /\ \/ participants' = participants \cup {s} /\ UNCHANGED faults
     \/ MayFail("io") /\ UNCHANGED participants
  /\ UNCHANGED <<sessionVars, rows, paged, upload, cache, shown, shifted, abandoned>>

\* join_success names the material and carries its row and pages, if it is there.
JoinShow(s) ==
  /\ join[s].pc = "show"
  /\ shown' = [shown EXCEPT ![s] = join[s].material]
  /\ IF join[s].hit THEN join' = [join EXCEPT ![s] = NotJoining]
                    ELSE join' = [join EXCEPT ![s].pc = "save"]
  /\ UNCHANGED <<sessionVars, rows, paged, upload, cache, participants, shifted, abandoned, faults>>

JoinSave(s) ==
  /\ join[s].pc = "save"
  /\ cache' = [cache EXCEPT ![s] = Naming(join[s].material)]
  /\ join' = [join EXCEPT ![s] = NotJoining]
  /\ UNCHANGED <<sessionVars, rows, paged, upload, participants, shown, shifted, abandoned, faults>>

\* GET /materials/:id/download-url for one who is not a member of the class: the
\* session's present material decides, also after its end.
MayDownload(s, m) == m \in rows /\ s \in participants /\ linked = m

-----------------------------------------------------------------------------
(* The environment *)

\* Requests die with the process; what they would have cleaned up stays.
Restart ==
  /\ MayFail("restart")
  /\ upload' = [u \in Uploads |-> [upload[u] EXCEPT !.copying = "no",
                                     !.pc = IF @ = "new" THEN "new" ELSE "done"]]
  /\ abandoned' = abandoned \cup {u \in Uploads : upload[u].pc \notin {"new", "done"}}
  /\ creating' = [creating EXCEPT !.pc = IF @ = "new" THEN "new" ELSE "done"]
  /\ join' = [s \in Users |-> NotJoining]
  /\ UNCHANGED <<status, linked, copy, rows, paged, cache, participants, shown, shifted>>

\* Keys expire; the purge at the end of the session deletes caches as well.
ExpireCopy ==
  /\ "expiry" \in Faults /\ copy.there
  /\ copy' = Absent
  /\ UNCHANGED <<creating, status, linked, rows, paged, upload, userVars, shifted, abandoned, faults>>

ExpireCache(s) ==
  /\ "expiry" \in Faults /\ cache[s].there
  /\ cache' = [cache EXCEPT ![s] = Absent]
  /\ UNCHANGED <<sessionVars, rows, paged, upload, join, participants, shown, shifted, abandoned, faults>>

UploadStep(u) ==
  \/ SessionUpload(u) \/ ClassUpload(u) \/ CreateMaterial(u) \/ CreateMaterialFails(u)
  \/ Rasterize(u) \/ WorkFails(u) \/ Link(u) \/ StorePages(u) \/ Replace(u) \/ ReplaceFails(u)
  \/ CleanUp(u) \/ CleanUpFails(u) \/ CopyGet(u) \/ CopySet(u) \/ CopyFails(u)

JoinStep(s) ==
  \/ JoinStart(s) \/ JoinFetch(s) \/ JoinCheck(s) \/ JoinMismatch(s)
  \/ JoinRecord(s) \/ JoinShow(s) \/ JoinSave(s)

Next ==
  \/ \E m \in Materials : CreateCheck(m)
  \/ CreateRow \/ CreateKey \/ EndMoves
  \/ \E u \in Uploads : UploadStep(u)
  \/ \E s \in Users : JoinStep(s) \/ ExpireCache(s)
  \/ Restart \/ ExpireCopy

Spec == Init /\ [][Next]_vars

-----------------------------------------------------------------------------
(* Properties *)

UploadPhases == {"new", "save", "rasterize", "link", "pages", "update", "wait", "cleanup", "done"}
Copies == [there : BOOLEAN, material : Materials]

TypeOK ==
  /\ creating \in [pc : {"new", "row", "key", "done"}, material : Materials]
  /\ status \in {"NONE", "ACTIVE", "CLOSING", "ARCHIVED"}
  /\ linked \in Materials /\ rows \subseteq Uploads /\ paged \subseteq rows
  /\ copy \in Copies
  /\ upload \in [Uploads -> [pc : UploadPhases, copying : {"no", "get", "set"},
                             reply : {"none", "ok", "taken", "failed"}]]
  /\ cache \in [Users -> Copies]
  /\ join \in [Users -> [pc : {"idle", "fetch", "check", "record", "show", "save"},
                         hit : BOOLEAN, material : Materials]]
  /\ participants \subseteq Users /\ shown \in [Users -> Materials]
  /\ shifted \in BOOLEAN /\ abandoned \subseteq Uploads /\ faults \in Nat

\* No material stays behind without its pages ("so that no orphan rows without
\* pages remain"): one that has none belongs to a request that is still at work,
\* to one that died, or to one whose clean-up failed or which never learnt that
\* the row was inserted - however far it had come, whether or not the database's
\* answer about the pages reached it, and whoever else uploads.
NoOrphan ==
  \A m \in rows \ paged : upload[m].pc \in {"rasterize", "link", "pages", "cleanup"} \/ m \in abandoned

\* Of the uploads to one session that are told 201 there is one, and its material
\* is the session's from then on, with its pages, however many teachers upload at
\* the same time and whatever fails, as long as no class upload replaces it.
FirstUploadStands ==
  \A u \in SessionUploads :
    upload[u].reply = "ok" /\ ~shifted => linked = u /\ u \in paged

\* Whatever a user was shown on joining - from the Redis key, from a cache stored
\* long ago - is the material of the session, has its pages, and can be downloaded
\* by whoever's participation was recorded, also after the end.  Not so once the
\* material was replaced, or was still being uploaded when the session was created with it.
ShownIsAvailable ==
  \A s \in Users :
    shown[s] # None /\ ~shifted =>
      shown[s] \in paged /\ (s \in participants => MayDownload(s, shown[s]))
=============================================================================
