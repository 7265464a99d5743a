--------------------------- MODULE MaterialProofs ---------------------------
(***************************************************************************)
(* Proofs about Material for any number of uploads and users, whatever     *)
(* fails: every safety property of the run.                                *)
(***************************************************************************)
EXTENDS Material, TLAPS

UploadStates ==
  [Uploads -> [pc : UploadPhases, copying : {"no", "get", "set"}, reply : {"none", "ok", "taken", "failed"}]]
JoinStates ==
  [Users -> [pc : {"idle", "fetch", "check", "record", "show", "save"}, hit : BOOLEAN, material : Materials]]

\* Which requests come where, and that a request at work has its row.
AtWork ==
  \A u \in Uploads :
    /\ upload[u].pc \in {"rasterize", "link", "pages", "cleanup"} => u \in rows
    /\ upload[u].pc = "link" => u \in SessionUploads
    /\ upload[u].pc \in {"pages", "update"} => u \in ClassUploads
    /\ upload[u].copying # "no" => upload[u].pc \in {"update", "wait"}
    /\ upload[u].reply = "ok" => upload[u].pc = "done"

\* Before the session has its row nothing is uploaded to it.
Early ==
  /\ creating.pc \in {"new", "row"} => status = "NONE"
  /\ status = "NONE" =>
       /\ linked = None /\ ~shifted
       /\ \A u \in Uploads : upload[u].pc \notin {"update", "wait"} /\ (u \in SessionUploads => upload[u].pc = "new")

Base == TypeOK /\ AtWork /\ Early /\ NoOrphan

-----------------------------------------------------------------------------
(* Types, and which requests come where *)

\* At the start nothing is uploaded.
LEMMA InitBase == Init => Base
<1> SUFFICES ASSUME Init PROVE Base
  OBVIOUS
<1>1. upload \in UploadStates /\ (\A u \in Uploads : upload[u] = Unsent)
  BY DEF Init, Unsent, UploadStates, UploadPhases
<1>2. join \in JoinStates
  BY DEF Init, NotJoining, JoinStates, Materials
<1>3. copy \in Copies /\ cache \in [Users -> Copies] /\ shown \in [Users -> Materials]
  BY DEF Init, Absent, Copies, Materials
<1>4. TypeOK
  BY <1>1, <1>2, <1>3 DEF Init, TypeOK, UploadStates, JoinStates, Materials
<1>5. QED BY <1>1, <1>4 DEF Init, Base, AtWork, Early, NoOrphan, Unsent

\* A request goes on and the others do not.
LEMMA UploadMoves ==
  ASSUME Base, NEW u \in Uploads, NEW pc \in UploadPhases, NEW copying \in {"no", "get", "set"},
         NEW reply \in {"none", "ok", "taken", "failed"}, Moved(u, pc, copying, reply)
  PROVE  /\ upload' \in UploadStates
         /\ upload'[u].pc = pc /\ upload'[u].copying = copying /\ upload'[u].reply = reply
         /\ \A v \in Uploads : v # u => upload'[v] = upload[v]
BY DEF Moved, UploadStates, Base, TypeOK

\* What a request answers is an answer.
LEMMA FirstAnswer ==
  ASSUME Base, NEW u \in Uploads, NEW answer \in {"ok", "failed"}
  PROVE  /\ First(u, answer) \in {"none", "ok", "taken", "failed"}
         /\ upload[u].copying \in {"no", "get", "set"} /\ upload[u].reply \in {"none", "ok", "taken", "failed"}
         /\ upload[u].pc \in UploadPhases
BY DEF First, Base, TypeOK

\* What a step of a request may do besides.
Fits(u, pc, copying, reply) ==
  /\ UNCHANGED <<creating, status>> /\ faults' \in Nat
  /\ linked' \in Materials /\ copy' \in Copies /\ shifted' \in BOOLEAN /\ abandoned' \in SUBSET Uploads
  /\ rows' \subseteq rows \cup {u} /\ rows \subseteq rows' \cup {u}
  /\ paged \subseteq paged' \cup {u} /\ paged' \subseteq rows' /\ abandoned \subseteq abandoned'
  /\ pc \in {"rasterize", "link", "pages", "cleanup"} => u \in rows'
  /\ pc = "link" => u \in SessionUploads
  /\ pc \in {"pages", "update"} => u \in ClassUploads
  /\ copying # "no" => pc \in {"update", "wait"}
  /\ reply = "ok" => pc = "done"
  /\ status = "NONE" =>
       linked' = None /\ ~shifted' /\ pc \notin {"update", "wait"} /\ (u \in SessionUploads => pc = "new")
  /\ u \in rows' \ paged' => pc \in {"rasterize", "link", "pages", "cleanup"} \/ u \in abandoned'

\* A step of a request that fits leaves everything in order.
LEMMA UploadBase ==
  ASSUME Base, NEW u \in Uploads, NEW pc \in UploadPhases, NEW copying \in {"no", "get", "set"},
         NEW reply \in {"none", "ok", "taken", "failed"}, Moved(u, pc, copying, reply),
         UNCHANGED userVars, Fits(u, pc, copying, reply)
  PROVE  Base'
<1>1. /\ upload' \in UploadStates
      /\ upload'[u].pc = pc /\ upload'[u].copying = copying /\ upload'[u].reply = reply
      /\ \A v \in Uploads : v # u => upload'[v] = upload[v]
  BY UploadMoves
<1>2. TypeOK'
  BY <1>1 DEF Base, TypeOK, UploadStates, userVars, Fits
<1>3. AtWork'
  BY <1>1 DEF Base, AtWork, Fits
<1>4. Early'
  BY <1>1 DEF Base, Early, Fits
<1>5. NoOrphan'
  <2>1. ASSUME NEW m \in rows' \ paged', m # u
        PROVE  upload'[m].pc \in {"rasterize", "link", "pages", "cleanup"} \/ m \in abandoned'
    <3>1. m \in rows \ paged /\ m \in Uploads
      BY <2>1 DEF Base, TypeOK, Fits
    <3>2. QED BY <1>1, <2>1, <3>1 DEF Base, NoOrphan, Fits
  <2>2. QED BY <1>1, <2>1 DEF NoOrphan, Fits
<1>6. QED BY <1>2, <1>3, <1>4, <1>5 DEF Base

\* Every step of a request leaves everything in order.
LEMMA UploadStepBase ==
  ASSUME Base, NEW u \in Uploads, UploadStep(u)
  PROVE  Base'
<1> USE MaterialAssumption
<1>1. ASSUME SessionUpload(u) PROVE Base'
  <2> DEFINE pc == "save"
             reply == upload[u].reply
  <2>1. pc \in UploadPhases /\ reply \in {"none", "ok", "taken", "failed"} /\ upload[u].copying \in {"no", "get", "set"}
    BY <1>1, FirstAnswer DEF UploadPhases
  <2>2. Moved(u, pc, upload[u].copying, reply) /\ UNCHANGED userVars
    BY <1>1 DEF SessionUpload, Step
  <2>3. Fits(u, pc, upload[u].copying, reply)
    BY <1>1 DEF SessionUpload, Fits, First, MayFail, Base, TypeOK, AtWork, Early, NoOrphan, Materials, Uploads, sessionVars
  <2> HIDE DEF pc, reply
  <2>4. QED BY <2>1, <2>2, <2>3, UploadBase
<1>2. ASSUME ClassUpload(u) PROVE Base'
  <2> DEFINE pc == "save"
             reply == upload[u].reply
  <2>1. pc \in UploadPhases /\ reply \in {"none", "ok", "taken", "failed"} /\ upload[u].copying \in {"no", "get", "set"}
    BY <1>2, FirstAnswer DEF UploadPhases
  <2>2. Moved(u, pc, upload[u].copying, reply) /\ UNCHANGED userVars
    BY <1>2 DEF ClassUpload, Step
  <2>3. Fits(u, pc, upload[u].copying, reply)
    BY <1>2 DEF ClassUpload, Fits, First, MayFail, Base, TypeOK, AtWork, Early, NoOrphan, Materials, Uploads, sessionVars
  <2> HIDE DEF pc, reply
  <2>4. QED BY <2>1, <2>2, <2>3, UploadBase
<1>3. ASSUME CreateMaterial(u) PROVE Base'
  <2> DEFINE pc == "rasterize"
             reply == upload[u].reply
  <2>1. pc \in UploadPhases /\ reply \in {"none", "ok", "taken", "failed"} /\ upload[u].copying \in {"no", "get", "set"}
    BY <1>3, FirstAnswer DEF UploadPhases
  <2>2. Moved(u, pc, upload[u].copying, reply) /\ UNCHANGED userVars
    BY <1>3 DEF CreateMaterial, Step
  <2>3. Fits(u, pc, upload[u].copying, reply)
    BY <1>3 DEF CreateMaterial, Fits, First, MayFail, Base, TypeOK, AtWork, Early, NoOrphan, Materials, Uploads, sessionVars
  <2> HIDE DEF pc, reply
  <2>4. QED BY <2>1, <2>2, <2>3, UploadBase
<1>4. ASSUME CreateMaterialFails(u) PROVE Base'
  <2> DEFINE pc == "done"
             reply == First(u, "failed")
  <2>1. pc \in UploadPhases /\ reply \in {"none", "ok", "taken", "failed"} /\ upload[u].copying \in {"no", "get", "set"}
    BY <1>4, FirstAnswer DEF UploadPhases
  <2>2. Moved(u, pc, upload[u].copying, reply) /\ UNCHANGED userVars
    BY <1>4 DEF CreateMaterialFails, Reply
  <2>3. Fits(u, pc, upload[u].copying, reply)
    BY <1>4 DEF CreateMaterialFails, Fits, First, MayFail, Base, TypeOK, AtWork, Early, NoOrphan, Materials, Uploads, sessionVars
  <2> HIDE DEF pc, reply
  <2>4. QED BY <2>1, <2>2, <2>3, UploadBase
<1>5. ASSUME Rasterize(u) PROVE Base'
  <2> DEFINE pc == IF u \in SessionUploads THEN "link" ELSE "pages"
             reply == upload[u].reply
  <2>1. pc \in UploadPhases /\ reply \in {"none", "ok", "taken", "failed"} /\ upload[u].copying \in {"no", "get", "set"}
    BY <1>5, FirstAnswer DEF UploadPhases
  <2>2. Moved(u, pc, upload[u].copying, reply) /\ UNCHANGED userVars
    BY <1>5 DEF Rasterize, Step
  <2>3. Fits(u, pc, upload[u].copying, reply)
    BY <1>5 DEF Rasterize, Fits, First, MayFail, Base, TypeOK, AtWork, Early, NoOrphan, Materials, Uploads, sessionVars
  <2> HIDE DEF pc, reply
  <2>4. QED BY <2>1, <2>2, <2>3, UploadBase
<1>6. ASSUME WorkFails(u) PROVE Base'
  <2> DEFINE pc == "cleanup"
             reply == upload[u].reply
  <2>1. pc \in UploadPhases /\ reply \in {"none", "ok", "taken", "failed"} /\ upload[u].copying \in {"no", "get", "set"}
    BY <1>6, FirstAnswer DEF UploadPhases
  <2>2. Moved(u, pc, upload[u].copying, reply) /\ UNCHANGED userVars
    BY <1>6 DEF WorkFails, Step
  <2>3. Fits(u, pc, upload[u].copying, reply)
    BY <1>6 DEF WorkFails, Fits, First, MayFail, Base, TypeOK, AtWork, Early, NoOrphan, Materials, Uploads, sessionVars
  <2> HIDE DEF pc, reply
  <2>4. QED BY <2>1, <2>2, <2>3, UploadBase
<1>7. ASSUME Link(u), linked = None /\ status = "ACTIVE" PROVE Base'
  <2> DEFINE pc == "wait"
             reply == upload[u].reply
  <2>1. pc \in UploadPhases /\ reply \in {"none", "ok", "taken", "failed"} /\ upload[u].copying \in {"no", "get", "set"}
    BY <1>7, FirstAnswer DEF UploadPhases
  <2>2. Moved(u, pc, "get", reply) /\ UNCHANGED userVars
    BY <1>7 DEF Link
  <2>3. Fits(u, pc, "get", reply)
    BY <1>7 DEF Link, Fits, First, MayFail, Base, TypeOK, AtWork, Early, NoOrphan, Materials, Uploads, sessionVars
  <2> HIDE DEF pc, reply
  <2>4. QED BY <2>1, <2>2, <2>3, UploadBase
<1>8. ASSUME Link(u), ~(linked = None /\ status = "ACTIVE") PROVE Base'
  <2> DEFINE pc == "cleanup"
             reply == "taken"
  <2>1. pc \in UploadPhases /\ reply \in {"none", "ok", "taken", "failed"} /\ upload[u].copying \in {"no", "get", "set"}
    BY <1>8, FirstAnswer DEF UploadPhases
  <2>2. Moved(u, pc, "no", reply) /\ UNCHANGED userVars
    BY <1>8 DEF Link
  <2>3. Fits(u, pc, "no", reply)
    BY <1>8 DEF Link, Fits, First, MayFail, Base, TypeOK, AtWork, Early, NoOrphan, Materials, Uploads, sessionVars
  <2> HIDE DEF pc, reply
  <2>4. QED BY <2>1, <2>2, <2>3, UploadBase
<1>9. ASSUME StorePages(u), Reply(u, "ok") PROVE Base'
  <2> DEFINE pc == "done"
             reply == First(u, "ok")
  <2>1. pc \in UploadPhases /\ reply \in {"none", "ok", "taken", "failed"} /\ upload[u].copying \in {"no", "get", "set"}
    BY <1>9, FirstAnswer DEF UploadPhases
  <2>2. Moved(u, pc, upload[u].copying, reply) /\ UNCHANGED userVars
    BY <1>9 DEF StorePages, Reply
  <2>3. Fits(u, pc, upload[u].copying, reply)
    BY <1>9 DEF StorePages, Fits, First, MayFail, Base, TypeOK, AtWork, Early, NoOrphan, Materials, Uploads, sessionVars
  <2> HIDE DEF pc, reply
  <2>4. QED BY <2>1, <2>2, <2>3, UploadBase
<1>10. ASSUME StorePages(u), Moved(u, "update", "get", upload[u].reply) /\ status # "NONE" PROVE Base'
  <2> DEFINE pc == "update"
             reply == upload[u].reply
  <2>1. pc \in UploadPhases /\ reply \in {"none", "ok", "taken", "failed"} /\ upload[u].copying \in {"no", "get", "set"}
    BY <1>10, FirstAnswer DEF UploadPhases
  <2>2. Moved(u, pc, "get", reply) /\ UNCHANGED userVars
    BY <1>10 DEF StorePages, Reply
  <2>3. Fits(u, pc, "get", reply)
    BY <1>10 DEF StorePages, Fits, First, MayFail, Base, TypeOK, AtWork, Early, NoOrphan, Materials, Uploads, sessionVars
  <2> HIDE DEF pc, reply
  <2>4. QED BY <2>1, <2>2, <2>3, UploadBase
<1>11. ASSUME Replace(u), upload[u].copying = "no" PROVE Base'
  <2> DEFINE pc == "done"
             reply == First(u, "ok")
  <2>1. pc \in UploadPhases /\ reply \in {"none", "ok", "taken", "failed"} /\ upload[u].copying \in {"no", "get", "set"}
    BY <1>11, FirstAnswer DEF UploadPhases
  <2>2. Moved(u, pc, upload[u].copying, reply) /\ UNCHANGED userVars
    BY <1>11 DEF Replace, Step, Reply
  <2>3. Fits(u, pc, upload[u].copying, reply)
    BY <1>11 DEF Replace, Fits, First, MayFail, Base, TypeOK, AtWork, Early, NoOrphan, Materials, Uploads, sessionVars
  <2> HIDE DEF pc, reply
  <2>4. QED BY <2>1, <2>2, <2>3, UploadBase
<1>12. ASSUME Replace(u), upload[u].copying # "no" PROVE Base'
  <2> DEFINE pc == "wait"
             reply == upload[u].reply
  <2>1. pc \in UploadPhases /\ reply \in {"none", "ok", "taken", "failed"} /\ upload[u].copying \in {"no", "get", "set"}
    BY <1>12, FirstAnswer DEF UploadPhases
  <2>2. Moved(u, pc, upload[u].copying, reply) /\ UNCHANGED userVars
    BY <1>12 DEF Replace, Step, Reply
  <2>3. Fits(u, pc, upload[u].copying, reply)
    BY <1>12 DEF Replace, Fits, First, MayFail, Base, TypeOK, AtWork, Early, NoOrphan, Materials, Uploads, sessionVars
  <2> HIDE DEF pc, reply
  <2>4. QED BY <2>1, <2>2, <2>3, UploadBase
<1>13. ASSUME ReplaceFails(u) PROVE Base'
  <2> DEFINE pc == IF upload[u].copying = "no" THEN "done" ELSE "wait"
             reply == "failed"
  <2>1. pc \in UploadPhases /\ reply \in {"none", "ok", "taken", "failed"} /\ upload[u].copying \in {"no", "get", "set"}
    BY <1>13, FirstAnswer DEF UploadPhases
  <2>2. Moved(u, pc, upload[u].copying, reply) /\ UNCHANGED userVars
    BY <1>13 DEF ReplaceFails
  <2>3. Fits(u, pc, upload[u].copying, reply)
    <3>1. status # "NONE" /\ upload[u].pc \in {"update", "wait"}
      BY <1>13 DEF ReplaceFails, Base, AtWork, Early
    <3>2. linked' \in Materials /\ copy' \in Copies
      BY <1>13 DEF ReplaceFails, Base, TypeOK, Naming, Copies, Materials
    <3>3. shifted' \in BOOLEAN
      BY <1>13 DEF ReplaceFails, Base, TypeOK
    <3>4. UNCHANGED <<creating, status, rows, paged, abandoned>> /\ faults' \in Nat
      BY <1>13 DEF ReplaceFails, MayFail, Base, TypeOK
    <3>5. QED BY <1>13, <3>1, <3>2, <3>3, <3>4 DEF ReplaceFails, Fits, First, Base, TypeOK, AtWork, NoOrphan, Uploads
  <2> HIDE DEF pc, reply
  <2>4. QED BY <2>1, <2>2, <2>3, UploadBase
<1>14. ASSUME CleanUp(u) PROVE Base'
  <2> DEFINE pc == "done"
             reply == First(u, "failed")
  <2>1. pc \in UploadPhases /\ reply \in {"none", "ok", "taken", "failed"} /\ upload[u].copying \in {"no", "get", "set"}
    BY <1>14, FirstAnswer DEF UploadPhases
  <2>2. Moved(u, pc, upload[u].copying, reply) /\ UNCHANGED userVars
    BY <1>14 DEF CleanUp, Reply
  <2>3. Fits(u, pc, upload[u].copying, reply)
    BY <1>14 DEF CleanUp, Fits, First, MayFail, Base, TypeOK, AtWork, Early, NoOrphan, Materials, Uploads, sessionVars
  <2> HIDE DEF pc, reply
  <2>4. QED BY <2>1, <2>2, <2>3, UploadBase
<1>15. ASSUME CleanUpFails(u) PROVE Base'
  <2> DEFINE pc == "done"
             reply == First(u, "failed")
  <2>1. pc \in UploadPhases /\ reply \in {"none", "ok", "taken", "failed"} /\ upload[u].copying \in {"no", "get", "set"}
    BY <1>15, FirstAnswer DEF UploadPhases
  <2>2. Moved(u, pc, upload[u].copying, reply) /\ UNCHANGED userVars
    BY <1>15 DEF CleanUpFails, Reply
  <2>3. Fits(u, pc, upload[u].copying, reply)
    BY <1>15 DEF CleanUpFails, Fits, First, MayFail, Base, TypeOK, AtWork, Early, NoOrphan, Materials, Uploads, sessionVars
  <2> HIDE DEF pc, reply
  <2>4. QED BY <2>1, <2>2, <2>3, UploadBase
<1>16. ASSUME CopyGet(u), copy.there PROVE Base'
  <2> DEFINE pc == upload[u].pc
             reply == upload[u].reply
  <2>1. pc \in UploadPhases /\ reply \in {"none", "ok", "taken", "failed"} /\ upload[u].copying \in {"no", "get", "set"}
    BY <1>16, FirstAnswer DEF UploadPhases
  <2>2. Moved(u, pc, "set", reply) /\ UNCHANGED userVars
    BY <1>16 DEF CopyGet, CopyEnds
  <2>3. Fits(u, pc, "set", reply)
    BY <1>16 DEF CopyGet, Fits, First, MayFail, Base, TypeOK, AtWork, Early, NoOrphan, Materials, Uploads, sessionVars
  <2> HIDE DEF pc, reply
  <2>4. QED BY <2>1, <2>2, <2>3, UploadBase
<1>17. ASSUME CopyGet(u), ~copy.there PROVE Base'
  <2> DEFINE pc == IF upload[u].pc = "wait" THEN "done" ELSE upload[u].pc
             reply == IF upload[u].pc = "wait" THEN First(u, "ok") ELSE upload[u].reply
  <2>1. pc \in UploadPhases /\ reply \in {"none", "ok", "taken", "failed"} /\ upload[u].copying \in {"no", "get", "set"}
    BY <1>17, FirstAnswer DEF UploadPhases
  <2>2. Moved(u, pc, "no", reply) /\ UNCHANGED userVars
    BY <1>17 DEF CopyGet, CopyEnds
  <2>3. Fits(u, pc, "no", reply)
    BY <1>17 DEF CopyGet, Fits, First, MayFail, Base, TypeOK, AtWork, Early, NoOrphan, Materials, Uploads, sessionVars
  <2> HIDE DEF pc, reply
  <2>4. QED BY <2>1, <2>2, <2>3, UploadBase
<1>18. ASSUME CopySet(u) PROVE Base'
  <2> DEFINE pc == IF upload[u].pc = "wait" THEN "done" ELSE upload[u].pc
             reply == IF upload[u].pc = "wait" THEN First(u, "ok") ELSE upload[u].reply
  <2>1. pc \in UploadPhases /\ reply \in {"none", "ok", "taken", "failed"} /\ upload[u].copying \in {"no", "get", "set"}
    BY <1>18, FirstAnswer DEF UploadPhases
  <2>2. Moved(u, pc, "no", reply) /\ UNCHANGED userVars
    BY <1>18 DEF CopySet, CopyEnds
  <2>3. Fits(u, pc, "no", reply)
    <3>1. status # "NONE" /\ upload[u].pc \in {"update", "wait"}
      BY <1>18 DEF CopySet, Base, AtWork, Early
    <3>2. linked' \in Materials /\ copy' \in Copies
      BY <1>18 DEF CopySet, Base, TypeOK, Naming, Copies, Materials
    <3>3. shifted' \in BOOLEAN
      BY <1>18 DEF CopySet, Base, TypeOK
    <3>4. UNCHANGED <<creating, status, rows, paged, abandoned>> /\ faults' \in Nat
      BY <1>18 DEF CopySet, MayFail, Base, TypeOK
    <3>5. QED BY <1>18, <3>1, <3>2, <3>3, <3>4 DEF CopySet, Fits, First, Base, TypeOK, AtWork, NoOrphan, Uploads
  <2> HIDE DEF pc, reply
  <2>4. QED BY <2>1, <2>2, <2>3, UploadBase
<1>19. ASSUME CopyFails(u) PROVE Base'
  <2> DEFINE pc == IF upload[u].pc = "wait" THEN "done" ELSE upload[u].pc
             reply == First(u, "failed")
  <2>1. pc \in UploadPhases /\ reply \in {"none", "ok", "taken", "failed"} /\ upload[u].copying \in {"no", "get", "set"}
    BY <1>19, FirstAnswer DEF UploadPhases
  <2>2. Moved(u, pc, "no", reply) /\ UNCHANGED userVars
    BY <1>19 DEF CopyFails, CopyEnds
  <2>3. Fits(u, pc, "no", reply)
    <3>1. status # "NONE" /\ upload[u].pc \in {"update", "wait"}
      BY <1>19 DEF CopyFails, Base, AtWork, Early
    <3>2. linked' \in Materials /\ copy' \in Copies
      <4>1. (copy' = copy \/ copy' = Naming(u)) /\ UNCHANGED linked
        BY <1>19 DEF CopyFails
      <4>2. Naming(u) \in Copies
        BY DEF Naming, Copies, Materials
      <4>3. QED BY <4>1, <4>2 DEF Base, TypeOK
    <3>3. shifted' \in BOOLEAN
      BY <1>19 DEF CopyFails, Base, TypeOK
    <3>4. UNCHANGED <<creating, status, rows, paged, abandoned>> /\ faults' \in Nat
      BY <1>19 DEF CopyFails, MayFail, Base, TypeOK
    <3>5. QED BY <1>19, <3>1, <3>2, <3>3, <3>4 DEF CopyFails, Fits, First, Base, TypeOK, AtWork, NoOrphan, Uploads
  <2> HIDE DEF pc, reply
  <2>4. QED BY <2>1, <2>2, <2>3, UploadBase
<1>20. QED
  BY <1>1, <1>2, <1>3, <1>4, <1>5, <1>6, <1>7, <1>8, <1>9, <1>10, <1>11, <1>12, <1>13, <1>14, <1>15, <1>16, <1>17, <1>18, <1>19 DEF UploadStep, Link, StorePages, Replace, CopyGet

\* A step of a user's join changes nothing but the user's side.
LEMMA JoinBase ==
  ASSUME Base, NEW s \in Users, JoinStep(s) \/ ExpireCache(s)
  PROVE  Base' /\ UNCHANGED <<sessionVars, rows, paged, upload, shifted, abandoned>>
<1>1. UNCHANGED <<sessionVars, rows, paged, upload, shifted, abandoned>>
  BY DEF JoinStep, JoinStart, JoinFetch, JoinCheck, JoinMismatch, JoinRecord, JoinShow, JoinSave, ExpireCache
<1>2. faults' \in Nat
  BY DEF JoinStep, JoinStart, JoinFetch, JoinCheck, JoinMismatch, JoinRecord, JoinShow, JoinSave, ExpireCache,
         MayFail, Base, TypeOK
<1>3. participants' \subseteq Users
  BY DEF JoinStep, JoinStart, JoinFetch, JoinCheck, JoinMismatch, JoinRecord, JoinShow, JoinSave, ExpireCache,
         Base, TypeOK
<1>4. shown' \in [Users -> Materials]
  BY DEF JoinStep, JoinStart, JoinFetch, JoinCheck, JoinMismatch, JoinRecord, JoinShow, JoinSave, ExpireCache,
         Base, TypeOK
<1>5. cache' \in [Users -> Copies]
  <2>1. Absent \in Copies /\ Naming(join[s].material) \in Copies
    BY DEF Absent, Naming, Copies, Base, TypeOK, Materials
  <2>2. cache' = cache \/ cache' = [cache EXCEPT ![s] = Absent] \/ cache' = [cache EXCEPT ![s] = Naming(join[s].material)]
    BY DEF JoinStep, JoinStart, JoinFetch, JoinCheck, JoinMismatch, JoinRecord, JoinShow, JoinSave, ExpireCache
  <2>3. QED BY <2>1, <2>2 DEF Base, TypeOK
<1>6. join' \in JoinStates
  <2>1. NotJoining \in [pc : {"idle", "fetch", "check", "record", "show", "save"}, hit : BOOLEAN, material : Materials]
    BY DEF NotJoining, Materials
  <2>2. CASE join' = join \/ join' = [join EXCEPT ![s] = NotJoining]
    BY <2>1, <2>2 DEF Base, TypeOK, JoinStates
  <2>3. CASE \E pc \in {"record", "show", "save"} : join' = [join EXCEPT ![s].pc = pc]
    BY <2>3 DEF Base, TypeOK, JoinStates
  <2>4. CASE JoinStart(s)
    <3>1. cache[s].material \in Materials
      BY DEF Base, TypeOK, Copies
    <3>2. None \in Materials
      BY DEF Materials
    <3>3. QED BY <2>4, <3>1, <3>2 DEF JoinStart, Base, TypeOK, JoinStates
  <2>5. CASE JoinFetch(s)
    <3>1. copy.material \in Materials
      BY DEF Base, TypeOK, Copies
    <3>2. QED BY <2>1, <2>5, <3>1 DEF JoinFetch, Base, TypeOK, JoinStates
  <2>6. QED
    BY <2>2, <2>3, <2>4, <2>5 DEF JoinStep, JoinCheck, JoinMismatch, JoinRecord, JoinShow, JoinSave, ExpireCache
<1>7. TypeOK'
  BY <1>1, <1>2, <1>3, <1>4, <1>5, <1>6 DEF Base, TypeOK, JoinStates, sessionVars
<1>8. QED BY <1>1, <1>7 DEF Base, AtWork, Early, NoOrphan, sessionVars

\* So does the creation of the session, its end, and what the environment does.
LEMMA SessionBase ==
  ASSUME Base,
         \/ \E m \in Materials : CreateCheck(m)
         \/ CreateRow \/ CreateKey \/ EndMoves \/ ExpireCopy
  PROVE  Base'
<1>1. ASSUME NEW m \in Materials, CreateCheck(m) PROVE Base'
  BY <1>1 DEF CreateCheck, Base, TypeOK, AtWork, Early, NoOrphan, userVars
<1>2. CASE CreateRow /\ creating.material \in rows \cup {None}
  <2>1. /\ creating.pc = "row" /\ status = "NONE" /\ status' = "ACTIVE" /\ linked' = creating.material
        /\ creating' = [creating EXCEPT !.pc = "key"]
        /\ UNCHANGED <<copy, rows, paged, upload, userVars, abandoned, faults>>
    BY <1>2 DEF CreateRow, Base, Early
  <2>2. creating' \in [pc : {"new", "row", "key", "done"}, material : Materials] /\ creating'.pc = "key"
    BY <2>1 DEF Base, TypeOK
  <2>3. shifted' \in BOOLEAN
    BY <1>2 DEF CreateRow
  <2>4. linked' \in Materials
    BY <2>1 DEF Base, TypeOK
  <2>5. TypeOK'
    BY <2>1, <2>2, <2>3, <2>4 DEF Base, TypeOK, userVars
  <2>6. QED BY <2>1, <2>2, <2>5 DEF Base, AtWork, Early, NoOrphan
<1>3. CASE CreateRow /\ creating.material \notin rows \cup {None}
  BY <1>3 DEF CreateRow, Base, TypeOK, AtWork, Early, NoOrphan, userVars
<1>4. CASE CreateKey
  <2>1. Naming(creating.material) \in Copies
    BY DEF Naming, Copies, Base, TypeOK
  <2>2. QED BY <1>4, <2>1 DEF CreateKey, Base, TypeOK, AtWork, Early, NoOrphan, userVars
<1>5. CASE EndMoves
  BY <1>5 DEF EndMoves, Base, TypeOK, AtWork, Early, NoOrphan, userVars
<1>6. CASE ExpireCopy
  <2>1. Absent \in Copies
    BY DEF Absent, Copies, Materials
  <2>2. QED BY <1>6, <2>1 DEF ExpireCopy, Base, TypeOK, AtWork, Early, NoOrphan, userVars
<1>7. QED BY <1>1, <1>2, <1>3, <1>4, <1>5, <1>6

\* Requests that die leave their rows among the abandoned.
LEMMA RestartBase ==
  ASSUME Base, Restart
  PROVE  /\ Base'
         /\ \A u \in Uploads : /\ upload'[u].pc = IF upload[u].pc = "new" THEN "new" ELSE "done"
                               /\ upload'[u].copying = "no" /\ upload'[u].reply = upload[u].reply
<1>1. ASSUME NEW u \in Uploads
      PROVE  upload'[u] = [pc |-> IF upload[u].pc = "new" THEN "new" ELSE "done", copying |-> "no",
                           reply |-> upload[u].reply]
  BY DEF Restart, Base, TypeOK
<1>2. upload' \in UploadStates
  <2>1. upload' = [u \in Uploads |-> upload'[u]]
    BY DEF Restart
  <2>2. ASSUME NEW u \in Uploads
        PROVE  upload'[u] \in [pc : UploadPhases, copying : {"no", "get", "set"}, reply : {"none", "ok", "taken", "failed"}]
    <3> DEFINE pc == IF upload[u].pc = "new" THEN "new" ELSE "done"
    <3>1. pc \in UploadPhases /\ upload[u].reply \in {"none", "ok", "taken", "failed"}
      BY DEF Base, TypeOK, UploadPhases
    <3>2. upload'[u] = [pc |-> pc, copying |-> "no", reply |-> upload[u].reply]
      BY <1>1
    <3> HIDE DEF pc
    <3>3. QED BY <3>1, <3>2
  <2>3. QED BY <2>1, <2>2 DEF UploadStates
<1>3. creating' \in [pc : {"new", "row", "key", "done"}, material : Materials]
      /\ (creating'.pc = IF creating.pc = "new" THEN "new" ELSE "done")
  BY DEF Restart, Base, TypeOK
<1>4. join' \in JoinStates
  BY DEF Restart, JoinStates, NotJoining, Materials
<1>5. abandoned' \subseteq Uploads /\ abandoned \subseteq abandoned'
      /\ (\A u \in Uploads : upload[u].pc \notin {"new", "done"} => u \in abandoned')
  BY DEF Restart, Base, TypeOK
<1>6. UNCHANGED <<status, linked, copy, rows, paged, cache, participants, shown, shifted>> /\ faults' \in Nat
  <2>1. MayFail("restart") /\ UNCHANGED <<status, linked, copy, rows, paged, cache, participants, shown, shifted>>
    BY DEF Restart
  <2>2. QED BY <2>1 DEF MayFail, Base, TypeOK
<1>7. TypeOK'
  BY <1>2, <1>3, <1>4, <1>5, <1>6 DEF Base, TypeOK, UploadStates, JoinStates
<1> DEFINE now(u) == IF upload[u].pc = "new" THEN "new" ELSE "done"
<1>8. ASSUME NEW u \in Uploads
      PROVE  upload'[u].pc = now(u) /\ upload'[u].copying = "no" /\ upload'[u].reply = upload[u].reply
  <2>1. upload'[u] = [pc |-> now(u), copying |-> "no", reply |-> upload[u].reply]
    BY <1>1
  <2> HIDE DEF now
  <2>2. QED BY <2>1
<1>9. AtWork'
  BY <1>8 DEF Base, AtWork
<1>10. Early'
  BY <1>8, <1>3, <1>6 DEF Base, Early
<1>11. NoOrphan'
  <2>1. ASSUME NEW m \in rows \ paged
        PROVE  m \in abandoned'
    <3>1. m \in Uploads /\ (upload[m].pc \in {"rasterize", "link", "pages", "cleanup"} \/ m \in abandoned)
      BY DEF Base, TypeOK, NoOrphan
    <3>2. QED BY <1>5, <3>1
  <2>2. QED BY <1>6, <2>1 DEF NoOrphan
<1>12. QED BY <1>8, <1>7, <1>9, <1>10, <1>11 DEF Base

\* Every step leaves everything in order.
LEMMA NextBase == Base /\ [Next]_vars => Base'
<1> SUFFICES ASSUME Base, [Next]_vars PROVE Base'
  OBVIOUS
<1>1. CASE UNCHANGED vars
  BY <1>1 DEF vars, sessionVars, userVars, Base, TypeOK, AtWork, Early, NoOrphan
<1>2. QED BY <1>1, UploadStepBase, JoinBase, SessionBase, RestartBase DEF Next

\* Every reachable state is well typed, whatever fails.
THEOREM TypeCorrect == Spec => []TypeOK
<1>1. Base => TypeOK
  BY DEF Base
<1>2. QED BY <1>1, InitBase, NextBase, PTL DEF Spec

\* No material stays behind without its pages, but for a request that died, that
\* could not clean up or that never learnt of its row.
THEOREM NoneOrphaned == Spec => []NoOrphan
<1>1. Base => NoOrphan
  BY DEF Base
<1>2. QED BY <1>1, InitBase, NextBase, PTL DEF Spec

-----------------------------------------------------------------------------
(* The session's material and its copies *)

\* A copy is right if it is the session's material, which has its pages and whose
\* upload does not take it back any more.
Right(m) == m = None \/ (m \in paged /\ linked = m /\ upload[m].pc \in {"wait", "done"})

\* All copies are right, wherever they are, and so is what a successful upload told.
Known ==
  ~shifted =>
    /\ \A u \in SessionUploads : upload[u].reply = "ok" \/ upload[u].pc = "wait" => Right(u)
    /\ creating.pc = "key" => Right(creating.material)
    /\ copy.there => Right(copy.material)
    /\ \A s \in Users : /\ cache[s].there => Right(cache[s].material)
                        /\ Right(join[s].material) /\ Right(shown[s])

\* There are no copies at the start.
LEMMA InitKnown == Init => Known
BY DEF Init, Known, Right, Absent, NotJoining, Unsent, Uploads

\* What is right stays right as long as the session's material stays.
RightNext(m) == m = None \/ (m \in paged' /\ linked' = m /\ upload'[m].pc \in {"wait", "done"})
RightStays == \A m \in Materials : Right(m) => RightNext(m)

\* A step that moves copies only and keeps what is right.
LEMMA CopiesKept ==
  ASSUME Base, Known, ~shifted' => ~shifted /\ RightStays,
         \A u \in SessionUploads : upload'[u].reply = "ok" \/ upload'[u].pc = "wait" =>
           upload[u].reply = "ok" \/ upload[u].pc = "wait" \/ (~shifted' => RightNext(u)),
         creating'.pc = "key" => creating' = creating \/ (~shifted' => RightNext(creating'.material)),
         copy'.there => copy' = copy \/ (~shifted' => RightNext(copy'.material)),
         \A s \in Users : cache'[s].there => cache'[s] = cache[s] \/ cache'[s].material = join[s].material,
         \A s \in Users : \/ join'[s].material \in {None, join[s].material}
                          \/ cache[s].there /\ join'[s].material = cache[s].material
                          \/ copy.there /\ join'[s].material = copy.material,
         \A s \in Users : shown'[s] \in {shown[s], join[s].material}
  PROVE  Known'
<1> SUFFICES ASSUME ~shifted' PROVE Known'
  BY DEF Known
<1>1. ~shifted /\ (\A m \in Materials : Right(m) => RightNext(m)) /\ RightNext(None)
  BY DEF RightStays, RightNext
<1>2. /\ \A u \in SessionUploads : upload[u].reply = "ok" \/ upload[u].pc = "wait" => Right(u)
      /\ creating.pc = "key" => Right(creating.material)
      /\ copy.there => Right(copy.material)
      /\ \A s \in Users : cache[s].there => Right(cache[s].material)
      /\ \A s \in Users : Right(join[s].material) /\ Right(shown[s])
  BY <1>1 DEF Known
<1>3. /\ creating.material \in Materials /\ copy.material \in Materials /\ SessionUploads \subseteq Materials
      /\ \A s \in Users : cache[s].material \in Materials /\ join[s].material \in Materials /\ shown[s] \in Materials
  BY DEF Base, TypeOK, Copies, Materials, Uploads
<1>4. \A u \in SessionUploads : upload'[u].reply = "ok" \/ upload'[u].pc = "wait" => RightNext(u)
  BY <1>1, <1>2, <1>3
<1>5. creating'.pc = "key" => RightNext(creating'.material)
  BY <1>1, <1>2, <1>3
<1>6. copy'.there => RightNext(copy'.material)
  BY <1>1, <1>2, <1>3
<1>7. \A s \in Users : cache'[s].there => RightNext(cache'[s].material)
  BY <1>1, <1>2, <1>3
<1>8. \A s \in Users : RightNext(join'[s].material) /\ RightNext(shown'[s])
  BY <1>1, <1>2, <1>3
<1>9. QED BY <1>4, <1>5, <1>6, <1>7, <1>8 DEF Known, Right, RightNext

\* A step of one request: what is right stays right unless it was replaced, and
\* the request is told "ok" when its material is the session's.
LEMMA UploadKnown ==
  ASSUME Base, Known, NEW u \in Uploads, NEW pc \in UploadPhases, NEW copying \in {"no", "get", "set"},
         NEW reply \in {"none", "ok", "taken", "failed"}, Moved(u, pc, copying, reply),
         UNCHANGED <<creating, userVars>>, shifted => shifted',
         upload[u].pc \in {"wait", "done"} => pc \in {"wait", "done"},
         ~shifted' => \/ linked' = linked \/ linked = None
                      \/ linked = u /\ upload[u].pc \notin {"wait", "done"},
         upload[u].pc \in {"wait", "done"} => paged \subseteq paged',
         paged \subseteq paged' \cup {u},
         u \in SessionUploads /\ (reply = "ok" \/ pc = "wait") =>
           \/ upload[u].reply = "ok" \/ upload[u].pc = "wait"
           \/ pc \in {"wait", "done"} /\ (~shifted' => u \in paged' /\ linked' = u),
         copy' = copy \/ (copy' = Naming(u) /\ (~shifted' => u \in SessionUploads /\ upload[u].pc = "wait"))
  PROVE  Known'
<1>1. /\ upload'[u].pc = pc /\ upload'[u].reply = reply
      /\ \A v \in Uploads : v # u => upload'[v] = upload[v]
  BY UploadMoves
<1>2. ASSUME ~shifted' PROVE ~shifted /\ RightStays
  <2>1. ASSUME NEW m \in Materials, Right(m), m # None PROVE RightNext(m)
    <3>1. m \in Uploads /\ m \in paged /\ linked = m /\ upload[m].pc \in {"wait", "done"}
      BY <2>1 DEF Right, Materials
    <3>2. upload'[m].pc \in {"wait", "done"} /\ m \in paged'
      BY <1>1, <3>1
    <3>3. linked' = m
      BY <1>2, <2>1, <3>1
    <3>4. QED BY <3>2, <3>3 DEF RightNext
  <2>2. QED BY <1>2, <2>1 DEF RightStays, RightNext
<1>3. ASSUME NEW v \in SessionUploads, upload'[v].reply = "ok" \/ upload'[v].pc = "wait"
      PROVE  upload[v].reply = "ok" \/ upload[v].pc = "wait" \/ (~shifted' => RightNext(v))
  <2>1. CASE v # u
    BY <1>1, <1>3, <2>1 DEF Uploads
  <2>2. CASE v = u
    <3>1. \/ upload[u].reply = "ok" \/ upload[u].pc = "wait"
          \/ pc \in {"wait", "done"} /\ (~shifted' => u \in paged' /\ linked' = u)
      BY <1>1, <1>3, <2>2
    <3>2. QED BY <1>1, <2>2, <3>1 DEF RightNext
  <2>3. QED BY <2>1, <2>2
<1>4. copy'.there => copy' = copy \/ (~shifted' => RightNext(copy'.material))
  <2>1. ASSUME copy' # copy, ~shifted' PROVE RightNext(copy'.material)
    <3>1. copy' = Naming(u) /\ u \in SessionUploads /\ upload[u].pc = "wait"
      BY <2>1
    <3>2. Right(u) /\ u \in Materials /\ copy'.material = u
      BY <1>2, <2>1, <3>1 DEF Known, Materials, Naming
    <3>3. QED BY <1>2, <2>1, <3>2 DEF RightStays
  <2>2. QED BY <2>1
<1>5. UNCHANGED <<creating, cache, join, shown>>
  BY DEF userVars
<1>6. \A s \in Users : join'[s].material \in {None, join[s].material} /\ shown'[s] \in {shown[s], join[s].material}
  BY <1>5
<1>7. QED BY <1>2, <1>3, <1>4, <1>5, <1>6, CopiesKept

\* Every step of a request keeps the copies right.
LEMMA UploadStepKnown ==
  ASSUME Base, Known, NEW u \in Uploads, UploadStep(u)
  PROVE  Known'
<1> USE MaterialAssumption
<1>1. ASSUME SessionUpload(u) PROVE Known'
  <2> DEFINE pc == "save"
             reply == upload[u].reply
  <2>1. pc \in UploadPhases /\ reply \in {"none", "ok", "taken", "failed"} /\ upload[u].copying \in {"no", "get", "set"}
    BY <1>1, FirstAnswer DEF UploadPhases
  <2>2. Moved(u, pc, upload[u].copying, reply) /\ UNCHANGED <<creating, userVars>>
    BY <1>1 DEF SessionUpload, Step, sessionVars
  <2>3. /\ shifted => shifted'
        /\ upload[u].pc \in {"wait", "done"} => pc \in {"wait", "done"}
        /\ ~shifted' => linked' = linked \/ linked = None \/ (linked = u /\ upload[u].pc \notin {"wait", "done"})
        /\ upload[u].pc \in {"wait", "done"} => paged \subseteq paged'
        /\ paged \subseteq paged' \cup {u}
        /\ copy' = copy \/ (copy' = Naming(u) /\ (~shifted' => u \in SessionUploads /\ upload[u].pc = "wait"))
    BY <1>1 DEF SessionUpload, Base, AtWork, TypeOK, sessionVars, Uploads
  <2>4. u \in SessionUploads /\ (reply = "ok" \/ pc = "wait") =>
          \/ upload[u].reply = "ok" \/ upload[u].pc = "wait"
          \/ pc \in {"wait", "done"} /\ (~shifted' => u \in paged' /\ linked' = u)
    BY <1>1 DEF SessionUpload, First, Base, AtWork, TypeOK
  <2> HIDE DEF pc, reply
  <2>5. QED BY <2>1, <2>2, <2>3, <2>4, UploadKnown
<1>2. ASSUME ClassUpload(u) PROVE Known'
  <2> DEFINE pc == "save"
             reply == upload[u].reply
  <2>1. pc \in UploadPhases /\ reply \in {"none", "ok", "taken", "failed"} /\ upload[u].copying \in {"no", "get", "set"}
    BY <1>2, FirstAnswer DEF UploadPhases
  <2>2. Moved(u, pc, upload[u].copying, reply) /\ UNCHANGED <<creating, userVars>>
    BY <1>2 DEF ClassUpload, Step, sessionVars
  <2>3. /\ shifted => shifted'
        /\ upload[u].pc \in {"wait", "done"} => pc \in {"wait", "done"}
        /\ ~shifted' => linked' = linked \/ linked = None \/ (linked = u /\ upload[u].pc \notin {"wait", "done"})
        /\ upload[u].pc \in {"wait", "done"} => paged \subseteq paged'
        /\ paged \subseteq paged' \cup {u}
        /\ copy' = copy \/ (copy' = Naming(u) /\ (~shifted' => u \in SessionUploads /\ upload[u].pc = "wait"))
    BY <1>2 DEF ClassUpload, Base, AtWork, TypeOK, sessionVars, Uploads
  <2>4. u \in SessionUploads /\ (reply = "ok" \/ pc = "wait") =>
          \/ upload[u].reply = "ok" \/ upload[u].pc = "wait"
          \/ pc \in {"wait", "done"} /\ (~shifted' => u \in paged' /\ linked' = u)
    BY <1>2 DEF ClassUpload, First, Base, AtWork, TypeOK
  <2> HIDE DEF pc, reply
  <2>5. QED BY <2>1, <2>2, <2>3, <2>4, UploadKnown
<1>3. ASSUME CreateMaterial(u) PROVE Known'
  <2> DEFINE pc == "rasterize"
             reply == upload[u].reply
  <2>1. pc \in UploadPhases /\ reply \in {"none", "ok", "taken", "failed"} /\ upload[u].copying \in {"no", "get", "set"}
    BY <1>3, FirstAnswer DEF UploadPhases
  <2>2. Moved(u, pc, upload[u].copying, reply) /\ UNCHANGED <<creating, userVars>>
    BY <1>3 DEF CreateMaterial, Step, sessionVars
  <2>3. /\ shifted => shifted'
        /\ upload[u].pc \in {"wait", "done"} => pc \in {"wait", "done"}
        /\ ~shifted' => linked' = linked \/ linked = None \/ (linked = u /\ upload[u].pc \notin {"wait", "done"})
        /\ upload[u].pc \in {"wait", "done"} => paged \subseteq paged'
        /\ paged \subseteq paged' \cup {u}
        /\ copy' = copy \/ (copy' = Naming(u) /\ (~shifted' => u \in SessionUploads /\ upload[u].pc = "wait"))
    BY <1>3 DEF CreateMaterial, Base, AtWork, TypeOK, sessionVars, Uploads
  <2>4. u \in SessionUploads /\ (reply = "ok" \/ pc = "wait") =>
          \/ upload[u].reply = "ok" \/ upload[u].pc = "wait"
          \/ pc \in {"wait", "done"} /\ (~shifted' => u \in paged' /\ linked' = u)
    BY <1>3 DEF CreateMaterial, First, Base, AtWork, TypeOK
  <2> HIDE DEF pc, reply
  <2>5. QED BY <2>1, <2>2, <2>3, <2>4, UploadKnown
<1>4. ASSUME CreateMaterialFails(u) PROVE Known'
  <2> DEFINE pc == "done"
             reply == First(u, "failed")
  <2>1. pc \in UploadPhases /\ reply \in {"none", "ok", "taken", "failed"} /\ upload[u].copying \in {"no", "get", "set"}
    BY <1>4, FirstAnswer DEF UploadPhases
  <2>2. Moved(u, pc, upload[u].copying, reply) /\ UNCHANGED <<creating, userVars>>
    BY <1>4 DEF CreateMaterialFails, Reply, sessionVars
  <2>3. /\ shifted => shifted'
        /\ upload[u].pc \in {"wait", "done"} => pc \in {"wait", "done"}
        /\ ~shifted' => linked' = linked \/ linked = None \/ (linked = u /\ upload[u].pc \notin {"wait", "done"})
        /\ upload[u].pc \in {"wait", "done"} => paged \subseteq paged'
        /\ paged \subseteq paged' \cup {u}
        /\ copy' = copy \/ (copy' = Naming(u) /\ (~shifted' => u \in SessionUploads /\ upload[u].pc = "wait"))
    BY <1>4 DEF CreateMaterialFails, Base, AtWork, TypeOK, sessionVars, Uploads
  <2>4. u \in SessionUploads /\ (reply = "ok" \/ pc = "wait") =>
          \/ upload[u].reply = "ok" \/ upload[u].pc = "wait"
          \/ pc \in {"wait", "done"} /\ (~shifted' => u \in paged' /\ linked' = u)
    BY <1>4 DEF CreateMaterialFails, First, Base, AtWork, TypeOK
  <2> HIDE DEF pc, reply
  <2>5. QED BY <2>1, <2>2, <2>3, <2>4, UploadKnown
<1>5. ASSUME Rasterize(u) PROVE Known'
  <2> DEFINE pc == IF u \in SessionUploads THEN "link" ELSE "pages"
             reply == upload[u].reply
  <2>1. pc \in UploadPhases /\ reply \in {"none", "ok", "taken", "failed"} /\ upload[u].copying \in {"no", "get", "set"}
    BY <1>5, FirstAnswer DEF UploadPhases
  <2>2. Moved(u, pc, upload[u].copying, reply) /\ UNCHANGED <<creating, userVars>>
    BY <1>5 DEF Rasterize, Step, sessionVars
  <2>3. /\ shifted => shifted'
        /\ upload[u].pc \in {"wait", "done"} => pc \in {"wait", "done"}
        /\ ~shifted' => linked' = linked \/ linked = None \/ (linked = u /\ upload[u].pc \notin {"wait", "done"})
        /\ upload[u].pc \in {"wait", "done"} => paged \subseteq paged'
        /\ paged \subseteq paged' \cup {u}
        /\ copy' = copy \/ (copy' = Naming(u) /\ (~shifted' => u \in SessionUploads /\ upload[u].pc = "wait"))
    BY <1>5 DEF Rasterize, Base, AtWork, TypeOK, sessionVars, Uploads
  <2>4. u \in SessionUploads /\ (reply = "ok" \/ pc = "wait") =>
          \/ upload[u].reply = "ok" \/ upload[u].pc = "wait"
          \/ pc \in {"wait", "done"} /\ (~shifted' => u \in paged' /\ linked' = u)
    BY <1>5 DEF Rasterize, First, Base, AtWork, TypeOK
  <2> HIDE DEF pc, reply
  <2>5. QED BY <2>1, <2>2, <2>3, <2>4, UploadKnown
<1>6. ASSUME WorkFails(u) PROVE Known'
  <2> DEFINE pc == "cleanup"
             reply == upload[u].reply
  <2>1. pc \in UploadPhases /\ reply \in {"none", "ok", "taken", "failed"} /\ upload[u].copying \in {"no", "get", "set"}
    BY <1>6, FirstAnswer DEF UploadPhases
  <2>2. Moved(u, pc, upload[u].copying, reply) /\ UNCHANGED <<creating, userVars>>
    BY <1>6 DEF WorkFails, Step, sessionVars
  <2>3. /\ shifted => shifted'
        /\ upload[u].pc \in {"wait", "done"} => pc \in {"wait", "done"}
        /\ ~shifted' => linked' = linked \/ linked = None \/ (linked = u /\ upload[u].pc \notin {"wait", "done"})
        /\ upload[u].pc \in {"wait", "done"} => paged \subseteq paged'
        /\ paged \subseteq paged' \cup {u}
        /\ copy' = copy \/ (copy' = Naming(u) /\ (~shifted' => u \in SessionUploads /\ upload[u].pc = "wait"))
    BY <1>6 DEF WorkFails, Base, AtWork, TypeOK, sessionVars, Uploads
  <2>4. u \in SessionUploads /\ (reply = "ok" \/ pc = "wait") =>
          \/ upload[u].reply = "ok" \/ upload[u].pc = "wait"
          \/ pc \in {"wait", "done"} /\ (~shifted' => u \in paged' /\ linked' = u)
    BY <1>6 DEF WorkFails, First, Base, AtWork, TypeOK
  <2> HIDE DEF pc, reply
  <2>5. QED BY <2>1, <2>2, <2>3, <2>4, UploadKnown
<1>7. ASSUME Link(u), linked = None /\ status = "ACTIVE" PROVE Known'
  <2> DEFINE pc == "wait"
             reply == upload[u].reply
  <2>1. pc \in UploadPhases /\ reply \in {"none", "ok", "taken", "failed"} /\ upload[u].copying \in {"no", "get", "set"}
    BY <1>7, FirstAnswer DEF UploadPhases
  <2>2. Moved(u, pc, "get", reply) /\ UNCHANGED <<creating, userVars>>
    BY <1>7 DEF Link, sessionVars
  <2>3. /\ shifted => shifted'
        /\ upload[u].pc \in {"wait", "done"} => pc \in {"wait", "done"}
        /\ ~shifted' => linked' = linked \/ linked = None \/ (linked = u /\ upload[u].pc \notin {"wait", "done"})
        /\ upload[u].pc \in {"wait", "done"} => paged \subseteq paged'
        /\ paged \subseteq paged' \cup {u}
        /\ copy' = copy \/ (copy' = Naming(u) /\ (~shifted' => u \in SessionUploads /\ upload[u].pc = "wait"))
    BY <1>7 DEF Link, Base, AtWork, TypeOK, sessionVars, Uploads
  <2>4. u \in SessionUploads /\ (reply = "ok" \/ pc = "wait") =>
          \/ upload[u].reply = "ok" \/ upload[u].pc = "wait"
          \/ pc \in {"wait", "done"} /\ (~shifted' => u \in paged' /\ linked' = u)
    BY <1>7 DEF Link, First, Base, AtWork, TypeOK
  <2> HIDE DEF pc, reply
  <2>5. QED BY <2>1, <2>2, <2>3, <2>4, UploadKnown
<1>8. ASSUME Link(u), ~(linked = None /\ status = "ACTIVE") PROVE Known'
  <2> DEFINE pc == "cleanup"
             reply == "taken"
  <2>1. pc \in UploadPhases /\ reply \in {"none", "ok", "taken", "failed"} /\ upload[u].copying \in {"no", "get", "set"}
    BY <1>8, FirstAnswer DEF UploadPhases
  <2>2. Moved(u, pc, "no", reply) /\ UNCHANGED <<creating, userVars>>
    BY <1>8 DEF Link, sessionVars
  <2>3. /\ shifted => shifted'
        /\ upload[u].pc \in {"wait", "done"} => pc \in {"wait", "done"}
        /\ ~shifted' => linked' = linked \/ linked = None \/ (linked = u /\ upload[u].pc \notin {"wait", "done"})
        /\ upload[u].pc \in {"wait", "done"} => paged \subseteq paged'
        /\ paged \subseteq paged' \cup {u}
        /\ copy' = copy \/ (copy' = Naming(u) /\ (~shifted' => u \in SessionUploads /\ upload[u].pc = "wait"))
    BY <1>8 DEF Link, Base, AtWork, TypeOK, sessionVars, Uploads
  <2>4. u \in SessionUploads /\ (reply = "ok" \/ pc = "wait") =>
          \/ upload[u].reply = "ok" \/ upload[u].pc = "wait"
          \/ pc \in {"wait", "done"} /\ (~shifted' => u \in paged' /\ linked' = u)
    BY <1>8 DEF Link, First, Base, AtWork, TypeOK
  <2> HIDE DEF pc, reply
  <2>5. QED BY <2>1, <2>2, <2>3, <2>4, UploadKnown
<1>9. ASSUME StorePages(u), Reply(u, "ok") PROVE Known'
  <2> DEFINE pc == "done"
             reply == First(u, "ok")
  <2>1. pc \in UploadPhases /\ reply \in {"none", "ok", "taken", "failed"} /\ upload[u].copying \in {"no", "get", "set"}
    BY <1>9, FirstAnswer DEF UploadPhases
  <2>2. Moved(u, pc, upload[u].copying, reply) /\ UNCHANGED <<creating, userVars>>
    BY <1>9 DEF StorePages, Reply, sessionVars
  <2>3. /\ shifted => shifted'
        /\ upload[u].pc \in {"wait", "done"} => pc \in {"wait", "done"}
        /\ ~shifted' => linked' = linked \/ linked = None \/ (linked = u /\ upload[u].pc \notin {"wait", "done"})
        /\ upload[u].pc \in {"wait", "done"} => paged \subseteq paged'
        /\ paged \subseteq paged' \cup {u}
        /\ copy' = copy \/ (copy' = Naming(u) /\ (~shifted' => u \in SessionUploads /\ upload[u].pc = "wait"))
    BY <1>9 DEF StorePages, Base, AtWork, TypeOK, sessionVars, Uploads
  <2>4. u \in SessionUploads /\ (reply = "ok" \/ pc = "wait") =>
          \/ upload[u].reply = "ok" \/ upload[u].pc = "wait"
          \/ pc \in {"wait", "done"} /\ (~shifted' => u \in paged' /\ linked' = u)
    BY <1>9 DEF StorePages, First, Base, AtWork, TypeOK
  <2> HIDE DEF pc, reply
  <2>5. QED BY <2>1, <2>2, <2>3, <2>4, UploadKnown
<1>10. ASSUME StorePages(u), Moved(u, "update", "get", upload[u].reply) /\ status # "NONE" PROVE Known'
  <2> DEFINE pc == "update"
             reply == upload[u].reply
  <2>1. pc \in UploadPhases /\ reply \in {"none", "ok", "taken", "failed"} /\ upload[u].copying \in {"no", "get", "set"}
    BY <1>10, FirstAnswer DEF UploadPhases
  <2>2. Moved(u, pc, "get", reply) /\ UNCHANGED <<creating, userVars>>
    BY <1>10 DEF StorePages, Reply, sessionVars
  <2>3. /\ shifted => shifted'
        /\ upload[u].pc \in {"wait", "done"} => pc \in {"wait", "done"}
        /\ ~shifted' => linked' = linked \/ linked = None \/ (linked = u /\ upload[u].pc \notin {"wait", "done"})
        /\ upload[u].pc \in {"wait", "done"} => paged \subseteq paged'
        /\ paged \subseteq paged' \cup {u}
        /\ copy' = copy \/ (copy' = Naming(u) /\ (~shifted' => u \in SessionUploads /\ upload[u].pc = "wait"))
    BY <1>10 DEF StorePages, Base, AtWork, TypeOK, sessionVars, Uploads
  <2>4. u \in SessionUploads /\ (reply = "ok" \/ pc = "wait") =>
          \/ upload[u].reply = "ok" \/ upload[u].pc = "wait"
          \/ pc \in {"wait", "done"} /\ (~shifted' => u \in paged' /\ linked' = u)
    BY <1>10 DEF StorePages, First, Base, AtWork, TypeOK
  <2> HIDE DEF pc, reply
  <2>5. QED BY <2>1, <2>2, <2>3, <2>4, UploadKnown
<1>11. ASSUME Replace(u), upload[u].copying = "no" PROVE Known'
  <2> DEFINE pc == "done"
             reply == First(u, "ok")
  <2>1. pc \in UploadPhases /\ reply \in {"none", "ok", "taken", "failed"} /\ upload[u].copying \in {"no", "get", "set"}
    BY <1>11, FirstAnswer DEF UploadPhases
  <2>2. Moved(u, pc, upload[u].copying, reply) /\ UNCHANGED <<creating, userVars>>
    BY <1>11 DEF Replace, Step, Reply, sessionVars
  <2>3. /\ shifted => shifted'
        /\ upload[u].pc \in {"wait", "done"} => pc \in {"wait", "done"}
        /\ ~shifted' => linked' = linked \/ linked = None \/ (linked = u /\ upload[u].pc \notin {"wait", "done"})
        /\ upload[u].pc \in {"wait", "done"} => paged \subseteq paged'
        /\ paged \subseteq paged' \cup {u}
        /\ copy' = copy \/ (copy' = Naming(u) /\ (~shifted' => u \in SessionUploads /\ upload[u].pc = "wait"))
    BY <1>11 DEF Replace, Base, AtWork, TypeOK, sessionVars, Uploads
  <2>4. u \in SessionUploads /\ (reply = "ok" \/ pc = "wait") =>
          \/ upload[u].reply = "ok" \/ upload[u].pc = "wait"
          \/ pc \in {"wait", "done"} /\ (~shifted' => u \in paged' /\ linked' = u)
    BY <1>11 DEF Replace, First, Base, AtWork, TypeOK
  <2> HIDE DEF pc, reply
  <2>5. QED BY <2>1, <2>2, <2>3, <2>4, UploadKnown
<1>12. ASSUME Replace(u), upload[u].copying # "no" PROVE Known'
  <2> DEFINE pc == "wait"
             reply == upload[u].reply
  <2>1. pc \in UploadPhases /\ reply \in {"none", "ok", "taken", "failed"} /\ upload[u].copying \in {"no", "get", "set"}
    BY <1>12, FirstAnswer DEF UploadPhases
  <2>2. Moved(u, pc, upload[u].copying, reply) /\ UNCHANGED <<creating, userVars>>
    BY <1>12 DEF Replace, Step, Reply, sessionVars
  <2>3. /\ shifted => shifted'
        /\ upload[u].pc \in {"wait", "done"} => pc \in {"wait", "done"}
        /\ ~shifted' => linked' = linked \/ linked = None \/ (linked = u /\ upload[u].pc \notin {"wait", "done"})
        /\ upload[u].pc \in {"wait", "done"} => paged \subseteq paged'
        /\ paged \subseteq paged' \cup {u}
        /\ copy' = copy \/ (copy' = Naming(u) /\ (~shifted' => u \in SessionUploads /\ upload[u].pc = "wait"))
    BY <1>12 DEF Replace, Base, AtWork, TypeOK, sessionVars, Uploads
  <2>4. u \in SessionUploads /\ (reply = "ok" \/ pc = "wait") =>
          \/ upload[u].reply = "ok" \/ upload[u].pc = "wait"
          \/ pc \in {"wait", "done"} /\ (~shifted' => u \in paged' /\ linked' = u)
    BY <1>12 DEF Replace, First, Base, AtWork, TypeOK
  <2> HIDE DEF pc, reply
  <2>5. QED BY <2>1, <2>2, <2>3, <2>4, UploadKnown
<1>13. ASSUME ReplaceFails(u) PROVE Known'
  <2> DEFINE pc == IF upload[u].copying = "no" THEN "done" ELSE "wait"
             reply == "failed"
  <2>1. pc \in UploadPhases /\ reply \in {"none", "ok", "taken", "failed"} /\ upload[u].copying \in {"no", "get", "set"}
    BY <1>13, FirstAnswer DEF UploadPhases
  <2>2. Moved(u, pc, upload[u].copying, reply) /\ UNCHANGED <<creating, userVars>>
    BY <1>13 DEF ReplaceFails, sessionVars
  <2>3. /\ shifted => shifted'
        /\ upload[u].pc \in {"wait", "done"} => pc \in {"wait", "done"}
        /\ ~shifted' => linked' = linked \/ linked = None \/ (linked = u /\ upload[u].pc \notin {"wait", "done"})
        /\ upload[u].pc \in {"wait", "done"} => paged \subseteq paged'
        /\ paged \subseteq paged' \cup {u}
        /\ copy' = copy \/ (copy' = Naming(u) /\ (~shifted' => u \in SessionUploads /\ upload[u].pc = "wait"))
    BY <1>13 DEF ReplaceFails, Base, AtWork, TypeOK, sessionVars, Uploads
  <2>4. u \in SessionUploads /\ (reply = "ok" \/ pc = "wait") =>
          \/ upload[u].reply = "ok" \/ upload[u].pc = "wait"
          \/ pc \in {"wait", "done"} /\ (~shifted' => u \in paged' /\ linked' = u)
    BY <1>13 DEF ReplaceFails, First, Base, AtWork, TypeOK
  <2> HIDE DEF pc, reply
  <2>5. QED BY <2>1, <2>2, <2>3, <2>4, UploadKnown
<1>14. ASSUME CleanUp(u) PROVE Known'
  <2> DEFINE pc == "done"
             reply == First(u, "failed")
  <2>1. pc \in UploadPhases /\ reply \in {"none", "ok", "taken", "failed"} /\ upload[u].copying \in {"no", "get", "set"}
    BY <1>14, FirstAnswer DEF UploadPhases
  <2>2. Moved(u, pc, upload[u].copying, reply) /\ UNCHANGED <<creating, userVars>>
    BY <1>14 DEF CleanUp, Reply, sessionVars
  <2>3. /\ shifted => shifted'
        /\ upload[u].pc \in {"wait", "done"} => pc \in {"wait", "done"}
        /\ ~shifted' => linked' = linked \/ linked = None \/ (linked = u /\ upload[u].pc \notin {"wait", "done"})
        /\ upload[u].pc \in {"wait", "done"} => paged \subseteq paged'
        /\ paged \subseteq paged' \cup {u}
        /\ copy' = copy \/ (copy' = Naming(u) /\ (~shifted' => u \in SessionUploads /\ upload[u].pc = "wait"))
    BY <1>14 DEF CleanUp, Base, AtWork, TypeOK, sessionVars, Uploads
  <2>4. u \in SessionUploads /\ (reply = "ok" \/ pc = "wait") =>
          \/ upload[u].reply = "ok" \/ upload[u].pc = "wait"
          \/ pc \in {"wait", "done"} /\ (~shifted' => u \in paged' /\ linked' = u)
    BY <1>14 DEF CleanUp, First, Base, AtWork, TypeOK
  <2> HIDE DEF pc, reply
  <2>5. QED BY <2>1, <2>2, <2>3, <2>4, UploadKnown
<1>15. ASSUME CleanUpFails(u) PROVE Known'
  <2> DEFINE pc == "done"
             reply == First(u, "failed")
  <2>1. pc \in UploadPhases /\ reply \in {"none", "ok", "taken", "failed"} /\ upload[u].copying \in {"no", "get", "set"}
    BY <1>15, FirstAnswer DEF UploadPhases
  <2>2. Moved(u, pc, upload[u].copying, reply) /\ UNCHANGED <<creating, userVars>>
    BY <1>15 DEF CleanUpFails, Reply, sessionVars
  <2>3. /\ shifted => shifted'
        /\ upload[u].pc \in {"wait", "done"} => pc \in {"wait", "done"}
        /\ ~shifted' => linked' = linked \/ linked = None \/ (linked = u /\ upload[u].pc \notin {"wait", "done"})
        /\ upload[u].pc \in {"wait", "done"} => paged \subseteq paged'
        /\ paged \subseteq paged' \cup {u}
        /\ copy' = copy \/ (copy' = Naming(u) /\ (~shifted' => u \in SessionUploads /\ upload[u].pc = "wait"))
    BY <1>15 DEF CleanUpFails, Base, AtWork, TypeOK, sessionVars, Uploads
  <2>4. u \in SessionUploads /\ (reply = "ok" \/ pc = "wait") =>
          \/ upload[u].reply = "ok" \/ upload[u].pc = "wait"
          \/ pc \in {"wait", "done"} /\ (~shifted' => u \in paged' /\ linked' = u)
    BY <1>15 DEF CleanUpFails, First, Base, AtWork, TypeOK
  <2> HIDE DEF pc, reply
  <2>5. QED BY <2>1, <2>2, <2>3, <2>4, UploadKnown
<1>16. ASSUME CopyGet(u), copy.there PROVE Known'
  <2> DEFINE pc == upload[u].pc
             reply == upload[u].reply
  <2>1. pc \in UploadPhases /\ reply \in {"none", "ok", "taken", "failed"} /\ upload[u].copying \in {"no", "get", "set"}
    BY <1>16, FirstAnswer DEF UploadPhases
  <2>2. Moved(u, pc, "set", reply) /\ UNCHANGED <<creating, userVars>>
    BY <1>16 DEF CopyGet, CopyEnds, sessionVars
  <2>3. /\ shifted => shifted'
        /\ upload[u].pc \in {"wait", "done"} => pc \in {"wait", "done"}
        /\ ~shifted' => linked' = linked \/ linked = None \/ (linked = u /\ upload[u].pc \notin {"wait", "done"})
        /\ upload[u].pc \in {"wait", "done"} => paged \subseteq paged'
        /\ paged \subseteq paged' \cup {u}
        /\ copy' = copy \/ (copy' = Naming(u) /\ (~shifted' => u \in SessionUploads /\ upload[u].pc = "wait"))
    BY <1>16 DEF CopyGet, Base, AtWork, TypeOK, sessionVars, Uploads
  <2>4. u \in SessionUploads /\ (reply = "ok" \/ pc = "wait") =>
          \/ upload[u].reply = "ok" \/ upload[u].pc = "wait"
          \/ pc \in {"wait", "done"} /\ (~shifted' => u \in paged' /\ linked' = u)
    BY <1>16 DEF CopyGet, First, Base, AtWork, TypeOK
  <2> HIDE DEF pc, reply
  <2>5. QED BY <2>1, <2>2, <2>3, <2>4, UploadKnown
<1>17. ASSUME CopyGet(u), ~copy.there PROVE Known'
  <2> DEFINE pc == IF upload[u].pc = "wait" THEN "done" ELSE upload[u].pc
             reply == IF upload[u].pc = "wait" THEN First(u, "ok") ELSE upload[u].reply
  <2>1. pc \in UploadPhases /\ reply \in {"none", "ok", "taken", "failed"} /\ upload[u].copying \in {"no", "get", "set"}
    BY <1>17, FirstAnswer DEF UploadPhases
  <2>2. Moved(u, pc, "no", reply) /\ UNCHANGED <<creating, userVars>>
    BY <1>17 DEF CopyGet, CopyEnds, sessionVars
  <2>3. /\ shifted => shifted'
        /\ upload[u].pc \in {"wait", "done"} => pc \in {"wait", "done"}
        /\ ~shifted' => linked' = linked \/ linked = None \/ (linked = u /\ upload[u].pc \notin {"wait", "done"})
        /\ upload[u].pc \in {"wait", "done"} => paged \subseteq paged'
        /\ paged \subseteq paged' \cup {u}
        /\ copy' = copy \/ (copy' = Naming(u) /\ (~shifted' => u \in SessionUploads /\ upload[u].pc = "wait"))
    BY <1>17 DEF CopyGet, Base, AtWork, TypeOK, sessionVars, Uploads
  <2>4. u \in SessionUploads /\ (reply = "ok" \/ pc = "wait") =>
          \/ upload[u].reply = "ok" \/ upload[u].pc = "wait"
          \/ pc \in {"wait", "done"} /\ (~shifted' => u \in paged' /\ linked' = u)
    BY <1>17 DEF CopyGet, First, Base, AtWork, TypeOK
  <2> HIDE DEF pc, reply
  <2>5. QED BY <2>1, <2>2, <2>3, <2>4, UploadKnown
<1>18. ASSUME CopySet(u) PROVE Known'
  <2> DEFINE pc == IF upload[u].pc = "wait" THEN "done" ELSE upload[u].pc
             reply == IF upload[u].pc = "wait" THEN First(u, "ok") ELSE upload[u].reply
  <2>1. pc \in UploadPhases /\ reply \in {"none", "ok", "taken", "failed"} /\ upload[u].copying \in {"no", "get", "set"}
    BY <1>18, FirstAnswer DEF UploadPhases
  <2>2. Moved(u, pc, "no", reply) /\ UNCHANGED <<creating, userVars>>
    BY <1>18 DEF CopySet, CopyEnds, sessionVars
  <2>3. /\ shifted => shifted'
        /\ upload[u].pc \in {"wait", "done"} => pc \in {"wait", "done"}
        /\ ~shifted' => linked' = linked \/ linked = None \/ (linked = u /\ upload[u].pc \notin {"wait", "done"})
        /\ upload[u].pc \in {"wait", "done"} => paged \subseteq paged'
        /\ paged \subseteq paged' \cup {u}
        /\ copy' = copy \/ (copy' = Naming(u) /\ (~shifted' => u \in SessionUploads /\ upload[u].pc = "wait"))
    BY <1>18 DEF CopySet, Base, AtWork, TypeOK, sessionVars, Uploads
  <2>4. u \in SessionUploads /\ (reply = "ok" \/ pc = "wait") =>
          \/ upload[u].reply = "ok" \/ upload[u].pc = "wait"
          \/ pc \in {"wait", "done"} /\ (~shifted' => u \in paged' /\ linked' = u)
    BY <1>18 DEF CopySet, First, Base, AtWork, TypeOK
  <2> HIDE DEF pc, reply
  <2>5. QED BY <2>1, <2>2, <2>3, <2>4, UploadKnown
<1>19. ASSUME CopyFails(u) PROVE Known'
  <2> DEFINE pc == IF upload[u].pc = "wait" THEN "done" ELSE upload[u].pc
             reply == First(u, "failed")
  <2>1. pc \in UploadPhases /\ reply \in {"none", "ok", "taken", "failed"} /\ upload[u].copying \in {"no", "get", "set"}
    BY <1>19, FirstAnswer DEF UploadPhases
  <2>2. Moved(u, pc, "no", reply) /\ UNCHANGED <<creating, userVars>>
    BY <1>19 DEF CopyFails, CopyEnds, sessionVars
  <2>3. /\ shifted => shifted'
        /\ upload[u].pc \in {"wait", "done"} => pc \in {"wait", "done"}
        /\ ~shifted' => linked' = linked \/ linked = None \/ (linked = u /\ upload[u].pc \notin {"wait", "done"})
        /\ upload[u].pc \in {"wait", "done"} => paged \subseteq paged'
        /\ paged \subseteq paged' \cup {u}
        /\ copy' = copy \/ (copy' = Naming(u) /\ (~shifted' => u \in SessionUploads /\ upload[u].pc = "wait"))
    <3>1. upload[u].pc \in {"update", "wait"} /\ (u \in SessionUploads \/ u \in ClassUploads)
      BY <1>19 DEF CopyFails, Base, AtWork, Uploads
    <3>2. upload[u].pc = "update" => u \in ClassUploads
      BY DEF Base, AtWork
    <3>3. pc \in {"wait", "done", "update"} /\ (upload[u].pc = "wait" => pc = "done")
      BY <3>1
    <3>4. UNCHANGED <<linked, paged>>
      BY <1>19 DEF CopyFails
    <3>5. \/ UNCHANGED <<copy, shifted>>
          \/ copy' = Naming(u) /\ (shifted' <=> shifted \/ u \in ClassUploads)
      BY <1>19 DEF CopyFails
    <3> HIDE DEF pc
    <3>6. QED BY <3>1, <3>2, <3>3, <3>4, <3>5
  <2>4. u \in SessionUploads /\ (reply = "ok" \/ pc = "wait") =>
          \/ upload[u].reply = "ok" \/ upload[u].pc = "wait"
          \/ pc \in {"wait", "done"} /\ (~shifted' => u \in paged' /\ linked' = u)
    BY <1>19 DEF CopyFails, First, Base, AtWork, TypeOK
  <2> HIDE DEF pc, reply
  <2>5. QED BY <2>1, <2>2, <2>3, <2>4, UploadKnown
<1>20. QED
  BY <1>1, <1>2, <1>3, <1>4, <1>5, <1>6, <1>7, <1>8, <1>9, <1>10, <1>11, <1>12, <1>13, <1>14, <1>15, <1>16, <1>17, <1>18, <1>19 DEF UploadStep, Link, StorePages, Replace, CopyGet

\* Every step keeps the copies right.
LEMMA NextKnown == Base /\ Known /\ [Next]_vars => Known'
<1> SUFFICES ASSUME Base, Known, [Next]_vars PROVE Known'
  OBVIOUS
<1>1. ASSUME UNCHANGED <<sessionVars, paged, upload, shifted>>
      PROVE  (~shifted' => ~shifted) /\ RightStays
  BY <1>1 DEF RightStays, Right, RightNext, sessionVars
<1>2. CASE UNCHANGED vars
  BY <1>1, <1>2, CopiesKept DEF vars, sessionVars, userVars
<1>3. ASSUME NEW s \in Users, JoinStep(s) \/ ExpireCache(s) PROVE Known'
  <2>1. UNCHANGED <<sessionVars, paged, upload, shifted>> /\ UNCHANGED <<creating, copy>>
    BY <1>3, JoinBase DEF sessionVars
  <2>2. \A r \in Users : cache'[r].there => cache'[r] = cache[r] \/ cache'[r].material = join[r].material
    BY <1>3 DEF JoinStep, JoinStart, JoinFetch, JoinCheck, JoinMismatch, JoinRecord, JoinShow, JoinSave, ExpireCache,
         Base, TypeOK, Absent, Naming
  <2>3. \A r \in Users : \/ join'[r].material \in {None, join[r].material}
                         \/ cache[r].there /\ join'[r].material = cache[r].material
                         \/ copy.there /\ join'[r].material = copy.material
    <3>1. CASE JoinStart(s)
      BY <3>1 DEF JoinStart, Base, TypeOK
    <3>2. CASE JoinFetch(s)
      BY <3>2 DEF JoinFetch, NotJoining, Base, TypeOK
    <3>3. CASE join' = join \/ join' = [join EXCEPT ![s] = NotJoining]
      BY <3>3 DEF NotJoining, Base, TypeOK
    <3>4. CASE \E pc \in {"record", "show", "save"} : join' = [join EXCEPT ![s].pc = pc]
      BY <3>4 DEF Base, TypeOK
    <3>5. QED
      BY <1>3, <3>1, <3>2, <3>3, <3>4 DEF JoinStep, JoinCheck, JoinMismatch, JoinRecord, JoinShow, JoinSave, ExpireCache
  <2>4. \A r \in Users : shown'[r] \in {shown[r], join[r].material}
    BY <1>3 DEF JoinStep, JoinStart, JoinFetch, JoinCheck, JoinMismatch, JoinRecord, JoinShow, JoinSave, ExpireCache,
         Base, TypeOK
  <2>5. QED BY <1>1, <2>1, <2>2, <2>3, <2>4, CopiesKept
<1>4. ASSUME NEW m \in Materials, CreateCheck(m) PROVE Known'
  <2>1. UNCHANGED <<copy, linked, paged, upload, shifted, userVars>> /\ creating'.pc = "row"
    BY <1>4 DEF CreateCheck
  <2>2. RightStays
    BY <2>1 DEF RightStays, Right, RightNext
  <2>3. QED BY <2>1, <2>2, CopiesKept DEF userVars
<1>5. ASSUME CreateRow, creating.material \in rows \cup {None} PROVE Known'
  <2>1. /\ linked = None /\ ~shifted /\ linked' = creating.material /\ creating'.material = creating.material
        /\ shifted' = (creating.material # None /\ ~Finished(creating.material))
        /\ UNCHANGED <<copy, paged, upload, userVars>>
    BY <1>5 DEF CreateRow, Base, Early, TypeOK
  <2>2. RightStays
    BY <2>1 DEF RightStays, Right, RightNext
  <2>3. ~shifted' => RightNext(creating'.material)
    BY <2>1 DEF RightNext, Finished
  <2>4. QED BY <2>1, <2>2, <2>3, CopiesKept DEF userVars
<1>6. ASSUME CreateRow, creating.material \notin rows \cup {None} PROVE Known'
  <2>1. UNCHANGED <<copy, linked, paged, upload, shifted, userVars>> /\ creating'.pc = "done"
    BY <1>6 DEF CreateRow, Base, TypeOK
  <2>2. RightStays
    BY <2>1 DEF RightStays, Right, RightNext
  <2>3. QED BY <2>1, <2>2, CopiesKept DEF userVars
<1>7. ASSUME CreateKey PROVE Known'
  <2>1. /\ creating.pc = "key" /\ creating'.pc = "done" /\ copy' = Naming(creating.material)
        /\ UNCHANGED <<linked, paged, upload, shifted, userVars>>
    BY <1>7 DEF CreateKey, Base, TypeOK
  <2>2. RightStays
    BY <2>1 DEF RightStays, Right, RightNext
  <2>3. ~shifted' => RightNext(copy'.material)
    BY <2>1 DEF Known, Right, RightNext, Naming
  <2>4. QED BY <2>1, <2>2, <2>3, CopiesKept DEF userVars
<1>8. ASSUME EndMoves PROVE Known'
  <2>1. UNCHANGED <<creating, copy, linked, paged, upload, shifted, userVars>>
    BY <1>8 DEF EndMoves
  <2>2. RightStays
    BY <2>1 DEF RightStays, Right, RightNext
  <2>3. QED BY <2>1, <2>2, CopiesKept DEF userVars
<1>9. ASSUME ExpireCopy PROVE Known'
  <2>1. UNCHANGED <<creating, linked, paged, upload, shifted, userVars>> /\ ~copy'.there
    BY <1>9 DEF ExpireCopy, Absent
  <2>2. RightStays
    BY <2>1 DEF RightStays, Right, RightNext
  <2>3. QED BY <2>1, <2>2, CopiesKept DEF userVars
<1>10. ASSUME Restart PROVE Known'
  <2>1. UNCHANGED <<linked, copy, paged, cache, shown, shifted>> /\ (\A s \in Users : join'[s].material = None)
    BY <1>10 DEF Restart, NotJoining
  <2>2. \A u \in Uploads : upload'[u].pc \in {"new", "done"} /\ upload'[u].reply = upload[u].reply
                         /\ (upload[u].pc # "new" => upload'[u].pc = "done")
    BY <1>10, RestartBase
  <2>3. RightStays
    BY <2>1, <2>2 DEF RightStays, Right, RightNext, Materials
  <2>4. creating'.pc # "key"
    BY <1>10 DEF Restart, Base, TypeOK
  <2>5. QED BY <2>1, <2>2, <2>3, <2>4, CopiesKept DEF Uploads
<1>11. QED
  BY <1>2, <1>3, <1>4, <1>5, <1>6, <1>7, <1>8, <1>9, <1>10, UploadStepKnown DEF Next

\* Base and Known are an inductive invariant.
LEMMA Inductive == Spec => [](Base /\ Known)
<1>1. Init => Base /\ Known
  BY InitBase, InitKnown
<1>2. (Base /\ Known) /\ [Next]_vars => (Base /\ Known)'
  BY NextBase, NextKnown
<1>3. QED BY <1>1, <1>2, PTL DEF Spec

\* Of the uploads to one session that are told 201 there is one, and its material
\* is the session's, however many are uploaded at the same time.
THEOREM FirstStands == Spec => []FirstUploadStands
<1>1. Base /\ Known => FirstUploadStands
  BY MaterialAssumption DEF Known, Right, FirstUploadStands, Uploads
<1>2. QED BY <1>1, Inductive, PTL

\* What a user is shown on joining is there, and can be downloaded by whoever has
\* taken part, from whatever copy it was taken.
THEOREM ShownAvailable == Spec => []ShownIsAvailable
<1>1. Base /\ Known => ShownIsAvailable
  BY DEF Base, TypeOK, Known, Right, ShownIsAvailable, MayDownload
<1>2. QED BY <1>1, Inductive, PTL
=============================================================================
