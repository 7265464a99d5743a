--------------------------- MODULE SessionProofs ---------------------------
(***************************************************************************)
(* Proofs about SessionLifecycle, for any users, strokes and pages and any *)
(* number of attempts and failures.                                        *)
(***************************************************************************)
EXTENDS SessionLifecycle, TLAPS

-----------------------------------------------------------------------------
(* Type correctness *)

\* The handlers at rest have the types of handlers.
LEMMA RestType ==
  /\ NotEnding \in EndState /\ NotEnding.pc = "idle"
  /\ NotJoining \in JoinState /\ NotJoining.pc = "idle"
BY DEF NotEnding, EndState, EndPhases, NotJoining, JoinState

\* At the start of the server there is no session.
LEMMA InitType == Init => TypeOK
<1> SUFFICES ASSUME Init PROVE TypeOK
  OBVIOUS
<1>1. joining \in [Users -> JoinState] /\ ending \in [Enders -> EndState]
  BY RestType DEF Init
<1>2. /\ store \in BOOLEAN /\ archived \in BOOLEAN /\ purged \in BOOLEAN
  BY Zenon DEF Init
<1>3. file \in [saved : BOOLEAN, strokes : SUBSET Strokes]
  BY DEF Init, NoFile
<1>4. endAttempts \in Nat /\ faults \in Nat
  BY DEF Init
<1>5. creating \in {"new", "row", "done"} /\ status \in Statuses
  BY DEF Init, Statuses
<1>6. /\ board = {} /\ pageKeys \subseteq Pages /\ fading \subseteq pageKeys
      /\ erasing \subseteq Erasures /\ leaked \subseteq Users
  BY DEF Init
<1>7. QED BY <1>1, <1>2, <1>3, <1>4, <1>5, <1>6 DEF Init, TypeOK

\* Moving an end handler on to a step keeps the handlers well typed.
LEMMA EndStepType ==
  ASSUME TypeOK, NEW e \in Enders, NEW pc \in EndPhases, EndStep(e, pc) \/ EndDone(e)
  PROVE  ending' \in [Enders -> EndState]
BY RestType DEF TypeOK, EndStep, EndDone, EndState

\* The joining handlers keep the types.
LEMMA JoinType ==
  ASSUME TypeOK, NEW u \in Users, JoinStart(u) \/ JoinHandler(u) \/ Leave(u)
  PROVE  TypeOK'
<1>1. CASE JoinStart(u)
  <2>1. joining' \in [Users -> JoinState]
    <3>1. joining \in [Users -> JoinState]
      BY DEF TypeOK
    <3>2. CASE u \in cache
      <4>1. [pc |-> "record", hit |-> TRUE] \in JoinState
        BY DEF JoinState
      <4>2. joining' = [joining EXCEPT ![u] = [pc |-> "record", hit |-> TRUE]]
        BY <1>1, <3>2 DEF JoinStart
      <4>3. QED BY <3>1, <4>1, <4>2
    <3>3. CASE u \notin cache
      <4>1. joining' = [joining EXCEPT ![u].pc = "fetch"]
        BY <1>1, <3>3 DEF JoinStart, Step
      <4>2. QED BY <3>1, <4>1 DEF JoinState
    <3>4. QED BY <3>2, <3>3
  <2>2. room' \subseteq Users
    BY <1>1 DEF JoinStart, TypeOK
  <2>3. UNCHANGED <<creating, databaseVars, redisVars, file, archived, ending, drawing, erasing, historyVars,
                  faults>>
    BY <1>1 DEF JoinStart
  <2>4. QED BY <2>1, <2>2, <2>3 DEF TypeOK, databaseVars, redisVars, historyVars
<1>2. CASE JoinFetch(u)
  BY <1>2, RestType DEF JoinFetch, TypeOK, JoinState, databaseVars, redisVars, historyVars
<1>3. CASE JoinMiss(u)
  BY <1>3, RestType DEF JoinMiss, Step, TypeOK, JoinState, databaseVars, redisVars, historyVars
<1>4. CASE JoinRecord(u)
  <2>1. joining' \in [Users -> JoinState]
    BY <1>4, RestType DEF JoinRecord, TypeOK, JoinState
  <2>2. participants' \subseteq Users /\ faults' \in Nat
    BY <1>4 DEF JoinRecord, CommandFails, TypeOK
  <2>3. QED BY <1>4, <2>1, <2>2 DEF JoinRecord, TypeOK, redisVars, historyVars
<1>5. CASE JoinSave(u)
  <2>1. joining' \in [Users -> JoinState]
    BY <1>5, RestType DEF JoinSave, TypeOK
  <2>2. cache' \subseteq Users /\ tracked' \subseteq Users /\ leaked' \subseteq Users /\ faults' \in Nat
    BY <1>5 DEF JoinSave, CommandFails, TypeOK
  <2>3. QED BY <1>5, <2>1, <2>2 DEF JoinSave, TypeOK, databaseVars
<1>6. CASE Leave(u)
  BY <1>6 DEF Leave, TypeOK, databaseVars, redisVars, historyVars
<1>7. QED BY <1>1, <1>2, <1>3, <1>4, <1>5, <1>6 DEF JoinHandler

\* Every step of the end handler keeps the types.
LEMMA EndType ==
  ASSUME TypeOK, NEW e \in Enders, EndStart(e) \/ EndHandler(e)
  PROVE  TypeOK'
<1> USE DEF databaseVars, redisVars, historyVars
<1>1. CASE EndStart(e) \/ EndFetch(e) \/ EndAnnounce(e)
  <2>1. ending' \in [Enders -> EndState]
    BY <1>1, EndStepType DEF EndStart, EndFetch, EndAnnounce, EndPhases
  <2>2. archived' \in BOOLEAN
    BY <1>1 DEF EndStart, EndFetch, EndAnnounce, TypeOK
  <2>3. UNCHANGED <<creating, databaseVars, redisVars, file, room, joining, drawing, erasing, historyVars, faults>>
    BY <1>1 DEF EndStart, EndFetch, EndAnnounce
  <2>4. QED BY <2>1, <2>2, <2>3 DEF TypeOK
<1>2. CASE EndClose(e) \/ EndArchive(e) \/ EndRollback(e)
  <2>1. ending' \in [Enders -> EndState]
    BY <1>2, EndStepType DEF EndClose, EndArchive, EndRollback, Answered, EndPhases
  <2>6. faults' \in Nat
    BY <1>2 DEF EndClose, EndArchive, EndRollback, Answered, CommandFails, TypeOK
  <2>2. status' \in Statuses /\ endAttempts' \in Nat
    BY <1>2 DEF EndClose, EndArchive, EndRollback, Statuses, TypeOK
  <2>3. straddling' \subseteq Users /\ preClose' \subseteq Strokes /\ UNCHANGED <<purged, leaked>>
    BY <1>2 DEF EndClose, EndArchive, EndRollback, PastChecks, TypeOK
  <2>4. UNCHANGED <<creating, participants, redisVars, file, archived, room, joining, drawing, erasing>>
    BY <1>2 DEF EndClose, EndArchive, EndRollback
  <2>5. QED BY <2>1, <2>2, <2>3, <2>4, <2>6 DEF TypeOK
<1>3. CASE EndScan(e) \/ EndRead(e)
  <2>1. pageKeys \subseteq Pages /\ board \subseteq Strokes
    BY DEF TypeOK
  <2>2. ending' \in [Enders -> EndState]
    BY <1>3, <2>1 DEF EndScan, EndRead, TypeOK, EndState, EndPhases
  <2>3. UNCHANGED <<creating, databaseVars, redisVars, file, archived, room, joining, drawing, erasing,
                  historyVars, faults>>
    BY <1>3 DEF EndScan, EndRead
  <2>4. QED BY <2>2, <2>3 DEF TypeOK
<1>4. CASE EndUpload(e)
  <2>1. ending' \in [Enders -> EndState]
    BY <1>4, EndStepType DEF EndUpload, EndPhases
  <2>2. file' \in [saved : BOOLEAN, strokes : SUBSET Strokes]
    BY <1>4 DEF EndUpload, TypeOK, EndState
  <2>3. QED BY <1>4, <2>1, <2>2 DEF EndUpload, TypeOK
<1>5. CASE UploadFails(e) \/ EndThrows(e)
  <2>1. ending' \in [Enders -> EndState]
    BY <1>5, EndStepType DEF UploadFails, EndThrows, EndPhases
  <2>2. faults' \in Nat
    BY <1>5 DEF UploadFails, EndThrows, CommandFails, TypeOK
  <2>3. file' \in [saved : BOOLEAN, strokes : SUBSET Strokes]
    <3>1. ending[e].strokes \in SUBSET Strokes /\ file \in [saved : BOOLEAN, strokes : SUBSET Strokes]
      BY DEF TypeOK, EndState
    <3>2. [saved |-> TRUE, strokes |-> ending[e].strokes] \in [saved : BOOLEAN, strokes : SUBSET Strokes]
      BY <3>1
    <3>3. file' \in {file, [saved |-> TRUE, strokes |-> ending[e].strokes]}
      BY <1>5 DEF UploadFails, EndThrows
    <3>4. QED BY <3>1, <3>2, <3>3
  <2>4. UNCHANGED <<creating, databaseVars, redisVars, archived, room, joining, drawing, erasing, historyVars>>
    BY <1>5 DEF UploadFails, EndThrows
  <2>5. QED BY <2>1, <2>2, <2>3, <2>4 DEF TypeOK
<1>6. CASE EndFails(e)
  <2>1. ending' \in [Enders -> EndState]
    BY <1>6, EndStepType DEF EndFails, EndPhases
  <2>2. faults' \in Nat /\ status' \in Statuses
    BY <1>6 DEF EndFails, CommandFails, TypeOK, Statuses
  <2>3. QED BY <1>6, <2>1, <2>2 DEF EndFails, TypeOK
<1>7. CASE EndFade(e)
  <2>1. ending' \in [Enders -> EndState]
    BY <1>7, EndStepType DEF EndFade, EndPhases
  <2>2. fading' \subseteq pageKeys /\ faults' \in Nat
    BY <1>7 DEF EndFade, CommandFails, TypeOK
  <2>3. QED BY <1>7, <2>1, <2>2 DEF EndFade, TypeOK
<1>8. CASE EndMembers(e) \/ EndUsers(e) \/ EndPurge(e)
  <2>1. ending' \in [Enders -> EndState]
    <3>1. CASE EndMembers(e) /\ tracked # {}
      BY <3>1 DEF EndMembers, TypeOK, EndState, EndPhases
    <3>2. CASE EndPurge(e) \/ EndDone(e)
      BY <3>2, EndStepType DEF EndPurge, EndPhases
    <3>3. CASE EndUsers(e)
      <4>0. ending[e].users \subseteq Users
        BY DEF TypeOK, EndState
      <4>1. PICK found \in SUBSET Users :
                   ending' = [ending EXCEPT ![e].pc = "purge", ![e].users = found]
        BY <3>3, <4>0 DEF EndUsers
      <4>2. ending \in [Enders -> EndState]
        BY DEF TypeOK
      <4>3. QED BY <4>1, <4>2 DEF EndState, EndPhases
    <3>4. QED BY <1>8, <3>1, <3>2, <3>3 DEF EndMembers
  <2>2. purged' \in BOOLEAN
    BY <1>8 DEF EndMembers, EndUsers, EndPurge, TypeOK
  <2>3. cache' \subseteq Users /\ tracked' \subseteq Users
    BY <1>8 DEF EndMembers, EndUsers, EndPurge, TypeOK
  <2>4. leaked' \subseteq Users /\ faults' \in Nat
    BY <1>8 DEF EndMembers, EndUsers, EndPurge, CommandFails, TypeOK, EndState
  <2>5. UNCHANGED <<creating, databaseVars, store, board, pageKeys, fading, file, archived, room, joining,
                    drawing, erasing, straddling, preClose>>
    BY <1>8 DEF EndMembers, EndUsers, EndPurge
  <2>6. QED BY <2>1, <2>2, <2>3, <2>4, <2>5 DEF TypeOK
<1>9. QED BY <1>1, <1>2, <1>3, <1>4, <1>5, <1>6, <1>7, <1>8 DEF EndHandler

\* Creation, drawing, restarts and expiry keep the types.
LEMMA OtherType ==
  ASSUME TypeOK,
         \/ CreateRow \/ CreateKey \/ Restart \/ ExpireStore
         \/ \E s \in Strokes : Draw(s) \/ DrawStore(s)
         \/ \E x \in Erasures : Erase(x) \/ EraseStore(x)
         \/ \E p \in Pages : ExpirePage(p)
  PROVE  TypeOK'
<1> USE DEF databaseVars, redisVars, historyVars, memoryVars
<1>1. CASE CreateRow
  BY <1>1 DEF CreateRow, TypeOK, Statuses
<1>2. CASE CreateKey
  BY <1>2 DEF CreateKey, TypeOK
<1>3. CASE Restart
  <2>1. joining' \in [Users -> JoinState] /\ ending' \in [Enders -> EndState]
    BY <1>3, RestType DEF Restart
  <2>2. creating' \in {"new", "row", "done"} /\ faults' \in Nat /\ archived' \in BOOLEAN
    <3>1. creating' \in {"new", "row", "done"}
      BY <1>3 DEF Restart
    <3>2. faults' \in Nat
      BY <1>3 DEF Restart, TypeOK
    <3>3. archived' \in BOOLEAN
      BY <1>3, Zenon DEF Restart
    <3>4. QED BY <3>1, <3>2, <3>3
  <2>3. room' = {} /\ drawing' = {} /\ erasing' = {} /\ UNCHANGED <<databaseVars, redisVars, file, historyVars>>
    BY <1>3 DEF Restart
  <2>4. QED BY <2>1, <2>2, <2>3 DEF TypeOK
<1>4. CASE ExpireStore
  BY <1>4 DEF ExpireStore, TypeOK
<1>5. ASSUME NEW s \in Strokes, Draw(s) PROVE TypeOK'
  BY <1>5 DEF Draw, TypeOK
<1>6. ASSUME NEW s \in Strokes, DrawStore(s) PROVE TypeOK'
  <2>1. pageKeys' \subseteq Pages /\ fading' \subseteq pageKeys'
    BY <1>6, SessionAssumption DEF DrawStore, TypeOK
  <2>2. board' \subseteq Strokes /\ \A t \in board' : PageOf[t] \in pageKeys'
    BY <1>6 DEF DrawStore, TypeOK
  <2>3. QED BY <1>6, <2>1, <2>2 DEF DrawStore, TypeOK
<1>7. ASSUME NEW p \in Pages, ExpirePage(p) PROVE TypeOK'
  <2>1. pageKeys' \subseteq Pages /\ fading' \subseteq pageKeys'
    BY <1>7 DEF ExpirePage, TypeOK
  <2>2. board' \subseteq Strokes /\ \A t \in board' : PageOf[t] \in pageKeys'
    BY <1>7 DEF ExpirePage, TypeOK
  <2>3. QED BY <1>7, <2>1, <2>2 DEF ExpirePage, TypeOK
<1>8. ASSUME NEW x \in Erasures, Erase(x) PROVE TypeOK'
  BY <1>8 DEF Erase, TypeOK
<1>9. ASSUME NEW x \in Erasures, EraseStore(x) PROVE TypeOK'
  <2>1. ErasedPage(x) \in Pages
    BY SessionAssumption DEF ErasedPage
  <2>2. pageKeys' \subseteq Pages /\ fading' \subseteq pageKeys'
    BY <1>9, <2>1 DEF EraseStore, TypeOK
  <2>3. board' \subseteq Strokes /\ \A t \in board' : PageOf[t] \in pageKeys'
    BY <1>9 DEF EraseStore, TypeOK
  <2>4. QED BY <1>9, <2>2, <2>3 DEF EraseStore, TypeOK
<1>10. QED BY <1>1, <1>2, <1>3, <1>4, <1>5, <1>6, <1>7, <1>8, <1>9

\* Every step keeps the types.
LEMMA NextType == TypeOK /\ [Next]_vars => TypeOK'
<1> SUFFICES ASSUME TypeOK, [Next]_vars PROVE TypeOK'
  OBVIOUS
<1>1. CASE UNCHANGED vars
  BY <1>1 DEF vars, databaseVars, redisVars, memoryVars, historyVars, TypeOK
<1>2. QED BY <1>1, JoinType, EndType, OtherType DEF Next

\* Every variable of the session has its type.
THEOREM TypeCorrect == Spec => []TypeOK
<1>1. QED BY InitType, NextType, PTL DEF Spec

-----------------------------------------------------------------------------
(* How the handlers move *)

\* A step that is not the end handler's leaves its progress, the file and the
\* history alone, but for what is erased or expires, which leaves preClose; only the
\* creation of the row changes the status.
LEMMA OthersLeaveEnd ==
  ASSUME \/ CreateRow \/ CreateKey \/ ExpireStore
         \/ \E u \in Users : JoinStart(u) \/ JoinHandler(u) \/ Leave(u)
         \/ \E s \in Strokes : Draw(s) \/ DrawStore(s)
         \/ \E x \in Erasures : Erase(x) \/ EraseStore(x)
         \/ \E p \in Pages : ExpirePage(p)
         \/ UNCHANGED vars
  PROVE  /\ ending' = ending /\ file' = file /\ archived' = archived
         /\ straddling' = straddling /\ purged' = purged /\ preClose' \subseteq preClose
         /\ status' \in {status, "ACTIVE"}
<1> USE DEF databaseVars, redisVars, memoryVars, historyVars
<1>1. CASE CreateRow \/ CreateKey \/ ExpireStore \/ UNCHANGED vars
  BY <1>1 DEF CreateRow, CreateKey, ExpireStore, vars
<1>2. ASSUME NEW u \in Users, JoinStart(u) \/ JoinHandler(u) \/ Leave(u)
      PROVE  UNCHANGED <<ending, file, archived, straddling, purged, preClose, status>>
  BY <1>2 DEF JoinStart, JoinHandler, JoinFetch, JoinMiss, JoinRecord, JoinSave, Leave
<1>3. ASSUME NEW s \in Strokes, Draw(s) \/ DrawStore(s)
      PROVE  UNCHANGED <<ending, file, archived, straddling, purged, preClose, status>>
  BY <1>3 DEF Draw, DrawStore
<1>6. ASSUME NEW x \in Erasures, Erase(x) \/ EraseStore(x)
      PROVE  UNCHANGED <<ending, file, archived, straddling, purged, status>> /\ preClose' \subseteq preClose
  BY <1>6 DEF Erase, EraseStore
<1>4. ASSUME NEW p \in Pages, ExpirePage(p)
      PROVE  UNCHANGED <<ending, file, archived, straddling, purged, status>> /\ preClose' \subseteq preClose
  BY <1>4 DEF ExpirePage
<1>5. QED BY <1>1, <1>2, <1>3, <1>4, <1>6

\* A restart ends every handler; what outlives the process stays.
LEMMA RestartRests ==
  ASSUME Restart
  PROVE  /\ \A e \in Enders : ending'[e].pc = "idle"
         /\ \A u \in Users : joining'[u] = NotJoining
         /\ archived' = FALSE
         /\ UNCHANGED <<databaseVars, redisVars, file, historyVars>>
BY RestType DEF Restart

\* A handler's step moves that handler, and no other.
LEMMA StepMoves ==
  ASSUME TypeOK, NEW e \in Enders, NEW pc, EndStep(e, pc)
  PROVE  /\ ending'[e].pc = pc
         /\ ending'[e].keys = ending[e].keys /\ ending'[e].strokes = ending[e].strokes
         /\ ending'[e].users = ending[e].users
         /\ \A x \in Enders \ {e} : ending'[x] = ending[x]
BY DEF TypeOK, EndStep, EndState

\* A handler that is done is idle, and the others stay where they are.
LEMMA DoneMoves ==
  ASSUME TypeOK, NEW e \in Enders, EndDone(e)
  PROVE  /\ ending'[e].pc = "idle"
         /\ \A x \in Enders \ {e} : ending'[x] = ending[x]
BY RestType DEF TypeOK, EndDone

\* The two steps that collect what is archived.
LEMMA ScanMoves ==
  ASSUME TypeOK, NEW e \in Enders, EndScan(e)
  PROVE  /\ ending'[e].pc = "read" /\ ending'[e].keys = pageKeys
         /\ \A x \in Enders \ {e} : ending'[x] = ending[x]
BY DEF TypeOK, EndScan, EndState

LEMMA ReadMoves ==
  ASSUME TypeOK, NEW e \in Enders, EndRead(e)
  PROVE  /\ ending'[e].pc = "upload"
         /\ ending'[e].strokes = {s \in board : PageOf[s] \in ending[e].keys}
         /\ \A x \in Enders \ {e} : ending'[x] = ending[x]
BY DEF TypeOK, EndRead, EndState

\* The two steps that look up the caches.
LEMMA MembersMoves ==
  ASSUME TypeOK, NEW e \in Enders, EndMembers(e), tracked # {}
  PROVE  /\ ending'[e].pc = "users" /\ ending'[e].users = tracked
         /\ \A x \in Enders \ {e} : ending'[x] = ending[x]
BY DEF TypeOK, EndMembers, EndState

LEMMA UsersMoves ==
  ASSUME TypeOK, NEW e \in Enders, EndUsers(e)
  PROVE  /\ ending'[e].pc = "purge"
         /\ ending[e].users \cap cache \subseteq ending'[e].users \cup leaked' /\ leaked \subseteq leaked'
         /\ \A x \in Enders \ {e} : ending'[x] = ending[x]
<1>1. PICK found \in SUBSET (ending[e].users \cap cache) :
         /\ ending' = [ending EXCEPT ![e].pc = "purge", ![e].users = found]
         /\ leaked' = leaked \cup ((ending[e].users \cap cache) \ found)
  BY DEF EndUsers
<1>2. ending'[e].pc = "purge" /\ ending'[e].users = found /\ \A x \in Enders \ {e} : ending'[x] = ending[x]
  BY <1>1 DEF TypeOK, EndState
<1>3. QED BY <1>1, <1>2

\* A join's step moves that join, and no other: it enters by the cache, ends, or
\* moves on from one step to the next.
LEMMA JoinMoves ==
  ASSUME TypeOK, NEW u \in Users, JoinStart(u) \/ JoinHandler(u) \/ Leave(u)
  PROVE  /\ \A v \in Users \ {u} : joining'[v] = joining[v]
         /\ \/ joining'[u] = [pc |-> "record", hit |-> TRUE]
            \/ joining'[u] = NotJoining
            \/ joining'[u] = joining[u]
            \/ /\ joining'[u].hit = joining[u].hit
               /\ \/ joining'[u].pc \in {"fetch", "status"} /\ joining[u].pc \in {"idle", "fetch"}
                  \/ joining'[u].pc = "record" /\ joining[u].pc = "status" /\ status # "ARCHIVED"
                  \/ joining'[u].pc = "save" /\ joining[u].pc = "record" /\ ~joining[u].hit
<1>1. joining \in [Users -> JoinState] /\ joining[u] \in JoinState
  BY DEF TypeOK
<1>2. CASE JoinStart(u)
  <2>1. CASE u \in cache
    <3>1. joining' = [joining EXCEPT ![u] = [pc |-> "record", hit |-> TRUE]]
      BY <1>2, <2>1 DEF JoinStart
    <3>2. QED BY <1>1, <3>1
  <2>2. CASE u \notin cache
    <3>1. joining' = [joining EXCEPT ![u].pc = "fetch"] /\ joining[u].pc = "idle"
      BY <1>2, <2>2 DEF JoinStart, Step
    <3>2. QED BY <1>1, <3>1 DEF JoinState
  <2>3. QED BY <2>1, <2>2
<1>3. CASE JoinFetch(u)
  <2>1. CASE store
    <3>1. joining' = [joining EXCEPT ![u].pc = "status"] /\ joining[u].pc = "fetch"
      BY <1>3, <2>1 DEF JoinFetch
    <3>2. QED BY <1>1, <3>1 DEF JoinState
  <2>2. CASE ~store
    <3>1. joining' = [joining EXCEPT ![u] = NotJoining]
      BY <1>3, <2>2 DEF JoinFetch
    <3>2. QED BY <1>1, <3>1
  <2>3. QED BY <2>1, <2>2
<1>4. CASE JoinMiss(u)
  <2>1. CASE status # "ARCHIVED"
    <3>1. joining' = [joining EXCEPT ![u].pc = "record"] /\ joining[u].pc = "status"
      BY <1>4, <2>1 DEF JoinMiss, Step
    <3>2. QED BY <1>1, <2>1, <3>1 DEF JoinState
  <2>2. CASE status = "ARCHIVED"
    <3>1. joining' = [joining EXCEPT ![u] = NotJoining]
      BY <1>4, <2>2 DEF JoinMiss
    <3>2. QED BY <1>1, <3>1
  <2>3. QED BY <2>1, <2>2
<1>5. CASE JoinRecord(u)
  <2>1. CASE joining[u].hit
    <3>1. joining' = [joining EXCEPT ![u] = NotJoining]
      BY <1>5, <2>1 DEF JoinRecord
    <3>2. QED BY <1>1, <3>1
  <2>2. CASE ~joining[u].hit
    <3>1. joining' = [joining EXCEPT ![u].pc = "save"] /\ joining[u].pc = "record"
      BY <1>5, <2>2 DEF JoinRecord
    <3>2. QED BY <1>1, <2>2, <3>1 DEF JoinState
  <2>3. QED BY <2>1, <2>2
<1>6. CASE JoinSave(u)
  <2>1. joining' = [joining EXCEPT ![u] = NotJoining]
    BY <1>6 DEF JoinSave
  <2>2. QED BY <1>1, <2>1
<1>7. CASE Leave(u)
  BY <1>7 DEF Leave
<1>8. QED BY <1>2, <1>3, <1>4, <1>5, <1>6, <1>7 DEF JoinHandler

\* Before the row is there, no request to end the session is under way.
RowInv == creating = "new" => status = "NONE" /\ \A x \in Enders : ending[x].pc = "idle"

LEMMA InitRow == Init => RowInv
BY RestType DEF Init, RowInv

LEMMA NextRow == RowInv /\ [Next]_vars => RowInv'
<1> SUFFICES ASSUME RowInv, [Next]_vars PROVE RowInv'
  OBVIOUS
<1> USE DEF databaseVars, redisVars, memoryVars, historyVars
<1>1. CASE Restart
  BY <1>1, RestartRests DEF Restart, RowInv
<1>2. ASSUME NEW e \in Enders, EndStart(e) \/ EndHandler(e) PROVE RowInv'
  <2>1. creating' = creating
    BY <1>2 DEF EndStart, EndHandler, EndFetch, EndClose, EndScan, EndRead, EndUpload, UploadFails,
                EndRollback, EndFade, EndArchive, EndAnnounce, EndMembers, EndUsers, EndPurge, EndThrows, EndFails
  <2>2. creating # "new"
    BY <1>2 DEF RowInv, EndStart, EndHandler, EndFetch, EndClose, EndScan, EndRead, EndUpload, UploadFails,
                EndRollback, EndFade, EndArchive, EndAnnounce, EndMembers, EndUsers, EndPurge, EndThrows, EndFails
  <2>3. QED BY <2>1, <2>2 DEF RowInv
<1>3. CASE CreateRow \/ CreateKey
  BY <1>3 DEF CreateRow, CreateKey, RowInv
<1>4. ASSUME \/ ExpireStore \/ UNCHANGED vars
             \/ \E u \in Users : JoinStart(u) \/ JoinHandler(u) \/ Leave(u)
             \/ \E s \in Strokes : Draw(s) \/ DrawStore(s)
             \/ \E x \in Erasures : Erase(x) \/ EraseStore(x)
             \/ \E p \in Pages : ExpirePage(p)
      PROVE  RowInv'
  <2>1. UNCHANGED <<creating, status, ending>>
    BY <1>4 DEF ExpireStore, vars, JoinStart, JoinHandler, JoinFetch, JoinMiss, JoinRecord, JoinSave,
                Leave, Draw, DrawStore, Erase, EraseStore, ExpirePage
  <2>2. QED BY <2>1 DEF RowInv
<1>5. QED BY <1>1, <1>2, <1>3, <1>4 DEF Next

-----------------------------------------------------------------------------
(* Nothing is announced, or archived, before the file is saved *)

\* The steps of the end handler that follow the upload.
AfterUpload == {"fade", "archive", "announce", "members", "users", "purge"}

\* A handler past the upload, an archived row and a room that was told all mean a file.
SavedInv ==
  /\ \A x \in Enders : ending[x].pc \in AfterUpload => file.saved
  /\ EndedAfterSaved

LEMMA InitSaved == Init => SavedInv
BY RestType DEF Init, SavedInv, AfterUpload, EndedAfterSaved

\* The end handler keeps SavedInv: the file is saved on the way to the row's
\* status and to the announcement, and it stays.
LEMMA EndSaved ==
  ASSUME TypeOK, SavedInv, NEW e \in Enders, EndStart(e) \/ EndHandler(e)
  PROVE  SavedInv'
<1> USE DEF SavedInv, AfterUpload, EndedAfterSaved, databaseVars, redisVars, historyVars
<1>1. CASE EndStart(e) \/ EndFetch(e)
  <2>1. EndStep(e, "fetch") \/ EndStep(e, "close") \/ EndDone(e)
    BY <1>1 DEF EndStart, EndFetch
  <2>2. UNCHANGED <<status, file, archived>>
    BY <1>1 DEF EndStart, EndFetch
  <2>3. QED BY <2>1, <2>2, StepMoves, DoneMoves
<1>2. CASE EndClose(e) \/ EndRollback(e)
  <2>1. EndStep(e, "scan") \/ EndStep(e, "fail") \/ EndDone(e)
    BY <1>2 DEF EndClose, EndRollback, Answered
  <2>2. status' # "ARCHIVED" /\ UNCHANGED <<file, archived>>
    BY <1>2 DEF EndClose, EndRollback
  <2>3. QED BY <2>1, <2>2, StepMoves, DoneMoves
<1>3. CASE EndScan(e)
  BY <1>3, ScanMoves DEF EndScan
<1>4. CASE EndRead(e)
  BY <1>4, ReadMoves DEF EndRead
<1>5. CASE EndUpload(e)
  <2>1. file'.saved /\ EndStep(e, "fade") /\ UNCHANGED <<status, archived>>
    BY <1>5 DEF EndUpload
  <2>2. QED BY <2>1
<1>6. CASE UploadFails(e) \/ EndThrows(e)
  <2>1. EndStep(e, "rollback") \/ EndStep(e, "fail")
    BY <1>6 DEF UploadFails, EndThrows
  <2>2. UNCHANGED <<status, archived>> /\ (file.saved => file'.saved)
    BY <1>6 DEF UploadFails, EndThrows
  <2>3. QED BY <2>1, <2>2, StepMoves
<1>7. CASE EndFade(e) \/ EndArchive(e) \/ EndAnnounce(e)
  <2>1. EndStep(e, "archive") \/ EndStep(e, "announce") \/ EndStep(e, "members") \/ EndStep(e, "fail")
    BY <1>7 DEF EndFade, EndArchive, EndAnnounce, Answered
  <2>2. file.saved /\ UNCHANGED file
    BY <1>7 DEF EndFade, EndArchive, EndAnnounce
  <2>3. QED BY <2>1, <2>2
<1>8. CASE EndMembers(e) \/ EndUsers(e) \/ EndPurge(e)
  <2>1. file.saved /\ UNCHANGED file
    BY <1>8 DEF EndMembers, EndUsers, EndPurge
  <2>2. QED BY <2>1
<1>9. CASE EndFails(e)
  <2>1. EndDone(e) /\ UNCHANGED <<file, archived>> /\ (status' = "ARCHIVED" => status = "ARCHIVED")
    BY <1>9 DEF EndFails
  <2>2. QED BY <2>1, DoneMoves
<1>10. QED BY <1>1, <1>2, <1>3, <1>4, <1>5, <1>6, <1>7, <1>8, <1>9 DEF EndHandler

LEMMA NextSaved == TypeOK /\ SavedInv /\ [Next]_vars => SavedInv'
<1> SUFFICES ASSUME TypeOK, SavedInv, [Next]_vars PROVE SavedInv'
  OBVIOUS
<1>1. CASE Restart
  BY <1>1, RestartRests DEF SavedInv, AfterUpload, EndedAfterSaved, databaseVars
<1>2. ASSUME NEW e \in Enders, EndStart(e) \/ EndHandler(e) PROVE SavedInv'
  BY <1>2, EndSaved
<1>3. CASE ~ (\E e \in Enders : EndStart(e) \/ EndHandler(e)) /\ ~Restart
  <2>1. /\ ending' = ending /\ file' = file /\ archived' = archived
        /\ status' \in {status, "ACTIVE"}
    BY <1>3, OthersLeaveEnd DEF Next
  <2>2. QED BY <2>1 DEF SavedInv, EndedAfterSaved
<1>4. QED BY <1>1, <1>2, <1>3

\* However many requests to end the session interleave, and whatever fails, the
\* room is told and the row is archived only when the file is in S3.
THEOREM SavedBeforeEnded == Spec => []EndedAfterSaved
<1>1. Init => TypeOK /\ SavedInv
  BY InitType, InitSaved
<1>2. TypeOK /\ SavedInv /\ [Next]_vars => (TypeOK /\ SavedInv)'
  BY NextType, NextSaved
<1>3. SavedInv => EndedAfterSaved
  BY DEF SavedInv
<1>4. QED BY <1>1, <1>2, <1>3, PTL DEF Spec

-----------------------------------------------------------------------------
(* The caches, when the session is ended by one request at a time *)

\* The steps at which an end handler may find the row archived.
Closed == {"idle", "announce", "members", "users", "purge", "fail"}

\* Only a join that hit the cache, and is at its last step, is marked as a hit.
JoinInv == \A u \in Users : joining[u].pc # "record" => ~joining[u].hit

LEMMA InitJoin == Init => JoinInv
BY DEF Init, JoinInv, NotJoining

LEMMA NextJoin == TypeOK /\ JoinInv /\ [Next]_vars => JoinInv'
<1> SUFFICES ASSUME TypeOK, JoinInv, [Next]_vars PROVE JoinInv'
  OBVIOUS
<1>1. CASE Restart
  BY <1>1, RestartRests DEF JoinInv, NotJoining
<1>2. ASSUME NEW u \in Users, JoinStart(u) \/ JoinHandler(u) \/ Leave(u)
      PROVE  JoinInv'
  BY <1>2, JoinMoves DEF JoinInv, NotJoining
<1>3. CASE ~ (\E u \in Users : JoinStart(u) \/ JoinHandler(u) \/ Leave(u)) /\ ~Restart
  <2>1. joining' = joining
    BY <1>3 DEF Next, CreateRow, CreateKey, Draw, DrawStore, Erase, EraseStore, ExpirePage, ExpireStore,
                memoryVars, vars,
                EndStart, EndHandler, EndFetch, EndClose, EndScan, EndRead, EndUpload, UploadFails,
                EndRollback, EndFade, EndArchive, EndAnnounce, EndMembers, EndUsers, EndPurge, EndThrows, EndFails
  <2>2. QED BY <2>1 DEF JoinInv
<1>4. QED BY <1>1, <1>2, <1>3

\* While nothing was purged, every cache entry can be found through the set of
\* members, or its user was left out of the set by a failure; an archived row lets no
\* new join through; the handler takes the members it found, so that what its last
\* step leaves are the entries of the joins that were past their checks and of failures.
PurgeInv(e) ==
  /\ ending[e].pc \in {"announce", "members", "users", "purge"} => status = "ARCHIVED"
  /\ status = "ARCHIVED" => ending[e].pc \in Closed /\ PastChecks \subseteq straddling
  /\ ~purged => cache \subseteq tracked \cup leaked
  /\ purged => /\ status = "ARCHIVED" /\ ending[e].pc = "idle"
               /\ cache \subseteq straddling \cup leaked
  /\ ending[e].pc \in {"users", "purge"} => cache \subseteq ending[e].users \cup straddling \cup leaked

LEMMA InitPurge == \A e \in Enders : Init => PurgeInv(e)
BY RestType DEF Init, PurgeInv, Closed

\* A join: an archived row turns it away, and one that was past its checks is in
\* straddling when it stores its cache entry.
LEMMA JoinPurge ==
  ASSUME TypeOK, JoinInv, NEW e \in Enders, PurgeInv(e), NEW u \in Users,
         JoinStart(u) \/ JoinHandler(u) \/ Leave(u)
  PROVE  PurgeInv(e)'
<1>1. UNCHANGED <<ending, status, straddling, purged>>
  BY DEF JoinStart, JoinHandler, JoinFetch, JoinMiss, JoinRecord, JoinSave, Leave, databaseVars, historyVars
<1>2. status = "ARCHIVED" => PastChecks' \subseteq PastChecks
  BY JoinMoves DEF PastChecks, NotJoining
<1>3. CASE JoinSave(u)
  <2>1. u \in PastChecks
    BY <1>3 DEF JoinSave, JoinInv, PastChecks
  <2>2. /\ cache' \subseteq cache \cup {u} /\ tracked \subseteq tracked' /\ leaked \subseteq leaked'
        /\ cache' \subseteq cache \cup tracked' \cup leaked'
    BY <1>3 DEF JoinSave
  <2>3. QED BY <1>1, <1>2, <2>1, <2>2 DEF PurgeInv
<1>4. CASE ~JoinSave(u)
  <2>1. UNCHANGED <<cache, tracked, leaked>>
    BY <1>4 DEF JoinStart, JoinHandler, JoinFetch, JoinMiss, JoinRecord, Leave, redisVars, historyVars
  <2>2. QED BY <1>1, <1>2, <2>1 DEF PurgeInv
<1>5. QED BY <1>3, <1>4

\* The end handler: it closes what it announces, and deletes what it read.
LEMMA EndKeepsPurge ==
  ASSUME TypeOK, NEW e \in Enders, PurgeInv(e), EndStart(e) \/ EndHandler(e)
  PROVE  PurgeInv(e)'
<1> USE DEF databaseVars, redisVars, historyVars, Closed
<1>1. PastChecks' = PastChecks
  <2>1. joining' = joining
    BY DEF EndStart, EndHandler, EndFetch, EndClose, EndScan, EndRead, EndUpload, UploadFails,
           EndRollback, EndFade, EndArchive, EndAnnounce, EndMembers, EndUsers, EndPurge, EndThrows, EndFails
  <2>2. QED BY <2>1 DEF PastChecks
<1>2. CASE EndStart(e) \/ EndFetch(e)
  <2>1. EndStep(e, "fetch") \/ EndStep(e, "close") \/ EndDone(e)
    BY <1>2 DEF EndStart, EndFetch
  <2>2. UNCHANGED <<status, cache, tracked, straddling, purged, leaked>>
    BY <1>2 DEF EndStart, EndFetch
  <2>3. status # "ARCHIVED"
    BY <1>2 DEF EndStart, EndFetch, PurgeInv
  <2>4. QED BY <2>1, <2>2, <2>3, StepMoves, DoneMoves DEF PurgeInv
<1>3. CASE EndClose(e) \/ EndRollback(e)
  <2>1. EndStep(e, "scan") \/ EndStep(e, "fail") \/ EndDone(e)
    BY <1>3 DEF EndClose, EndRollback, Answered
  <2>2. status' # "ARCHIVED" /\ UNCHANGED <<cache, tracked, straddling, purged, leaked>>
    BY <1>3 DEF EndClose, EndRollback
  <2>3. ~purged
    BY <1>3 DEF EndClose, EndRollback, PurgeInv
  <2>4. QED BY <2>1, <2>2, <2>3, StepMoves, DoneMoves DEF PurgeInv
<1>4. CASE EndScan(e) \/ EndRead(e)
  <2>1. ending'[e].pc \in {"read", "upload"}
    BY <1>4, ScanMoves, ReadMoves
  <2>2. status # "ARCHIVED" /\ UNCHANGED <<status, cache, tracked, straddling, purged, leaked>>
    BY <1>4 DEF EndScan, EndRead, PurgeInv
  <2>3. QED BY <2>1, <2>2 DEF PurgeInv
<1>5. CASE EndUpload(e) \/ UploadFails(e) \/ EndFade(e)
  <2>1. EndStep(e, "fade") \/ EndStep(e, "rollback") \/ EndStep(e, "archive")
    BY <1>5 DEF EndUpload, UploadFails, EndFade
  <2>2. status # "ARCHIVED" /\ UNCHANGED <<status, cache, tracked, straddling, purged, leaked>>
    BY <1>5 DEF EndUpload, UploadFails, EndFade, PurgeInv
  <2>3. QED BY <2>1, <2>2, StepMoves DEF PurgeInv
<1>6. CASE EndArchive(e)
  <2>1. /\ ~purged /\ (EndStep(e, "announce") \/ EndStep(e, "fail")) /\ status' = "ARCHIVED"
        /\ straddling' = straddling \cup PastChecks /\ UNCHANGED <<cache, tracked, purged, leaked>>
    BY <1>6 DEF EndArchive, Answered, PurgeInv
  <2>2. QED BY <1>1, <2>1, StepMoves DEF PurgeInv
<1>7. CASE EndAnnounce(e)
  <2>1. EndStep(e, "members") /\ UNCHANGED <<status, cache, tracked, straddling, purged, leaked>>
    BY <1>7 DEF EndAnnounce
  <2>2. status = "ARCHIVED" /\ ~purged
    BY <1>7 DEF EndAnnounce, PurgeInv
  <2>3. QED BY <1>1, <2>1, <2>2, StepMoves DEF PurgeInv
<1>8. CASE EndMembers(e)
  <2>1. /\ status = "ARCHIVED" /\ cache \subseteq tracked \cup leaked
        /\ PastChecks \subseteq straddling /\ ~purged
    BY <1>8 DEF EndMembers, PurgeInv
  <2>2. UNCHANGED <<status, cache, tracked, straddling, leaked>>
    BY <1>8 DEF EndMembers
  <2>3. CASE tracked = {}
    <3>1. EndDone(e) /\ purged'
      BY <1>8, <2>3 DEF EndMembers
    <3>2. QED BY <1>1, <2>1, <2>2, <2>3, <3>1, DoneMoves DEF PurgeInv
  <2>4. CASE tracked # {}
    <3>1. purged' = purged
      BY <1>8, <2>4 DEF EndMembers
    <3>2. QED BY <1>1, <1>8, <2>1, <2>2, <2>4, <3>1, MembersMoves DEF PurgeInv
  <2>5. QED BY <2>3, <2>4
<1>9. CASE EndUsers(e)
  <2>1. /\ status = "ARCHIVED" /\ PastChecks \subseteq straddling /\ ~purged
        /\ cache \subseteq ending[e].users \cup straddling \cup leaked
        /\ cache \subseteq tracked \cup leaked
    BY <1>9 DEF EndUsers, PurgeInv
  <2>2. UNCHANGED <<status, cache, tracked, straddling, purged>>
    BY <1>9 DEF EndUsers
  <2>3. QED BY <1>1, <1>9, <2>1, <2>2, UsersMoves DEF PurgeInv
<1>10. CASE EndPurge(e)
  <2>1. /\ EndDone(e) /\ purged' /\ UNCHANGED <<status, straddling>>
        /\ cache' \subseteq (cache \ ending[e].users) \cup leaked' /\ leaked \subseteq leaked'
    BY <1>10 DEF EndPurge
  <2>2. /\ status = "ARCHIVED" /\ PastChecks \subseteq straddling
        /\ cache \subseteq ending[e].users \cup straddling \cup leaked
    BY <1>10 DEF EndPurge, PurgeInv
  <2>3. QED BY <1>1, <2>1, <2>2, DoneMoves DEF PurgeInv
<1>11. CASE EndThrows(e) \/ EndFails(e)
  <2>1. EndStep(e, "fail") \/ EndDone(e)
    BY <1>11 DEF EndThrows, EndFails
  <2>2. ~purged /\ UNCHANGED <<cache, tracked, straddling, purged, leaked>>
    BY <1>11 DEF EndThrows, EndFails, PurgeInv
  <2>3. status' = "ARCHIVED" => status = "ARCHIVED"
    BY <1>11 DEF EndThrows, EndFails
  <2>4. QED BY <1>1, <2>1, <2>2, <2>3, StepMoves, DoneMoves DEF PurgeInv
<1>12. QED BY <1>2, <1>3, <1>4, <1>5, <1>6, <1>7, <1>8, <1>9, <1>10, <1>11 DEF EndHandler

\* Every step, when e is the only end handler.
LEMMA NextPurge ==
  ASSUME NEW e \in Enders, Enders = {e}, TypeOK, RowInv, JoinInv, PurgeInv(e), [Next]_vars
  PROVE  PurgeInv(e)'
<1>1. CASE Restart
  <2>1. UNCHANGED <<status, cache, tracked, straddling, purged, leaked>> /\ ending'[e].pc = "idle"
    BY <1>1, RestartRests DEF databaseVars, redisVars, historyVars
  <2>2. PastChecks' = {}
    BY <1>1, RestartRests DEF PastChecks, NotJoining
  <2>3. QED BY <2>1, <2>2 DEF PurgeInv, Closed
<1>2. CASE EndStart(e) \/ EndHandler(e)
  BY <1>2, EndKeepsPurge
<1>3. ASSUME NEW u \in Users, JoinStart(u) \/ JoinHandler(u) \/ Leave(u) PROVE PurgeInv(e)'
  BY <1>3, JoinPurge
<1>4. ASSUME \/ CreateRow \/ CreateKey \/ ExpireStore \/ UNCHANGED vars
             \/ \E s \in Strokes : Draw(s) \/ DrawStore(s)
             \/ \E x \in Erasures : Erase(x) \/ EraseStore(x)
             \/ \E p \in Pages : ExpirePage(p)
      PROVE  PurgeInv(e)'
  <2>1. UNCHANGED <<ending, straddling, purged>>
    BY <1>4, OthersLeaveEnd
  <2>2. UNCHANGED <<joining, cache, tracked, leaked>>
    BY <1>4 DEF CreateRow, CreateKey, ExpireStore, vars, Draw, DrawStore, Erase, EraseStore, ExpirePage,
                memoryVars, redisVars, historyVars
  <2>3. status' = status \/ (creating = "new" /\ status' = "ACTIVE")
    BY <1>4 DEF CreateRow, CreateKey, ExpireStore, vars, Draw, DrawStore, Erase, EraseStore, ExpirePage,
                databaseVars
  <2>4. QED BY <2>1, <2>2, <2>3 DEF PurgeInv, PastChecks, RowInv
<1>5. QED BY <1>1, <1>2, <1>3, <1>4 DEF Next

\* When requests to end the session come one at a time, the end handler that ran
\* to its last step leaves no cache entry but those of the joins that were past
\* their checks when the row was archived, and those that a failed command of a
\* pipeline left: whatever else failed and was tried again.
THEOREM PurgeComplete ==
  ASSUME NEW e, Enders = {e}
  PROVE  Spec => []PurgeIsComplete
<1> DEFINE Inv == TypeOK /\ RowInv /\ JoinInv /\ PurgeInv(e)
<1>1. Init => Inv
  BY InitType, InitRow, InitJoin, InitPurge
<1>2. Inv /\ [Next]_vars => Inv'
  BY NextType, NextRow, NextJoin, NextPurge
<1>3. Inv => PurgeIsComplete
  BY DEF PurgeInv, PurgeIsComplete
<1>4. QED BY <1>1, <1>2, <1>3, PTL DEF Spec

-----------------------------------------------------------------------------
(* What the archive holds, when requests come one at a time *)

\* What was stored when an attempt began and has neither been erased nor expired is handed on from
\* the keys that were found to the strokes that were read and to the file.
ArchiveInv(e) ==
  /\ preClose \subseteq board
  /\ ending[e].pc = "read" => \A s \in preClose : PageOf[s] \in ending[e].keys
  /\ ending[e].pc = "upload" => preClose \subseteq ending[e].strokes
  /\ ending[e].pc \in AfterUpload => preClose \subseteq file.strokes
  /\ status = "ARCHIVED" => ending[e].pc \in Closed /\ preClose \subseteq file.strokes

LEMMA InitArchive == \A e \in Enders : Init => ArchiveInv(e)
BY RestType DEF Init, ArchiveInv, AfterUpload, Closed

LEMMA EndKeepsArchive ==
  ASSUME TypeOK, NEW e \in Enders, ArchiveInv(e), EndStart(e) \/ EndHandler(e)
  PROVE  ArchiveInv(e)'
<1> USE DEF databaseVars, redisVars, historyVars, Closed, AfterUpload
<1>1. CASE EndStart(e) \/ EndFetch(e)
  <2>1. EndStep(e, "fetch") \/ EndStep(e, "close") \/ EndDone(e)
    BY <1>1 DEF EndStart, EndFetch
  <2>2. status # "ARCHIVED" /\ UNCHANGED <<status, board, file, preClose>>
    BY <1>1 DEF EndStart, EndFetch, ArchiveInv
  <2>3. QED BY <2>1, <2>2, StepMoves, DoneMoves DEF ArchiveInv
<1>2. CASE EndClose(e)
  <2>1. /\ EndStep(e, "scan") \/ EndStep(e, "fail")
        /\ preClose' = preClose \cup board /\ status' = "CLOSING" /\ UNCHANGED board
    BY <1>2 DEF EndClose, Answered
  <2>2. QED BY <2>1, StepMoves DEF ArchiveInv
<1>3. CASE EndScan(e)
  <2>1. status # "ARCHIVED" /\ UNCHANGED <<status, board, file, preClose>>
    BY <1>3 DEF EndScan, ArchiveInv
  <2>2. \A s \in preClose : PageOf[s] \in pageKeys
    BY DEF ArchiveInv, TypeOK
  <2>3. QED BY <1>3, <2>1, <2>2, ScanMoves DEF ArchiveInv
<1>4. CASE EndRead(e)
  <2>1. status # "ARCHIVED" /\ UNCHANGED <<status, board, file, preClose>>
    BY <1>4 DEF EndRead, ArchiveInv
  <2>2. preClose \subseteq {s \in board : PageOf[s] \in ending[e].keys}
    BY <1>4 DEF EndRead, ArchiveInv
  <2>3. QED BY <1>4, <2>1, <2>2, ReadMoves DEF ArchiveInv
<1>5. CASE EndUpload(e)
  <2>1. /\ EndStep(e, "fade") /\ file'.strokes = ending[e].strokes
        /\ status # "ARCHIVED" /\ UNCHANGED <<status, board, preClose>>
    BY <1>5 DEF EndUpload, ArchiveInv
  <2>2. preClose \subseteq ending[e].strokes
    BY <1>5 DEF EndUpload, ArchiveInv
  <2>3. QED BY <2>1, <2>2, StepMoves DEF ArchiveInv
<1>6. CASE UploadFails(e) \/ EndRollback(e)
  <2>1. EndStep(e, "rollback") \/ EndStep(e, "fail") \/ EndDone(e)
    BY <1>6 DEF UploadFails, EndRollback
  <2>2. status' # "ARCHIVED" /\ UNCHANGED <<board, preClose>>
    BY <1>6 DEF UploadFails, EndRollback, ArchiveInv
  <2>3. QED BY <2>1, <2>2, StepMoves, DoneMoves DEF ArchiveInv
<1>7. CASE EndFade(e) \/ EndArchive(e) \/ EndAnnounce(e)
  <2>1. \/ EndStep(e, "archive") /\ status' # "ARCHIVED"
        \/ EndStep(e, "announce") \/ EndStep(e, "members") \/ EndStep(e, "fail")
    BY <1>7 DEF EndFade, EndArchive, EndAnnounce, Answered, ArchiveInv
  <2>2. preClose \subseteq file.strokes /\ UNCHANGED <<board, file, preClose>>
    BY <1>7 DEF EndFade, EndArchive, EndAnnounce, ArchiveInv
  <2>3. QED BY <2>1, <2>2, StepMoves DEF ArchiveInv
<1>8. CASE EndMembers(e) \/ EndUsers(e) \/ EndPurge(e)
  <2>1. ending'[e].pc \in {"idle", "users", "purge"}
    BY <1>8, MembersMoves, UsersMoves, DoneMoves DEF EndMembers, EndPurge
  <2>2. preClose \subseteq file.strokes /\ UNCHANGED <<status, board, file, preClose>>
    BY <1>8 DEF EndMembers, EndUsers, EndPurge, ArchiveInv
  <2>3. QED BY <2>1, <2>2 DEF ArchiveInv
<1>9. CASE EndThrows(e) \/ EndFails(e)
  <2>1. EndStep(e, "fail") \/ EndDone(e)
    BY <1>9 DEF EndThrows, EndFails
  <2>2. UNCHANGED <<board, file, preClose>> /\ (status' = "ARCHIVED" => status = "ARCHIVED")
    BY <1>9 DEF EndThrows, EndFails
  <2>3. QED BY <2>1, <2>2, StepMoves, DoneMoves DEF ArchiveInv
<1>10. QED BY <1>1, <1>2, <1>3, <1>4, <1>5, <1>6, <1>7, <1>8, <1>9 DEF EndHandler

\* Every step, when e is the only end handler.
LEMMA NextArchive ==
  ASSUME NEW e \in Enders, Enders = {e}, TypeOK, ArchiveInv(e), [Next]_vars
  PROVE  ArchiveInv(e)'
<1>1. CASE Restart
  BY <1>1, RestartRests DEF ArchiveInv, AfterUpload, Closed, databaseVars, redisVars, historyVars
<1>2. CASE EndStart(e) \/ EndHandler(e)
  BY <1>2, EndKeepsArchive
<1>3. ASSUME \/ CreateRow \/ CreateKey \/ ExpireStore \/ UNCHANGED vars
             \/ \E u \in Users : JoinStart(u) \/ JoinHandler(u) \/ Leave(u)
             \/ \E s \in Strokes : Draw(s) \/ DrawStore(s)
      PROVE  ArchiveInv(e)'
  <2>1. UNCHANGED <<ending, file>> /\ preClose' \subseteq preClose
    BY <1>3, OthersLeaveEnd
  <2>2. board \subseteq board' /\ status' \in {status, "ACTIVE"}
    BY <1>3 DEF CreateRow, CreateKey, ExpireStore, vars, JoinStart, JoinHandler, JoinFetch, JoinMiss, JoinRecord,
                JoinSave, Leave, Draw, DrawStore, redisVars, databaseVars
  <2>3. QED BY <2>1, <2>2 DEF ArchiveInv
<1>4. ASSUME NEW p \in Pages, ExpirePage(p) PROVE ArchiveInv(e)'
  <2>1. UNCHANGED <<ending, file, status>>
    BY <1>4 DEF ExpirePage, databaseVars, memoryVars
  <2>2. preClose' \subseteq preClose /\ preClose' \subseteq board'
    BY <1>4 DEF ExpirePage, ArchiveInv
  <2>3. QED BY <2>1, <2>2 DEF ArchiveInv
<1>5. ASSUME NEW x \in Erasures, Erase(x) \/ EraseStore(x) PROVE ArchiveInv(e)'
  <2>1. UNCHANGED <<ending, file, status>>
    BY <1>5 DEF Erase, EraseStore, databaseVars
  <2>2. preClose' \subseteq preClose /\ preClose' \subseteq board'
    BY <1>5 DEF Erase, EraseStore, ArchiveInv, redisVars, historyVars
  <2>3. QED BY <2>1, <2>2 DEF ArchiveInv
<1>6. QED BY <1>1, <1>2, <1>3, <1>4, <1>5 DEF Next

\* When requests to end the session come one at a time, the archived file holds
\* every stroke that was stored when some attempt began and was neither erased nor
\* lost with its page since: whatever earlier attempts wrote and at whatever step they failed.
THEOREM ArchiveComplete ==
  ASSUME NEW e, Enders = {e}
  PROVE  Spec => []ArchiveHasWhatWasStored
<1> DEFINE Inv == TypeOK /\ ArchiveInv(e)
<1>1. Init => Inv
  BY InitType, InitArchive
<1>2. Inv /\ [Next]_vars => Inv'
  BY NextType, NextArchive
<1>3. Inv => ArchiveHasWhatWasStored
  BY DEF ArchiveInv, ArchiveHasWhatWasStored
<1>4. QED BY <1>1, <1>2, <1>3, PTL DEF Spec

-----------------------------------------------------------------------------
(* The end of a session implements SessionPromise, one request at a time *)

\* The steps between the upsert of CLOSING and the next one of the status.
Closing == {"scan", "read", "upload", "rollback", "fade", "archive"}

\* Between its two writes of the status the handler finds the row as it left it; a
\* room that was told has an archived row; no row means that none was created yet.
PhaseInv(e) ==
  /\ ending[e].pc \in Closing => status = "CLOSING"
  /\ archived => status = "ARCHIVED"
  /\ status = "NONE" <=> creating = "new"

\* All that the refinement needs of a state.
PromiseInv(e) ==
  /\ TypeOK /\ RowInv /\ JoinInv /\ SavedInv
  /\ PurgeInv(e) /\ ArchiveInv(e) /\ PhaseInv(e)

LEMMA InitPromise == \A e \in Enders : Init => PromiseInv(e)
<1>1. \A e \in Enders : Init => PhaseInv(e)
  BY RestType DEF Init, PhaseInv, Closing
<1>2. QED BY <1>1, InitType, InitRow, InitJoin, InitSaved, InitPurge, InitArchive DEF PromiseInv

\* A handler past its first step is one of a session that has a row.
LEMMA BusyHasRow ==
  ASSUME NEW e \in Enders, PromiseInv(e), ending[e].pc # "idle"
  PROVE  status # "NONE" /\ creating # "new"
BY DEF PromiseInv, PhaseInv, RowInv

\* The end handler keeps PhaseInv.
LEMMA EndKeepsPhase ==
  ASSUME NEW e \in Enders, PromiseInv(e), EndStart(e) \/ EndHandler(e)
  PROVE  PhaseInv(e)'
<1> USE DEF databaseVars, redisVars, historyVars, Closing
<1>0. TypeOK /\ creating' = creating /\ status # "NONE" /\ creating # "new"
  <2>1. creating' = creating
    BY DEF EndStart, EndHandler, EndFetch, EndClose, EndScan, EndRead, EndUpload, UploadFails,
           EndRollback, EndFade, EndArchive, EndAnnounce, EndMembers, EndUsers, EndPurge, EndThrows, EndFails
  <2>2. status # "NONE"
    <3>1. CASE EndStart(e)
      BY <3>1 DEF EndStart
    <3>2. CASE EndHandler(e)
      BY <3>2, BusyHasRow DEF EndHandler, EndFetch, EndClose, EndScan, EndRead, EndUpload, UploadFails,
           EndRollback, EndFade, EndArchive, EndAnnounce, EndMembers, EndUsers, EndPurge, EndThrows, EndFails
    <3>3. QED BY <3>1, <3>2
  <2>3. QED BY <2>1, <2>2 DEF PromiseInv, PhaseInv
<1>1. CASE EndStart(e) \/ EndFetch(e)
  <2>1. EndStep(e, "fetch") \/ EndStep(e, "close") \/ EndDone(e)
    BY <1>1 DEF EndStart, EndFetch
  <2>2. UNCHANGED <<status, archived>>
    BY <1>1 DEF EndStart, EndFetch
  <2>3. QED BY <1>0, <2>1, <2>2, StepMoves, DoneMoves DEF PromiseInv, PhaseInv
<1>2. CASE EndClose(e)
  <2>1. status' = "CLOSING" /\ UNCHANGED archived
    BY <1>2 DEF EndClose
  <2>2. ~archived
    BY <1>2 DEF EndClose, PromiseInv, PhaseInv, ArchiveInv, Closed
  <2>3. QED BY <1>0, <2>1, <2>2 DEF PhaseInv
<1>3. CASE EndScan(e) \/ EndRead(e)
  <2>1. ending[e].pc \in Closing /\ UNCHANGED <<status, archived>>
    BY <1>3 DEF EndScan, EndRead
  <2>2. QED BY <1>0, <2>1 DEF PromiseInv, PhaseInv
<1>4. CASE EndUpload(e) \/ UploadFails(e) \/ EndFade(e)
  <2>1. ending[e].pc \in Closing /\ UNCHANGED <<status, archived>>
    BY <1>4 DEF EndUpload, UploadFails, EndFade
  <2>2. QED BY <1>0, <2>1 DEF PromiseInv, PhaseInv
<1>5. CASE EndRollback(e)
  <2>1. /\ status = "CLOSING" /\ status' = "ACTIVE" /\ UNCHANGED archived
        /\ EndDone(e) \/ EndStep(e, "fail")
    BY <1>5 DEF EndRollback, PromiseInv, PhaseInv
  <2>2. QED BY <1>0, <2>1, StepMoves, DoneMoves DEF PromiseInv, PhaseInv
<1>6. CASE EndArchive(e)
  <2>1. (EndStep(e, "announce") \/ EndStep(e, "fail")) /\ status' = "ARCHIVED"
    BY <1>6 DEF EndArchive, Answered
  <2>2. QED BY <1>0, <2>1, StepMoves DEF PhaseInv
<1>7. CASE EndAnnounce(e)
  <2>1. status = "ARCHIVED" /\ status' = status /\ EndStep(e, "members")
    BY <1>7 DEF EndAnnounce, PromiseInv, PurgeInv
  <2>2. QED BY <1>0, <2>1, StepMoves DEF PhaseInv
<1>8. CASE EndMembers(e) \/ EndUsers(e) \/ EndPurge(e)
  <2>1. ending'[e].pc \in {"idle", "users", "purge"}
    BY <1>0, <1>8, MembersMoves, UsersMoves, DoneMoves DEF EndMembers, EndPurge
  <2>3. UNCHANGED <<status, archived>>
    BY <1>8 DEF EndMembers, EndUsers, EndPurge
  <2>2. QED BY <1>0, <2>1, <2>3 DEF PromiseInv, PhaseInv
<1>9. CASE EndThrows(e) \/ EndFails(e)
  <2>1. EndStep(e, "fail") \/ EndDone(e)
    BY <1>9 DEF EndThrows, EndFails
  <2>2. /\ UNCHANGED archived /\ status' # "NONE"
        /\ status = "ARCHIVED" => status' = "ARCHIVED"
    BY <1>0, <1>9 DEF EndThrows, EndFails
  <2>3. QED BY <1>0, <2>1, <2>2, StepMoves, DoneMoves DEF PromiseInv, PhaseInv
<1>10. QED BY <1>1, <1>2, <1>3, <1>4, <1>5, <1>6, <1>7, <1>8, <1>9 DEF EndHandler

\* Every step keeps all of it, when e is the only end handler.
LEMMA NextPromise ==
  ASSUME NEW e \in Enders, Enders = {e}, PromiseInv(e), [Next]_vars
  PROVE  PromiseInv(e)'
<1>1. PhaseInv(e)'
  <2>1. CASE Restart
    <3>1. ~archived' /\ ending'[e].pc = "idle" /\ UNCHANGED status
      BY <2>1, RestartRests DEF databaseVars
    <3>2. creating' = "new" <=> creating = "new"
      BY <2>1 DEF Restart
    <3>3. QED BY <3>1, <3>2 DEF PromiseInv, PhaseInv, Closing
  <2>2. CASE EndStart(e) \/ EndHandler(e)
    BY <2>2, EndKeepsPhase
  <2>3. CASE CreateRow
    <3>1. ending[e].pc = "idle" /\ status = "NONE" /\ UNCHANGED <<ending, archived>>
      BY <2>3 DEF CreateRow, PromiseInv, RowInv, memoryVars
    <3>2. status' = "ACTIVE" /\ creating' = "row"
      BY <2>3 DEF CreateRow
    <3>3. QED BY <3>1, <3>2 DEF PromiseInv, PhaseInv, Closing
  <2>4. ASSUME \/ CreateKey \/ ExpireStore \/ UNCHANGED vars
               \/ \E u \in Users : JoinStart(u) \/ JoinHandler(u) \/ Leave(u)
               \/ \E s \in Strokes : Draw(s) \/ DrawStore(s)
               \/ \E x \in Erasures : Erase(x) \/ EraseStore(x)
               \/ \E p \in Pages : ExpirePage(p)
        PROVE  PhaseInv(e)'
    <3>1. UNCHANGED <<ending, archived>>
      BY <2>4, OthersLeaveEnd
    <3>2. status' = status /\ (creating' = "new" <=> creating = "new")
      BY <2>4 DEF CreateKey, ExpireStore, vars, JoinStart, JoinHandler, JoinFetch, JoinMiss, JoinRecord,
                  JoinSave, Leave, Draw, DrawStore, Erase, EraseStore, ExpirePage, databaseVars
    <3>3. QED BY <3>1, <3>2 DEF PromiseInv, PhaseInv
  <2>5. QED BY <2>1, <2>2, <2>3, <2>4 DEF Next
<1>2. QED BY <1>1, NextType, NextRow, NextJoin, NextSaved, NextPurge, NextArchive DEF PromiseInv

\* A step of SessionLifecycle as an observer of the promise sees it.
PromiseStep == [Promise!Next]_<<Phase, preClose, file, archived>>

\* The end handler: each of its writes is a step of the promise, and what it reads
\* or caches nobody sees.
LEMMA EndPromises ==
  ASSUME NEW e \in Enders, PromiseInv(e), EndStart(e) \/ EndHandler(e), TypeOK'
  PROVE  PromiseStep
<1> USE DEF PromiseStep, databaseVars, redisVars, historyVars
<1>0. /\ TypeOK /\ ArchiveInv(e) /\ PurgeInv(e) /\ PhaseInv(e)
      /\ status \in Statuses /\ status' \in Statuses
  BY DEF PromiseInv, TypeOK
<1>1. CASE EndClose(e)
  <2>1. status \in {"ACTIVE", "FAILED", "CLOSING"}
    BY <1>0, <1>1, BusyHasRow DEF EndClose, ArchiveInv, Closed, Statuses
  <2>2. Phase \in {"open", "closing"} /\ Phase' = "closing"
    BY <1>1, <2>1 DEF EndClose, Phase
  <2>3. preClose' = preClose \cup board /\ board \in SUBSET Strokes /\ UNCHANGED <<file, archived>>
    BY <1>0, <1>1 DEF EndClose, TypeOK
  <2>4. Promise!Try
    BY <2>2, <2>3 DEF Promise!Try
  <2>5. QED BY <2>4 DEF Promise!Next
<1>2. CASE (EndUpload(e) \/ UploadFails(e)) /\ file' # file
  <2>1. Phase = "closing" /\ Phase' = "closing"
    BY <1>0, <1>2 DEF EndUpload, UploadFails, PhaseInv, Closing, Phase
  <2>2. /\ file' = [saved |-> TRUE, strokes |-> ending[e].strokes]
        /\ preClose \subseteq ending[e].strokes /\ UNCHANGED <<preClose, archived>>
    BY <1>0, <1>2 DEF EndUpload, UploadFails, ArchiveInv
  <2>3. ending[e].strokes \in SUBSET Strokes
    BY <1>0 DEF TypeOK, EndState
  <2>4. Promise!Save
    BY <2>1, <2>2, <2>3 DEF Promise!Save
  <2>5. QED BY <2>4 DEF Promise!Next
<1>3. CASE EndRollback(e)
  <2>1. Phase = "closing" /\ Phase' = "open"
    BY <1>0, <1>3 DEF EndRollback, PhaseInv, Closing, Phase
  <2>2. UNCHANGED <<preClose, file, archived>>
    BY <1>3 DEF EndRollback
  <2>3. QED BY <2>1, <2>2 DEF Promise!GiveUp, Promise!Next
<1>4. CASE EndArchive(e)
  <2>1. Phase = "closing" /\ Phase' = "archived"
    BY <1>0, <1>4 DEF EndArchive, PhaseInv, Closing, Phase
  <2>2. preClose \subseteq file.strokes /\ UNCHANGED <<preClose, file, archived>>
    BY <1>0, <1>4 DEF EndArchive, ArchiveInv, AfterUpload
  <2>3. file.saved
    BY <1>4 DEF EndArchive, PromiseInv, SavedInv, AfterUpload
  <2>4. QED BY <2>1, <2>2, <2>3 DEF Promise!Archive, Promise!Next
<1>5. CASE EndAnnounce(e)
  <2>1. Phase = "archived" /\ Phase' = Phase
    BY <1>0, <1>5 DEF EndAnnounce, PurgeInv, Phase
  <2>2. archived' = TRUE /\ UNCHANGED <<preClose, file>>
    BY <1>5 DEF EndAnnounce
  <2>3. QED BY <2>1, <2>2 DEF Promise!Tell, Promise!Next
<1>6. CASE EndFails(e)
  <2>1. UNCHANGED <<preClose, file, archived>>
    BY <1>6 DEF EndFails
  <2>2. status' = status \/ (status = "CLOSING" /\ status' = "FAILED")
    BY <1>6 DEF EndFails
  <2>3. CASE status' = status
    BY <2>1, <2>3 DEF Phase
  <2>4. CASE status = "CLOSING" /\ status' = "FAILED"
    <3>1. Phase = "closing" /\ Phase' = "open"
      BY <2>4 DEF Phase
    <3>2. QED BY <2>1, <3>1 DEF Promise!GiveUp, Promise!Next
  <2>5. QED BY <2>2, <2>3, <2>4
<1>7. CASE \/ EndStart(e) \/ EndFetch(e) \/ EndScan(e) \/ EndRead(e) \/ EndFade(e)
           \/ EndMembers(e) \/ EndUsers(e) \/ EndPurge(e) \/ EndThrows(e)
  <2>1. UNCHANGED <<status, preClose, file, archived>>
    BY <1>7 DEF EndStart, EndFetch, EndScan, EndRead, EndFade, EndMembers, EndUsers, EndPurge, EndThrows
  <2>2. QED BY <2>1 DEF Phase
<1>8. CASE (EndUpload(e) \/ UploadFails(e)) /\ file' = file
  <2>1. UNCHANGED <<status, preClose, archived>>
    BY <1>8 DEF EndUpload, UploadFails
  <2>2. QED BY <1>8, <2>1 DEF Phase
<1>9. QED BY <1>1, <1>2, <1>3, <1>4, <1>5, <1>6, <1>7, <1>8 DEF EndHandler

\* Every step is a step of the promise or none of its concern.
LEMMA StepPromises ==
  ASSUME NEW e \in Enders, Enders = {e}, PromiseInv(e), TypeOK', [Next]_vars
  PROVE  PromiseStep
<1> USE DEF PromiseStep
<1>1. CASE EndStart(e) \/ EndHandler(e)
  BY <1>1, EndPromises
<1>2. CASE Restart
  <2>1. archived' = FALSE /\ UNCHANGED <<status, file, preClose>>
    BY <1>2, RestartRests DEF databaseVars, historyVars
  <2>2. QED BY <2>1 DEF Phase, Promise!Forget, Promise!Next
<1>3. CASE CreateRow
  <2>1. Phase = "none" /\ Phase' = "open"
    BY <1>3 DEF CreateRow, PromiseInv, RowInv, Phase
  <2>2. UNCHANGED <<file, preClose, archived>>
    BY <1>3 DEF CreateRow, historyVars, memoryVars
  <2>3. QED BY <2>1, <2>2 DEF Promise!Open, Promise!Next
<1>4. ASSUME NEW p \in Pages, ExpirePage(p) PROVE PromiseStep
  <2>1. /\ UNCHANGED <<status, file, archived>>
        /\ preClose' = preClose \ {s \in Strokes : PageOf[s] = p}
    <3>1. preClose \subseteq Strokes
      BY DEF PromiseInv, TypeOK
    <3>2. QED BY <1>4, <3>1 DEF ExpirePage, databaseVars, memoryVars
  <2>2. Promise!Vanish
    BY <2>1 DEF Promise!Vanish, Phase
  <2>3. QED BY <2>2 DEF Promise!Next
<1>5. ASSUME \/ CreateKey \/ ExpireStore \/ UNCHANGED vars
             \/ \E u \in Users : JoinStart(u) \/ JoinHandler(u) \/ Leave(u)
             \/ \E s \in Strokes : Draw(s) \/ DrawStore(s)
      PROVE  PromiseStep
  <2>1. UNCHANGED <<status, preClose, file, archived>>
    BY <1>5 DEF CreateKey, ExpireStore, vars, JoinStart, JoinHandler, JoinFetch, JoinMiss, JoinRecord,
                JoinSave, Leave, Draw, DrawStore, databaseVars, memoryVars, historyVars
  <2>2. QED BY <2>1 DEF Phase
<1>6. ASSUME NEW x \in Erasures, Erase(x) PROVE PromiseStep
  <2>1. UNCHANGED <<status, preClose, file, archived>>
    BY <1>6 DEF Erase, databaseVars, historyVars
  <2>2. QED BY <2>1 DEF Phase
<1>7. ASSUME NEW x \in Erasures, EraseStore(x) PROVE PromiseStep
  <2>1. UNCHANGED <<status, file, archived>> /\ preClose' = preClose \ (Erased(x) \cap Strokes)
    <3>1. preClose \subseteq Strokes
      BY DEF PromiseInv, TypeOK
    <3>2. QED BY <1>7, <3>1 DEF EraseStore, databaseVars
  <2>2. Promise!Vanish
    BY <2>1 DEF Promise!Vanish, Phase
  <2>3. QED BY <2>2 DEF Promise!Next
<1>8. QED BY <1>1, <1>2, <1>3, <1>4, <1>5, <1>6, <1>7 DEF Next

\* The end handler, with its failures and restarts, implements SessionPromise when
\* requests come one at a time: what is archived holds all that was owed, was saved
\* before anybody is told, and is final.
THEOREM EndImplements ==
  ASSUME NEW e, Enders = {e}
  PROVE  Spec => EndKeepsPromise
<1>1. Init => Promise!Init
  <2> SUFFICES ASSUME Init PROVE Promise!Init
    OBVIOUS
  <2>1. Phase = "none"
    BY DEF Init, Phase
  <2>2. QED BY <2>1 DEF Init, NoFile, Promise!Init
<1>2. Init => PromiseInv(e)
  BY InitPromise
<1>3. PromiseInv(e) /\ [Next]_vars => PromiseInv(e)'
  BY NextPromise
<1>4. PromiseInv(e) /\ PromiseInv(e)' /\ [Next]_vars => [Promise!Next]_(Promise!vars)
  BY StepPromises DEF PromiseInv, PromiseStep, Promise!vars
<1>5. QED BY <1>1, <1>2, <1>3, <1>4, PTL DEF Spec, EndKeepsPromise, Promise!Spec

\* What is archived is final: under one request at a time no step takes the row
\* back or writes the file again.
THEOREM EndIsFinal ==
  ASSUME NEW e, Enders = {e}
  PROVE  Spec => [][status = "ARCHIVED" => status' = "ARCHIVED" /\ file' = file]_vars
<1>1. Init => PromiseInv(e)
  BY InitPromise
<1>2. PromiseInv(e) /\ [Next]_vars => PromiseInv(e)'
  BY NextPromise
<1>3. PromiseInv(e) /\ PromiseInv(e)' /\ [Next]_vars
        => [status = "ARCHIVED" => status' = "ARCHIVED" /\ file' = file]_vars
  <2> SUFFICES ASSUME PromiseInv(e), PromiseInv(e)', [Next]_vars, status = "ARCHIVED"
               PROVE  status' = "ARCHIVED" /\ file' = file
    OBVIOUS
  <2>1. PromiseStep /\ status' \in Statuses
    BY StepPromises DEF PromiseInv, TypeOK
  <2>2. Phase = "archived"
    BY DEF Phase
  <2>3. Phase' = "archived" /\ file' = file
    BY <2>1, <2>2 DEF PromiseStep, Promise!Next, Promise!Open, Promise!Try, Promise!Save, Promise!GiveUp,
                      Promise!Archive, Promise!Tell, Promise!Forget, Promise!Vanish
  <2>4. QED BY <2>1, <2>3 DEF Phase, Statuses
<1>4. QED BY <1>1, <1>2, <1>3, PTL DEF Spec

=============================================================================
