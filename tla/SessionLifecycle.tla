-------------------------- MODULE SessionLifecycle --------------------------
(***************************************************************************)
(* One session from its creation to its archive: POST /sessions, the       *)
(* join_room event with its lastSession cache, the end handler, and the    *)
(* strokes that are drawn meanwhile.                                       *)
(*                                                                         *)
(* The database row, the Redis keys and the S3 file outlive the process.   *)
(* A command to one of them and the code its answer resumes are one        *)
(* action; handlers interleave between their commands.  Whiteboard models  *)
(* the board itself: here a stroke is on a page or it is not.              *)
(***************************************************************************)
EXTENDS Naturals

CONSTANTS
  Users,      \* accounts that may join
  Teacher,    \* the one of them that teaches
  Enders,     \* requests to end the session that may be in flight together
  Strokes,    \* what the teacher may draw
  Pages,      \* the pages it is drawn on
  PageOf,     \* the page of each stroke
  Erasures,   \* what the teacher may erase: a stroke (un, er) or a page (cl)
  MaxEnds,    \* bound: attempts to end
  MaxFaults,  \* bound: failures and restarts
  Faults      \* "s3", "io", "restart", "expiry"

ASSUME SessionAssumption ==
  /\ Teacher \in Users
  /\ PageOf \in [Strokes -> Pages]
  /\ Erasures \subseteq Strokes \cup Pages /\ Strokes \cap Pages = {}
  /\ MaxEnds \in Nat /\ MaxFaults \in Nat
  /\ Faults \subseteq {"s3", "io", "restart", "expiry"}

VARIABLES
  creating,      \* how far POST /sessions is
  status,        \* Session.status, "NONE" while there is no row
  endAttempts,   \* Session.endAttempts
  store,         \* session:<id> is in Redis
  file,          \* whiteboards/<id>.json in S3
  board,         \* strokes stored in Redis, under the key of their page
  pageKeys,      \* pages that have a key, with strokes or an empty list
  fading,        \* pages whose key got WHITEBOARD_TTL_AFTER_END
  cache,         \* users whose user:<id>:lastSession names this session
  tracked,       \* session:<id>:users
  participants,  \* SessionParticipant rows
  archived,      \* archivedSessions has the session
  room,          \* users whose socket is in one of the session's rooms
  joining,       \* join_room handlers, by user
  ending,        \* end handlers
  drawing,       \* strokes: broadcast, waiting for their page to be stored
  erasing,       \* erasures: broadcast, waiting for their page to be stored
  straddling,    \* history: users past the checks of join_room when it was archived
  purged,        \* history: an end handler came to its last step
  preClose,      \* history: strokes stored when an end handler set CLOSING, and ever since
  leaked,        \* history: users whose cache entry a failed command of a pipeline left
  faults         \* bound on failures

databaseVars == <<status, endAttempts, participants>>
redisVars    == <<store, board, pageKeys, fading, cache, tracked>>
memoryVars   == <<archived, room, joining, ending, drawing, erasing>>
historyVars  == <<straddling, purged, preClose, leaked>>
vars == <<creating, databaseVars, redisVars, file, memoryVars, historyVars, faults>>

Statuses == {"NONE", "ACTIVE", "CLOSING", "ARCHIVED", "FAILED"}
NoFile == [saved |-> FALSE, strokes |-> {}]

NotJoining == [pc |-> "idle", hit |-> FALSE]
NotEnding  == [pc |-> "idle", keys |-> {}, strokes |-> {}, users |-> {}]

Init ==
  /\ creating = "new" /\ status = "NONE" /\ endAttempts = 0
  /\ store = FALSE /\ file = NoFile /\ board = {} /\ pageKeys = {} /\ fading = {}
  /\ cache = {} /\ tracked = {} /\ participants = {}
  /\ archived = FALSE /\ room = {} /\ drawing = {} /\ erasing = {}
  /\ joining = [u \in Users |-> NotJoining]
  /\ ending = [e \in Enders |-> NotEnding]
  /\ straddling = {} /\ purged = FALSE /\ preClose = {} /\ leaked = {} /\ faults = 0

\* A command of Redis or of the database fails.
CommandFails == "io" \in Faults /\ faults < MaxFaults /\ faults' = faults + 1

-----------------------------------------------------------------------------
(* POST /sessions *)

CreateRow ==
  /\ creating = "new"
  /\ status' = "ACTIVE" /\ creating' = "row"
  /\ UNCHANGED <<endAttempts, participants, redisVars, file, memoryVars, historyVars, faults>>

\* sessionStore.create.  If it fails the row stays ACTIVE without its key.
CreateKey ==
  /\ creating = "row"
  /\ store' = TRUE /\ creating' = "done"
  /\ UNCHANGED <<databaseVars, board, pageKeys, fading, cache, tracked, file, memoryVars,
                 historyVars, faults>>

-----------------------------------------------------------------------------
(* Joining *)

Step(u, pc) == joining' = [joining EXCEPT ![u].pc = pc]

\* The cache decides which path the join takes.
JoinStart(u) ==
  /\ joining[u].pc = "idle" /\ u \notin room
  /\ IF u \in cache
       THEN /\ room' = room \cup {u}
            /\ joining' = [joining EXCEPT ![u] = [pc |-> "record", hit |-> TRUE]]
       ELSE Step(u, "fetch") /\ UNCHANGED room
  /\ UNCHANGED <<creating, databaseVars, redisVars, file, archived, ending, drawing, erasing,
                 historyVars, faults>>

\* sessionStore.get: no key, no session.
JoinFetch(u) ==
  /\ joining[u].pc = "fetch"
  /\ joining' = [joining EXCEPT ![u] = IF store THEN [@ EXCEPT !.pc = "status"] ELSE NotJoining]
  /\ UNCHANGED <<creating, databaseVars, redisVars, file, archived, room, ending, drawing, erasing,
                 historyVars, faults>>

\* The database refuses an archived session; otherwise the socket enters.
JoinMiss(u) ==
  /\ joining[u].pc = "status"
  /\ IF status # "ARCHIVED"
       THEN room' = room \cup {u} /\ Step(u, "record")
       ELSE joining' = [joining EXCEPT ![u] = NotJoining] /\ UNCHANGED room
  /\ UNCHANGED <<creating, databaseVars, redisVars, file, archived, ending, drawing, erasing,
                 historyVars, faults>>

\* The participant row; its failure is logged and the join goes on.
JoinRecord(u) ==
  /\ joining[u].pc = "record"
  /\ \/ participants' = participants \cup {u} /\ UNCHANGED faults
     \/ CommandFails /\ UNCHANGED participants
  /\ joining' = [joining EXCEPT ![u] = IF @.hit THEN NotJoining ELSE [@ EXCEPT !.pc = "save"]]
  /\ UNCHANGED <<creating, status, endAttempts, redisVars, file, archived, room, ending,
                 drawing, erasing, historyVars>>

\* After a miss the pipeline stores the cache and tracks the user for the end.
\* Its exec() answers with the outcome of each command, which nobody looks at: the
\* join goes on without the entry, or with an entry the end will not find.
JoinSave(u) ==
  /\ joining[u].pc = "save"
  /\ \/ /\ cache' = cache \cup {u} /\ tracked' = tracked \cup {u}
        /\ UNCHANGED <<leaked, faults>>
     \/ /\ CommandFails
        /\ UNCHANGED cache
        /\ tracked' \in {tracked, tracked \cup {u}} /\ UNCHANGED leaked
     \/ /\ CommandFails
        /\ cache' = cache \cup {u}
        /\ UNCHANGED tracked /\ leaked' = leaked \cup ({u} \ tracked)
  /\ joining' = [joining EXCEPT ![u] = NotJoining]
  /\ UNCHANGED <<creating, databaseVars, store, board, pageKeys, fading, file, archived, room,
                 ending, drawing, erasing, straddling, purged, preClose>>

Leave(u) ==
  /\ u \in room
  /\ room' = room \ {u}
  /\ UNCHANGED <<creating, databaseVars, redisVars, file, archived, joining, ending,
                 drawing, erasing, historyVars, faults>>

-----------------------------------------------------------------------------
(* Drawing, as far as the archive is concerned: draw:append and draw:clear  *)

Draw(s) ==
  /\ Teacher \in room /\ ~archived
  /\ s \notin drawing \cup board
  /\ drawing' = drawing \cup {s}
  /\ UNCHANGED <<creating, databaseVars, redisVars, file, archived, room, joining, ending, erasing,
                 historyVars, faults>>

\* SET with the session's TTL: a key that was fading is renewed.
DrawStore(s) ==
  /\ s \in drawing
  /\ drawing' = drawing \ {s}
  /\ board' = board \cup {s}
  /\ pageKeys' = pageKeys \cup {PageOf[s]}
  /\ fading' = fading \ {PageOf[s]}
  /\ UNCHANGED <<creating, databaseVars, store, cache, tracked, file, archived, room,
                 joining, ending, erasing, historyVars, faults>>

\* un and er take one stroke away, cl all that the page has when it is stored.
Erase(x) ==
  /\ Teacher \in room /\ ~archived
  /\ erasing' = erasing \cup {x}
  /\ UNCHANGED <<creating, databaseVars, redisVars, file, archived, room, joining, ending, drawing,
                 historyVars, faults>>

ErasedPage(x) == IF x \in Pages THEN x ELSE PageOf[x]
Erased(x) == IF x \in Pages THEN {s \in Strokes : PageOf[s] = x} ELSE {x}

\* The same SET, of what is left of the page, also when it had no key.
EraseStore(x) ==
  /\ x \in erasing
  /\ erasing' = erasing \ {x}
  /\ board' = board \ Erased(x)
  /\ pageKeys' = pageKeys \cup {ErasedPage(x)}
  /\ fading' = fading \ {ErasedPage(x)}
  /\ preClose' = preClose \ Erased(x)
  /\ UNCHANGED <<creating, databaseVars, store, cache, tracked, file, archived, room,
                 joining, ending, drawing, straddling, purged, leaked, faults>>

-----------------------------------------------------------------------------
(* POST /sessions/:id/end *)

EndStep(e, pc) == ending' = [ending EXCEPT ![e].pc = pc]
EndDone(e) == ending' = [ending EXCEPT ![e] = NotEnding]

\* The answer to a write moves the handler on; a lost answer throws all the same.
Answered(e, pc) ==
  \/ EndStep(e, pc) /\ UNCHANGED faults
  \/ EndStep(e, "fail") /\ CommandFails

\* Mutant: a session that is being closed is taken for closed.
EndStartUnlessClosing(e) ==
  /\ ending[e].pc = "idle" /\ endAttempts < MaxEnds /\ status # "NONE"
  /\ status \notin {"ARCHIVED", "CLOSING"}
  /\ EndStep(e, "fetch")
  /\ UNCHANGED <<creating, databaseVars, redisVars, file, archived, room, joining, drawing, erasing,
                 historyVars, faults>>

\* Mutant: a request for an archived session ends it once more.
EndStartAgain(e) ==
  /\ ending[e].pc = "idle" /\ endAttempts < MaxEnds /\ status # "NONE"
  /\ EndStep(e, "fetch")
  /\ UNCHANGED <<creating, databaseVars, redisVars, file, archived, room, joining, drawing, erasing,
                 historyVars, faults>>

\* An archived session is answered from its row, which changes nothing.
EndStart(e) ==
  /\ ending[e].pc = "idle" /\ endAttempts < MaxEnds /\ status # "NONE"
  /\ status # "ARCHIVED"
  /\ EndStep(e, "fetch")
  /\ UNCHANGED <<creating, databaseVars, redisVars, file, archived, room, joining, drawing, erasing,
                 historyVars, faults>>

\* sessionStore.get, then the teacher's membership: 404 without the key.
EndFetch(e) ==
  /\ ending[e].pc = "fetch"
  /\ IF store THEN EndStep(e, "close") ELSE EndDone(e)
  /\ UNCHANGED <<creating, databaseVars, redisVars, file, archived, room, joining, drawing, erasing,
                 historyVars, faults>>

\* The upsert sets CLOSING whatever the status has become.
EndClose(e) ==
  /\ ending[e].pc = "close"
  /\ status' = "CLOSING" /\ endAttempts' = endAttempts + 1
  /\ preClose' = preClose \cup board
  /\ Answered(e, "scan")
  /\ UNCHANGED <<creating, participants, redisVars, file, archived, room, joining, drawing, erasing,
                 straddling, purged, leaked>>

\* Mutant: the loop stops after the first batch of SCAN.
EndScanOnce(e) ==
  /\ ending[e].pc = "scan"
  /\ \E batch \in SUBSET pageKeys :
       ending' = [ending EXCEPT ![e].pc = "read", ![e].keys = batch]
  /\ UNCHANGED <<creating, databaseVars, redisVars, file, archived, room, joining, drawing, erasing,
                 historyVars, faults>>

\* scanPageKeys.  SCAN guarantees the keys that are there from its first call to
\* its last; it is one step here.
EndScan(e) ==
  /\ ending[e].pc = "scan"
  /\ ending' = [ending EXCEPT ![e].pc = "read", ![e].keys = pageKeys]
  /\ UNCHANGED <<creating, databaseVars, redisVars, file, archived, room, joining, drawing, erasing,
                 historyVars, faults>>

\* MGET of the keys found; one that has expired is skipped.
EndRead(e) ==
  /\ ending[e].pc = "read"
  /\ ending' = [ending EXCEPT ![e].pc = "upload",
                              ![e].strokes = {s \in board : PageOf[s] \in ending[e].keys}]
  /\ UNCHANGED <<creating, databaseVars, redisVars, file, archived, room, joining, drawing, erasing,
                 historyVars, faults>>

EndUpload(e) ==
  /\ ending[e].pc = "upload"
  /\ file' = [saved |-> TRUE, strokes |-> ending[e].strokes]
  /\ EndStep(e, "fade")
  /\ UNCHANGED <<creating, databaseVars, redisVars, archived, room, joining, drawing, erasing,
                 historyVars, faults>>

\* Mutant: a failed upload is logged and the end goes on.
UploadFailsQuietly(e) ==
  /\ "s3" \in Faults /\ faults < MaxFaults
  /\ ending[e].pc = "upload"
  /\ EndStep(e, "fade") /\ faults' = faults + 1
  /\ UNCHANGED <<creating, databaseVars, redisVars, file, archived, room, joining, drawing, erasing,
                 historyVars>>

\* The upload throws, also when S3 has the file and only the answer was lost.
UploadFails(e) ==
  /\ "s3" \in Faults /\ faults < MaxFaults
  /\ ending[e].pc = "upload"
  /\ file' \in {file, [saved |-> TRUE, strokes |-> ending[e].strokes]}
  /\ EndStep(e, "rollback") /\ faults' = faults + 1
  /\ UNCHANGED <<creating, databaseVars, redisVars, archived, room, joining, drawing, erasing,
                 historyVars>>

\* Mutant: the row gets a status that is not one of the schema's.
EndRollbackOpen(e) ==
  /\ ending[e].pc = "rollback"
  /\ status' = "OPEN"
  /\ EndDone(e)
  /\ UNCHANGED <<creating, endAttempts, participants, redisVars, file, archived, room,
                 joining, drawing, erasing, historyVars, faults>>

\* Back to ACTIVE, so that the teacher can try again.
EndRollback(e) ==
  /\ ending[e].pc = "rollback"
  /\ status' = "ACTIVE"
  /\ \/ EndDone(e) /\ UNCHANGED faults
     \/ EndStep(e, "fail") /\ CommandFails
  /\ UNCHANGED <<creating, endAttempts, participants, redisVars, file, archived, room,
                 joining, drawing, erasing, historyVars>>

\* A pipeline of EXPIREs on the keys that were found, whatever was stored under
\* them since.  Nobody looks at their outcomes.
EndFade(e) ==
  /\ ending[e].pc = "fade"
  /\ LET found == ending[e].keys \cap pageKeys IN
     \/ fading' = fading \cup found /\ UNCHANGED faults
     \/ CommandFails /\ \E some \in SUBSET found : fading' = fading \cup some
  /\ EndStep(e, "archive")
  /\ UNCHANGED <<creating, databaseVars, store, board, pageKeys, cache, tracked, file, archived, room,
                 joining, drawing, erasing, historyVars>>

PastChecks == {u \in Users : joining[u].pc \in {"record", "save"} /\ ~joining[u].hit}

EndArchive(e) ==
  /\ ending[e].pc = "archive"
  /\ status' = "ARCHIVED"
  /\ straddling' = straddling \cup PastChecks
  /\ Answered(e, "announce")
  /\ UNCHANGED <<creating, endAttempts, participants, redisVars, file, archived, room,
                 joining, drawing, erasing, purged, preClose, leaked>>

\* The synchronous block: block drawing, drop the room's state, tell the rooms,
\* and ask Redis who has ever joined.
EndAnnounce(e) ==
  /\ ending[e].pc = "announce"
  /\ archived' = TRUE
  /\ EndStep(e, "members")
  /\ UNCHANGED <<creating, databaseVars, redisVars, file, room, joining, drawing, erasing,
                 historyVars, faults>>

\* Mutant: only the caches of the users still connected are looked up.
EndMembersInRoom(e) ==
  /\ ending[e].pc = "members"
  /\ ending' = [ending EXCEPT ![e].pc = "users", ![e].users = tracked \cap room]
  /\ UNCHANGED <<creating, databaseVars, redisVars, file, archived, room, joining, drawing, erasing,
                 historyVars, faults>>

\* SMEMBERS; without members that is all.
EndMembers(e) ==
  /\ ending[e].pc = "members"
  /\ IF tracked # {}
       THEN /\ ending' = [ending EXCEPT ![e].pc = "users", ![e].users = tracked]
            /\ UNCHANGED purged
       ELSE EndDone(e) /\ purged' = TRUE
  /\ UNCHANGED <<creating, databaseVars, redisVars, file, archived, room, joining, drawing, erasing,
                 straddling, preClose, leaked, faults>>

\* A pipeline of GETs of the members' caches.  A GET that failed looks like a cache
\* that names nothing, and the entry is passed over.
EndUsers(e) ==
  /\ ending[e].pc = "users"
  /\ LET named == ending[e].users \cap cache IN
     \E found \in SUBSET named :
       /\ ending' = [ending EXCEPT ![e].pc = "purge", ![e].users = found]
       /\ IF found = named THEN UNCHANGED faults ELSE CommandFails
       /\ leaked' = leaked \cup (named \ found)
  /\ UNCHANGED <<creating, databaseVars, redisVars, file, archived, room, joining, drawing, erasing,
                 straddling, purged, preClose>>

\* A pipeline of DELs of the caches that named this session, and of the set.  That
\* one of them failed nobody notices: the handler answers 200.
EndPurge(e) ==
  /\ ending[e].pc = "purge"
  /\ \/ /\ cache' = cache \ ending[e].users /\ tracked' = {}
        /\ UNCHANGED <<leaked, faults>>
     \/ \E left \in SUBSET ending[e].users :
          /\ CommandFails
          /\ cache' = cache \ (ending[e].users \ left)
          /\ tracked' \in {tracked, {}}
          /\ leaked' = leaked \cup left
  /\ purged' = TRUE
  /\ EndDone(e)
  /\ UNCHANGED <<creating, databaseVars, store, board, pageKeys, fading, file, archived, room,
                 joining, drawing, erasing, straddling, preClose>>

\* Any other command of the handler fails: its catch clause runs.  The commands of
\* a pipeline do not get there, and the upload has a catch clause of its own.
EndThrows(e) ==
  /\ CommandFails
  /\ ending[e].pc \in {"fetch", "close", "scan", "read", "rollback", "archive", "members"}
  /\ EndStep(e, "fail")
  /\ UNCHANGED <<creating, databaseVars, redisVars, file, archived, room, joining, drawing, erasing,
                 historyVars>>

\* FAILED only from CLOSING; that this write fails too is ignored.
EndFails(e) ==
  /\ ending[e].pc = "fail"
  /\ \/ status' = (IF status = "CLOSING" THEN "FAILED" ELSE status) /\ UNCHANGED faults
     \/ CommandFails /\ UNCHANGED status
  /\ EndDone(e)
  /\ UNCHANGED <<creating, endAttempts, participants, redisVars, file, archived, room,
                 joining, drawing, erasing, historyVars>>

-----------------------------------------------------------------------------
(* The environment *)

\* The process dies, by itself or by a rejection no handler catches.
Restart ==
  /\ "restart" \in Faults /\ faults < MaxFaults
  /\ faults' = faults + 1
  /\ creating' = IF creating = "new" THEN "new" ELSE "done"
  /\ archived' = FALSE /\ room' = {} /\ drawing' = {} /\ erasing' = {}
  /\ joining' = [u \in Users |-> NotJoining]
  /\ ending' = [e \in Enders |-> NotEnding]
  /\ UNCHANGED <<databaseVars, redisVars, file, historyVars>>

ExpireStore ==
  /\ "expiry" \in Faults /\ store
  /\ store' = FALSE
  /\ UNCHANGED <<creating, databaseVars, board, pageKeys, fading, cache, tracked, file, memoryVars,
                 historyVars, faults>>

ExpirePage(p) ==
  /\ "expiry" \in Faults /\ p \in fading
  /\ fading' = fading \ {p} /\ pageKeys' = pageKeys \ {p}
  /\ board' = {s \in board : PageOf[s] # p}
  /\ preClose' = {s \in preClose : PageOf[s] # p}
  /\ UNCHANGED <<creating, databaseVars, store, cache, tracked, file, memoryVars,
                 straddling, purged, leaked, faults>>

EndHandler(e) ==
  \/ EndFetch(e) \/ EndClose(e) \/ EndScan(e) \/ EndRead(e)
  \/ EndUpload(e) \/ UploadFails(e) \/ EndRollback(e) \/ EndFade(e) \/ EndArchive(e)
  \/ EndAnnounce(e) \/ EndMembers(e) \/ EndUsers(e) \/ EndPurge(e) \/ EndThrows(e) \/ EndFails(e)

JoinHandler(u) == JoinFetch(u) \/ JoinMiss(u) \/ JoinRecord(u) \/ JoinSave(u)

Next ==
  \/ CreateRow \/ CreateKey
  \/ \E u \in Users : JoinStart(u) \/ JoinHandler(u) \/ Leave(u)
  \/ \E s \in Strokes : Draw(s) \/ DrawStore(s)
  \/ \E x \in Erasures : Erase(x) \/ EraseStore(x)
  \/ \E p \in Pages : ExpirePage(p)
  \/ \E e \in Enders : EndStart(e) \/ EndHandler(e)
  \/ Restart \/ ExpireStore

Spec == Init /\ [][Next]_vars

\* Commands are answered, and a teacher whose session is not archived asks again.
FairSpec ==
  /\ Spec
  /\ WF_vars(CreateRow) /\ WF_vars(CreateKey)
  /\ \A e \in Enders : WF_vars(EndHandler(e)) /\ WF_vars(EndStart(e))

-----------------------------------------------------------------------------
(* Properties *)

JoinState == [pc : {"idle", "fetch", "status", "record", "save"}, hit : BOOLEAN]
EndPhases == {"idle", "fetch", "close", "scan", "read", "upload", "rollback", "fade",
              "archive", "announce", "members", "users", "purge", "fail"}
EndState == [pc : EndPhases, keys : SUBSET Pages, strokes : SUBSET Strokes, users : SUBSET Users]

TypeOK ==
  /\ creating \in {"new", "row", "done"} /\ status \in Statuses /\ endAttempts \in Nat
  /\ store \in BOOLEAN /\ file \in [saved : BOOLEAN, strokes : SUBSET Strokes]
  /\ board \subseteq Strokes /\ pageKeys \subseteq Pages /\ fading \subseteq pageKeys
  /\ \A s \in board : PageOf[s] \in pageKeys
  /\ cache \subseteq Users /\ tracked \subseteq Users /\ participants \subseteq Users
  /\ archived \in BOOLEAN /\ room \subseteq Users
  /\ drawing \subseteq Strokes /\ erasing \subseteq Erasures
  /\ joining \in [Users -> JoinState] /\ ending \in [Enders -> EndState]
  /\ straddling \subseteq Users /\ leaked \subseteq Users
  /\ purged \in BOOLEAN /\ preClose \subseteq Strokes /\ faults \in Nat

\* Students are told that the session ended, and drawing is blocked, only when
\* the file is in S3 and the row was archived: nothing that fails before can
\* leave a room that was told and cannot be ended again.
EndedAfterSaved == archived \/ status = "ARCHIVED" => file.saved

\* Every stroke that was stored when some attempt to end began, and was neither
\* erased nor lost with its page since, is in the file of the archived session,
\* whatever earlier attempts wrote and at whatever step they failed (one request at
\* a time).  A retry after WHITEBOARD_TTL_AFTER_END does overwrite the file without
\* the strokes of the pages that faded in the failed attempt.
ArchiveHasWhatWasStored == status = "ARCHIVED" => preClose \subseteq file.strokes

\* After the end handler ran to its last step, a cache entry that names the session
\* is that of a join that was past its checks when the row was archived, or was
\* left by a command that failed in a pipeline: through the set of members the
\* handler finds the others, also those of users who have left.
PurgeIsComplete == purged => cache \subseteq straddling \cup leaked

\* What an observer of the row, the file and the rooms sees of the status.
Phase ==
  CASE status = "NONE" -> "none"
    [] status \in {"ACTIVE", "FAILED"} -> "open"
    [] status = "CLOSING" -> "closing"
    [] status = "ARCHIVED" -> "archived"

Promise == INSTANCE SessionPromise
             WITH phase <- Phase, owed <- preClose, kept <- file, told <- archived

\* The end handler, with its failures, retries and restarts, implements
\* SessionPromise (one request at a time): an attempt is given up, tried again or
\* archived, in this order; what was archived and told is never closed again, and
\* its file never written again.
EndKeepsPromise == Promise!Spec

\* A teacher who keeps asking ends the session, whatever attempt failed or was
\* cut off by a restart before, as long as the session's key is in Redis.
EndSucceeds == (status # "NONE" /\ store) ~> (status = "ARCHIVED" \/ ~store)

(* What comments and docs say of the program, and it does not do *)

\* "Writes after CLOSING are blocked by archivedSessions, so no lock is needed";
\* README: at the end of the session all strokes are saved to S3.
ArchiveHoldsBoard == status = "ARCHIVED" /\ ~archived => board \subseteq file.strokes

=============================================================================
