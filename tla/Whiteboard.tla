----------------------------- MODULE Whiteboard -----------------------------
(***************************************************************************)
(* The whiteboard of one session: the draw:append and draw:clear handlers  *)
(* of server.js, the room tick, the strokes begun but not finished, and    *)
(* the per-page board and meta keys in Redis guarded by a leased lock.     *)
(*                                                                         *)
(* The server is one Node process: code between two awaits is one action.  *)
(* A handler that waits for Redis is a slot of Ops whose pc names the      *)
(* command it waits for; a command and the code its reply resumes are one  *)
(* action.  Two commands sent together on the server's one connection      *)
(* (GET board, GET meta; SET board, SET meta) run next to each other.      *)
(***************************************************************************)
EXTENDS Naturals, Sequences

CONSTANTS
  Teachers,     \* sockets that joined the room with the teacher role
  Students,     \* sockets that joined the room with the student role
  StrokeIds,    \* the sId of the payloads
  Pages,        \* (materialId, pageNumber) pairs
  Kinds,        \* bound: which of the tick-taking events de, un, cl occur
  Ops,          \* slots for handlers in flight
  MaxAttempts,  \* SET NX attempts of withWhiteboardLock, 11 in the code
  MaxEvents,    \* bound: no new tick-taking event after that many
  MaxEpoch,     \* bound: restarts of the server
  Faults        \* which of the disturbances below a run admits

(***************************************************************************)
(* "lease"    a handler holds the page lock longer than its 2 s TTL        *)
(* "redis"    a Redis command fails                                        *)
(* "restart"  the process dies and is started again                        *)
(* "expiry"   the page keys reach their own TTL                            *)
(* "leave"    sockets disconnect, or leave the room for another one        *)
(* "end"      the session is ended                                         *)
(***************************************************************************)
FaultKinds == {"lease", "redis", "restart", "expiry", "leave", "end"}

ASSUME WhiteboardAssumption ==
  /\ MaxAttempts \in Nat \ {0}
  /\ MaxEvents \in Nat
  /\ MaxEpoch \in Nat
  /\ Faults \subseteq FaultKinds
  /\ "none" \notin Ops \cup Teachers
  /\ "orphan" \notin Ops
  /\ "elsewhere" \notin Teachers
  /\ "all" \notin StrokeIds

VARIABLES
  teachers, students,  \* joined sockets, by role
  astray,              \* history: a teacher left or came while an edit awaited its tick
  archived,            \* archivedSessions.has(room)
  pending,             \* pendingStrokes: who sent the ds of (sId, page)
  tick,                \* roomDrawTick
  tickInit,            \* tickInitPromise: the slot whose promise is stored
  initRunning,         \* init promises whose GET has not been answered
  op,                  \* handlers in flight
  lock,                \* lock:whiteboard:<page> in Redis
  board, meta,         \* the page's two keys in Redis
  log,                 \* history: the ticked events as they were broadcast, in order
  epoch,               \* history: how often the server was restarted
  forked,              \* history: two init promises have run at once
  overran,             \* history: pages whose lock expired under its holder
  half,                \* history: pages where only SET board took effect
  removed              \* history: strokes taken off a stored page

socketVars == <<teachers, students, astray, archived>>
tickVars   == <<tick, tickInit, initRunning, forked>>
redisVars  == <<lock, board, meta, overran, half, removed>>
vars == <<socketVars, pending, tickVars, op, redisVars, log, epoch>>

-----------------------------------------------------------------------------
None == "none"
Elsewhere == "elsewhere"  \* the sender of a ds that has left for another room
NoTick == [known |-> FALSE, n |-> 0]
Tick(n) == [known |-> TRUE, n |-> n]

\* The tick of each stored stroke; 0 for a stroke that is not on the page.
Strokes == [StrokeIds -> Nat]
Blank   == [s \in StrokeIds |-> 0]
NoBoard == [present |-> FALSE, t |-> Blank]
NoMeta  == [present |-> FALSE, tick |-> 0, destructive |-> FALSE]

\* un (undo) and er (erase) take the same path and differ in their name only.
Requests ==
  [kind : {"de", "un"} \cap Kinds, sId : StrokeIds, page : Pages]
    \cup [kind : {"cl"} \cap Kinds, sId : {"all"}, page : Pages]

NoRequest == [kind |-> "none", sId |-> None, page |-> None]

Idle == [pc |-> "idle", req |-> NoRequest, wait |-> None, tick |-> 0, tries |-> 0,
         strokes |-> Blank, destructive |-> FALSE, ownMap |-> FALSE,
         expired |-> FALSE, failed |-> FALSE]

\* The handlers between SET NX and the end of the Lua release.
Critical(o) == op[o].pc \in {"read", "write", "release"}
InCritical(o, p) == Critical(o) /\ op[o].req.page = p

\* Promise continuations run before the next event of the event loop.
Quiet == \A o \in Ops : op[o].pc # "resume"

NoPending == [k \in StrokeIds \X Pages |-> None]

Init ==
  /\ teachers = {} /\ students = {} /\ astray = FALSE /\ archived = FALSE
  /\ pending = NoPending
  /\ tick = NoTick /\ tickInit = None /\ initRunning = {} /\ forked = FALSE
  /\ op = [o \in Ops |-> Idle]
  /\ lock = [p \in Pages |-> None]
  /\ board = [p \in Pages |-> NoBoard]
  /\ meta = [p \in Pages |-> NoMeta]
  /\ overran = {} /\ half = {} /\ removed = [p \in Pages |-> {}]
  /\ log = <<>> /\ epoch = 0

-----------------------------------------------------------------------------
(* Sockets *)

\* A socket may come from another room, where an edit of its teacher still waits for
\* that room's tick: it will be broadcast here.
TeacherJoins(t) ==
  /\ Quiet /\ t \notin teachers
  /\ teachers' = teachers \cup {t}
  /\ astray' \in {astray, astray \/ "leave" \in Faults}
  /\ UNCHANGED <<students, archived, pending, tickVars, op, redisVars, log, epoch>>

StudentJoins(s) ==
  /\ Quiet /\ s \notin students
  /\ students' = students \cup {s}
  /\ UNCHANGED <<teachers, astray, archived, pending, tickVars, op, redisVars, log, epoch>>

\* join_room on a joined socket takes it out of the room it is in and cleans up
\* nothing: its unfinished strokes stay.  A handler of the socket that waits for
\* its tick will store here, and broadcast in the room it finds the socket in.
TeacherMoves(t) ==
  /\ "leave" \in Faults
  /\ Quiet /\ t \in teachers
  /\ teachers' = teachers \ {t}
  /\ pending' = [k \in StrokeIds \X Pages |-> IF pending[k] = t THEN Elsewhere ELSE pending[k]]
  /\ astray' = (astray \/ \E o \in Ops : op[o].pc = "init")
  /\ UNCHANGED <<students, archived, tickVars, op, redisVars, log, epoch>>

StudentMoves(s) ==
  /\ "leave" \in Faults
  /\ Quiet /\ s \in students
  /\ students' = students \ {s}
  /\ UNCHANGED <<teachers, astray, archived, pending, tickVars, op, redisVars, log, epoch>>

\* pendingStrokes.delete(room): handlers in flight keep a map nobody else sees.
ForgetPending ==
  /\ pending' = NoPending
  /\ op' = [o \in Ops |-> [op[o] EXCEPT !.ownMap = FALSE]]

\* Mutant: the unfinished strokes go only with the last student.
DisconnectKeepingStrokes(t) ==
  /\ "leave" \in Faults
  /\ Quiet /\ t \in teachers
  /\ teachers' = teachers \ {t}
  /\ IF students = {} THEN ForgetPending /\ tickInit' = None
                      ELSE UNCHANGED <<pending, op, tickInit>>
  /\ UNCHANGED <<students, astray, archived, tick, initRunning, forked, redisVars, log, epoch>>

\* disconnect cleans up after the room the socket is in, the last it joined.
TeacherDisconnects(t) ==
  /\ "leave" \in Faults
  /\ Quiet /\ t \in teachers
  /\ teachers' = teachers \ {t}
  /\ ForgetPending
  /\ tickInit' = IF students = {} THEN None ELSE tickInit
  /\ UNCHANGED <<students, astray, archived, tick, initRunning, forked, redisVars, log, epoch>>

StudentDisconnects(s) ==
  /\ "leave" \in Faults
  /\ Quiet /\ s \in students
  /\ students' = students \ {s}
  /\ IF students = {s}
       THEN ForgetPending /\ tickInit' = None
       ELSE UNCHANGED <<pending, op, tickInit>>
  /\ UNCHANGED <<teachers, astray, archived, tick, initRunning, forked, redisVars, log, epoch>>

\* Mutant: the session's state is dropped but the session is not marked.
EndWithoutMark ==
  /\ "end" \in Faults /\ Quiet
  /\ tick' = NoTick /\ tickInit' = None
  /\ ForgetPending
  /\ UNCHANGED <<socketVars, initRunning, forked, redisVars, log, epoch>>

\* The synchronous block of the session-end handler, after S3 and the database.
EndSession ==
  /\ "end" \in Faults
  /\ Quiet /\ ~archived
  /\ archived' = TRUE
  /\ tick' = NoTick /\ tickInit' = None
  /\ ForgetPending
  /\ UNCHANGED <<teachers, students, astray, initRunning, forked, redisVars, log, epoch>>

\* Everything in memory is gone; Redis keeps its keys, a held lock included.
Restart ==
  /\ "restart" \in Faults /\ epoch < MaxEpoch
  /\ epoch' = epoch + 1
  /\ teachers' = {} /\ students' = {} /\ astray' = FALSE /\ archived' = FALSE
  /\ pending' = NoPending
  /\ tick' = NoTick /\ tickInit' = None /\ initRunning' = {}
  /\ op' = [o \in Ops |-> Idle]
  /\ lock' = [p \in Pages |-> IF lock[p] = None THEN None ELSE "orphan"]
  /\ UNCHANGED <<forked, board, meta, overran, half, removed, log>>

-----------------------------------------------------------------------------
(* Events of the teachers *)

MayDraw(t) == Quiet /\ t \in teachers /\ ~archived

\* draw:append ds: no tick and no Redis.  dm only relays and changes nothing.
BeginStroke(t, s, p) ==
  /\ MayDraw(t)
  /\ pending' = [pending EXCEPT ![<<s, p>>] = t]
  /\ UNCHANGED <<socketVars, tickVars, op, redisVars, log, epoch>>

HasStart(r) == r.kind = "de" => pending[<<r.sId, r.page>>] # None

\* From the answer of getNextTick to the first Redis command: take the next
\* tick, broadcast, and queue for the page lock.  A de whose ds is unknown is
\* broadcast and not stored.
TakeTick(o, r) ==
  LET n == tick.n + 1 IN
  /\ tick' = Tick(n)
  /\ log' = Append(log, [t |-> n, epoch |-> epoch, req |-> r])
  /\ op' = [op EXCEPT ![o] =
              IF HasStart(r)
                THEN [Idle EXCEPT !.pc = "lock", !.req = r, !.tick = n, !.ownMap = TRUE]
                ELSE Idle]

\* draw:append de and draw:clear when the room already has its tick.
Draw(t, o, r) ==
  /\ MayDraw(t) /\ op[o].pc = "idle" /\ Len(log) < MaxEvents
  /\ tick.known
  /\ TakeTick(o, r)
  /\ UNCHANGED <<socketVars, pending, tickInit, initRunning, forked, redisVars, epoch>>

\* The first tick of the room: start the init promise, or wait for the stored one.
DrawFirst(t, o, r) ==
  /\ MayDraw(t) /\ op[o].pc = "idle" /\ Len(log) < MaxEvents
  /\ ~tick.known
  /\ LET p == IF tickInit = None THEN o ELSE tickInit IN
     /\ op' = [op EXCEPT ![o] = [Idle EXCEPT !.pc = "init", !.req = r, !.wait = p]]
     /\ tickInit' = p
     /\ initRunning' = initRunning \cup {p}
     /\ forked' = (forked \/ initRunning \ {p} # {})
  /\ UNCHANGED <<socketVars, pending, tick, redisVars, log, epoch>>

\* The GET of whiteboardMeta:<room>.  Strokes are stored under page keys, so no
\* code writes that key and the restored base is 0.
RestoredBase == 0

\* Mutant: a promise that is no longer the room's wakes nobody.
InitDoneIfStored(i) ==
  /\ Quiet /\ i \in initRunning
  /\ tick' = Tick(RestoredBase)
  /\ tickInit' = None
  /\ initRunning' = initRunning \ {i}
  /\ op' = [o \in Ops |-> IF op[o].pc = "init" /\ op[o].wait = i /\ tickInit = i
                            THEN [op[o] EXCEPT !.pc = "resume", !.wait = None]
                            ELSE op[o]]
  /\ UNCHANGED <<socketVars, pending, forked, redisVars, log, epoch>>

\* The init promise of slot i settles and wakes the handlers that wait for it;
\* finally deletes whatever promise the room has by now.
InitDone(i) ==
  /\ Quiet /\ i \in initRunning
  /\ tick' = Tick(RestoredBase)
  /\ tickInit' = None
  /\ initRunning' = initRunning \ {i}
  /\ op' = [o \in Ops |-> IF op[o].pc = "init" /\ op[o].wait = i
                            THEN [op[o] EXCEPT !.pc = "resume", !.wait = None]
                            ELSE op[o]]
  /\ UNCHANGED <<socketVars, pending, forked, redisVars, log, epoch>>

Resume(o) ==
  /\ op[o].pc = "resume"
  /\ TakeTick(o, op[o].req)
  /\ UNCHANGED <<socketVars, pending, tickInit, initRunning, forked, redisVars, epoch>>

-----------------------------------------------------------------------------
(* withWhiteboardLock and what runs under it *)

Goto(o, pc) == op' = [op EXCEPT ![o].pc = pc]
GiveUp(o) == op' = [op EXCEPT ![o] = Idle]

Acquire(o) ==
  LET p == op[o].req.page IN
  /\ Quiet /\ op[o].pc = "lock" /\ lock[p] = None
  /\ lock' = [lock EXCEPT ![p] = o]
  /\ Goto(o, "read")
  /\ UNCHANGED <<socketVars, pending, tickVars, board, meta, overran, half, removed, log, epoch>>

\* Mutant: after the last attempt the handler goes on without the lock.
RetryThenProceed(o) ==
  /\ Quiet /\ op[o].pc = "lock" /\ lock[op[o].req.page] # None
  /\ IF op[o].tries + 1 < MaxAttempts
       THEN op' = [op EXCEPT ![o].tries = @ + 1]
       ELSE Goto(o, "read")
  /\ UNCHANGED <<socketVars, pending, tickVars, redisVars, log, epoch>>

\* SET NX found the lock taken: try again, or throw after the last attempt.
Retry(o) ==
  /\ Quiet /\ op[o].pc = "lock" /\ lock[op[o].req.page] # None
  /\ IF op[o].tries + 1 < MaxAttempts
       THEN op' = [op EXCEPT ![o].tries = @ + 1]
       ELSE GiveUp(o)
  /\ UNCHANGED <<socketVars, pending, tickVars, redisVars, log, epoch>>

\* SET NX itself fails: the handler logs the error and stops.
AcquireFails(o) ==
  /\ "redis" \in Faults
  /\ Quiet /\ op[o].pc = "lock"
  /\ GiveUp(o)
  /\ UNCHANGED <<socketVars, pending, tickVars, redisVars, log, epoch>>

\* Mutant: a de resets the flag.
PrevDestructiveReset(r, p) == r.kind # "de"

\* A de keeps the destructive flag it finds; a clear does not read it.
PrevDestructive(r, p) == IF r.kind = "de" THEN meta[p].destructive ELSE TRUE

\* Mutant: the parsed value is taken for its list of strokes.
ReadWholeValue(o) ==
  LET p == op[o].req.page IN
  /\ Quiet /\ op[o].pc = "read"
  /\ op' = [op EXCEPT ![o].pc = "write",
                      ![o].strokes = board[p],
                      ![o].destructive = PrevDestructive(op[o].req, p)]
  /\ UNCHANGED <<socketVars, pending, tickVars, redisVars, log, epoch>>

ReadPage(o) ==
  LET p == op[o].req.page IN
  /\ Quiet /\ op[o].pc = "read"
  /\ op' = [op EXCEPT ![o].pc = "write",
                      ![o].strokes = board[p].t,
                      ![o].destructive = PrevDestructive(op[o].req, p)]
  /\ UNCHANGED <<socketVars, pending, tickVars, redisVars, log, epoch>>

\* A command under the lock fails before it takes effect.
CommandFails(o) ==
  /\ "redis" \in Faults
  /\ Quiet /\ op[o].pc \in {"read", "write"}
  /\ op' = [op EXCEPT ![o].pc = "release", ![o].failed = TRUE]
  /\ UNCHANGED <<socketVars, pending, tickVars, redisVars, log, epoch>>

\* What the handler makes of the strokes it read: upsert, filter or empty.
Edit(strokes, r, n) ==
  CASE r.kind = "de" -> [strokes EXCEPT ![r.sId] = n]
    [] r.kind = "un" -> [strokes EXCEPT ![r.sId] = 0]
    [] r.kind = "cl" -> Blank

StoreBoard(o, p) ==
  LET new == Edit(op[o].strokes, op[o].req, op[o].tick) IN
  /\ board' = [board EXCEPT ![p] = [present |-> TRUE, t |-> new]]
  /\ removed' = [removed EXCEPT ![p] = @ \cup {s \in StrokeIds : board[p].t[s] # 0 /\ new[s] = 0}]

WritePage(o) ==
  LET p == op[o].req.page IN
  /\ Quiet /\ op[o].pc = "write"
  /\ StoreBoard(o, p)
  /\ meta' = [meta EXCEPT ![p] = [present |-> TRUE, tick |-> op[o].tick,
                                  destructive |-> op[o].destructive]]
  /\ Goto(o, "release")
  /\ UNCHANGED <<socketVars, pending, tickVars, lock, overran, half, log, epoch>>

\* The connection breaks between SET board and SET meta.
WriteBoardOnly(o) ==
  LET p == op[o].req.page IN
  /\ "redis" \in Faults
  /\ Quiet /\ op[o].pc = "write"
  /\ StoreBoard(o, p)
  /\ half' = half \cup {p}
  /\ op' = [op EXCEPT ![o].pc = "release", ![o].failed = TRUE]
  /\ UNCHANGED <<socketVars, pending, tickVars, lock, meta, overran, log, epoch>>

\* What is dropped from pendingStrokes once the page is stored.  A de deletes
\* its key from the map it looked up, a clear from the room's current map.
Finished(o) ==
  LET r == op[o].req IN
  IF r.kind = "cl" THEN StrokeIds \X {r.page}
  ELSE IF r.kind = "un" \/ op[o].ownMap THEN {<<r.sId, r.page>>}
  ELSE {}

\* Mutant: DEL without the owner check.
UnlockAnyOwner(o) == lock' = [lock EXCEPT ![op[o].req.page] = None]

\* The Lua script deletes the lock only while it still holds the handler's value.
Unlock(o) ==
  LET p == op[o].req.page IN
  lock' = IF lock[p] = o THEN [lock EXCEPT ![p] = None] ELSE lock

Release(o) ==
  /\ Quiet /\ op[o].pc = "release"
  /\ Unlock(o)
  /\ pending' = IF op[o].failed THEN pending
                ELSE [k \in StrokeIds \X Pages |-> IF k \in Finished(o) THEN None ELSE pending[k]]
  /\ GiveUp(o)
  /\ UNCHANGED <<socketVars, tickVars, board, meta, overran, half, removed, log, epoch>>

\* The release script fails: the lock stays until its TTL, pending stays too.
ReleaseFails(o) ==
  LET p == op[o].req.page IN
  /\ "redis" \in Faults
  /\ Quiet /\ op[o].pc = "release"
  /\ lock' = IF lock[p] = o THEN [lock EXCEPT ![p] = "orphan"] ELSE lock
  /\ GiveUp(o)
  /\ UNCHANGED <<socketVars, pending, tickVars, board, meta, overran, half, removed, log, epoch>>

\* PX ran out.  A dead holder's lock always gets there, a live one's only when
\* Redis or the process is slower than the TTL.
ExpireLock(p) ==
  /\ lock[p] # None
  /\ lock[p] = "orphan" \/ "lease" \in Faults
  /\ lock' = [lock EXCEPT ![p] = None]
  /\ overran' = IF lock[p] = "orphan" THEN overran ELSE overran \cup {p}
  /\ op' = [o \in Ops |-> IF o = lock[p] THEN [op[o] EXCEPT !.expired = TRUE] ELSE op[o]]
  /\ UNCHANGED <<socketVars, pending, tickVars, board, meta, half, removed, log, epoch>>

\* The two keys get the same TTL in the order board, meta, so the meta key
\* outlives the board unless a write renewed the board alone.
ExpireBoard(p) ==
  /\ "expiry" \in Faults /\ board[p].present
  /\ board' = [board EXCEPT ![p] = NoBoard]
  /\ removed' = [removed EXCEPT ![p] = {}]
  /\ UNCHANGED <<socketVars, pending, tickVars, op, lock, meta, overran, half, log, epoch>>

ExpireMeta(p) ==
  /\ "expiry" \in Faults /\ meta[p].present
  /\ ~board[p].present \/ p \in half
  /\ meta' = [meta EXCEPT ![p] = NoMeta]
  /\ UNCHANGED <<socketVars, pending, tickVars, op, lock, board, overran, half, removed, log, epoch>>

-----------------------------------------------------------------------------
(* sync:request.  The handler changes nothing and sends its two GETs together, *)
(* so that its answer is a function of what is stored at one moment.           *)

\* A meta key that is missing or unreadable counts as destructive.
CanDelta(p) == board[p].present /\ meta[p].present /\ ~meta[p].destructive

\* sync:state for a client that names the last tick it has seen.
SyncState(p, lastTick) ==
  [mode       |-> IF CanDelta(p) THEN "delta" ELSE "full",
   strokes    |-> {s \in StrokeIds : board[p].t[s] > (IF CanDelta(p) THEN lastTick ELSE 0)},
   serverTick |-> IF meta[p].present THEN meta[p].tick ELSE 0]

Erases(e, p, s) == e.req.page = p /\ (e.req.kind = "cl" \/ e.req = [kind |-> "un", sId |-> s, page |-> p])
Draws(e, p, s)  == e.req = [kind |-> "de", sId |-> s, page |-> p]

\* What a client shows that was there for the first n events of the room.
Canvas(p, n) ==
  {s \in StrokeIds : \E i \in 1..n : /\ Draws(log[i], p, s)
                                    /\ \A j \in i..n : ~Erases(log[j], p, s)}

\* ... and after it was cut off, came back and got its sync:state: full replaces
\* the canvas, delta adds to it.
Restored(p, n) ==
  LET sync == SyncState(p, IF n = 0 THEN 0 ELSE log[n].t)
  IN IF sync.mode = "delta" THEN Canvas(p, n) \cup sync.strokes ELSE sync.strokes

-----------------------------------------------------------------------------
Handler(o) ==
  \/ InitDone(o) \/ Resume(o)
  \/ Acquire(o) \/ Retry(o) \/ AcquireFails(o)
  \/ ReadPage(o) \/ CommandFails(o)
  \/ WritePage(o) \/ WriteBoardOnly(o)
  \/ Release(o) \/ ReleaseFails(o)

Next ==
  \/ \E t \in Teachers : TeacherJoins(t) \/ TeacherMoves(t) \/ TeacherDisconnects(t)
  \/ \E s \in Students : StudentJoins(s) \/ StudentMoves(s) \/ StudentDisconnects(s)
  \/ EndSession
  \/ Restart
  \/ \E t \in Teachers, s \in StrokeIds, p \in Pages : BeginStroke(t, s, p)
  \/ \E t \in Teachers, o \in Ops, r \in Requests : Draw(t, o, r) \/ DrawFirst(t, o, r)
  \/ \E o \in Ops : Handler(o)
  \/ \E p \in Pages : ExpireLock(p) \/ ExpireBoard(p) \/ ExpireMeta(p)

Spec == Init /\ [][Next]_vars

\* Redis answers every command or fails it, and a settled promise is resumed.
FairSpec == Spec /\ \A o \in Ops : WF_vars(Handler(o))

-----------------------------------------------------------------------------
(* Properties *)

Phases == {"idle", "init", "resume", "lock", "read", "write", "release"}

HandlerState ==
  [pc : Phases, req : Requests \cup {NoRequest}, wait : Ops \cup {None}, tick : Nat,
   tries : Nat, strokes : Strokes, destructive : BOOLEAN, ownMap : BOOLEAN,
   expired : BOOLEAN, failed : BOOLEAN]

Broadcasts == [t : Nat, epoch : Nat, req : Requests]

\* The type of every variable; a slot that is not idle has a request.
TypeOK ==
  /\ teachers \subseteq Teachers /\ students \subseteq Students
  /\ astray \in BOOLEAN /\ archived \in BOOLEAN
  /\ pending \in [StrokeIds \X Pages -> Teachers \cup {None, Elsewhere}]
  /\ tick \in [known : BOOLEAN, n : Nat]
  /\ tickInit \in Ops \cup {None} /\ initRunning \subseteq Ops
  /\ op \in [Ops -> HandlerState]
  /\ \A o \in Ops : op[o].pc # "idle" => op[o].req \in Requests
  /\ lock \in [Pages -> Ops \cup {None, "orphan"}]
  /\ board \in [Pages -> [present : BOOLEAN, t : Strokes]]
  /\ meta \in [Pages -> [present : BOOLEAN, tick : Nat, destructive : BOOLEAN]]
  /\ log \in Seq(Broadcasts) /\ epoch \in Nat
  /\ forked \in BOOLEAN /\ overran \subseteq Pages /\ half \subseteq Pages
  /\ removed \in [Pages -> SUBSET StrokeIds]

\* A handler under the page lock whose lease has not run out owns the lock, so
\* no two such handlers work on one page: the owner check in the release script
\* keeps a late handler from freeing the lock of the next one.
LeaseExclusive ==
  \A o \in Ops : Critical(o) /\ ~op[o].expired => lock[op[o].req.page] = o

\* A client that loses its connection after any event and comes back shows, once
\* it has merged its sync:state, every stroke that is stored, but for those it saw
\* erased by an edit that is not stored itself, and none that was taken off the
\* stored page: deltas need ticks in the order of the events, and the destructive
\* flag to survive every later edit.  Holds unless a lock was outlived or only the
\* board of a pair of keys was stored, or a teacher changed rooms while an edit of
\* the one left waited for its tick, in the process whose ticks the client knows.
SyncRestores ==
  \A p \in Pages \ (overran \cup half), n \in 0..Len(log), s \in StrokeIds :
    ~forked /\ ~astray /\ epoch = 0 =>
      /\ s \in Restored(p, n) /\ s \in removed[p] => board[p].t[s] # 0
      /\ board[p].t[s] # 0 /\ s \notin Restored(p, n)
           => \E i \in 1..n : Erases(log[i], p, s) /\ log[i].t > board[p].t[s]

\* Between two restarts the ticks of the room's events increase in the order in which
\* they are broadcast, as long as its tick was initialised by one promise at a time.
TicksInOrder ==
  ~forked => \A i, j \in DOMAIN log :
               i < j /\ log[i].epoch = log[j].epoch => log[i].t < log[j].t

\* pendingStrokes holds no stroke of a teacher socket that has gone (#45), unless
\* it went by way of another room: disconnect cleans up after the last room only.
NoOrphanedStroke == \A k \in DOMAIN pending : pending[k] \in teachers \cup {None, Elsewhere}

\* Every handler ends, with its answer from Redis, an error or a lock timeout,
\* also when the init promise it waits for was dropped from the map.
HandlersFinish == \A o \in Ops : op[o].pc # "idle" ~> op[o].pc = "idle"

\* The writer that has read page p and not stored it yet.
Building(p) == {o \in Ops : op[o].pc = "write" /\ op[o].req.page = p /\ ~op[o].expired}

\* Page p as its next writer will find it, or has found it: a key that expires
\* between GET and SET comes back with the SET.
StoredPage(p) ==
  IF board[p].present \/ Building(p) = {} THEN board[p].t
  ELSE op[CHOOSE o \in Building(p) : TRUE].strokes

\* The stored pages, taken alone, are a register that broadcast edits are
\* applied to one at a time (PageStore), as long as their lock is not outlived.
Store == INSTANCE PageStore WITH
           page <- [p \in Pages \ overran |-> StoredPage(p)],
           edits <- {log[i] : i \in DOMAIN log}
StoreIsAtomic == Store!Spec

(* What comments and docs say of the program, and it does not do *)

\* docs/socket-events.md: t increases monotonically per room; the comment of
\* the disconnect handler adds that it does so across a restart.
TickMonotone == \A i, j \in DOMAIN log : i < j => log[i].t < log[j].t

=============================================================================
