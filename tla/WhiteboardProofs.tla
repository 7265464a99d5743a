-------------------------- MODULE WhiteboardProofs --------------------------
(***************************************************************************)
(* Proofs about Whiteboard for every set of sockets, strokes, pages and    *)
(* handlers, every bound and every choice of faults.                       *)
(***************************************************************************)
EXTENDS Whiteboard, TLAPS

-----------------------------------------------------------------------------
(* Type correctness *)

\* An idle slot is a handler state.
LEMMA IdleType == Idle \in HandlerState
BY DEF Idle, HandlerState, Phases, None, NoRequest, Strokes, Blank

\* At server start every variable has its type.
LEMMA InitType == Init => TypeOK
<1> SUFFICES ASSUME Init PROVE TypeOK
  OBVIOUS
<1>1. op \in [Ops -> HandlerState] /\ \A o \in Ops : op[o].pc = "idle"
  BY IdleType DEF Init, Idle
<1>2. pending \in [StrokeIds \X Pages -> Teachers \cup {None, Elsewhere}]
  BY DEF Init, NoPending
<1>3. board \in [Pages -> [present : BOOLEAN, t : Strokes]]
  BY DEF Init, NoBoard, Strokes, Blank
<1>4. meta \in [Pages -> [present : BOOLEAN, tick : Nat, destructive : BOOLEAN]]
  BY DEF Init, NoMeta
<1>5. log \in Seq(Broadcasts)
  BY DEF Init
<1>6. QED BY <1>1, <1>2, <1>3, <1>4, <1>5 DEF Init, TypeOK, NoTick

\* What TypeOK says of the handlers.
SlotsOK ==
  /\ op \in [Ops -> HandlerState]
  /\ \A o \in Ops : op[o].pc # "idle" => op[o].req \in Requests

\* A step that gives one slot a well-typed state keeps the handlers well typed.
LEMMA OneSlot ==
  ASSUME TypeOK, NEW o \in Ops, NEW h \in HandlerState,
         h.pc # "idle" => h.req \in Requests,
         op' = [op EXCEPT ![o] = h]
  PROVE  SlotsOK'
BY DEF TypeOK, SlotsOK

\* The same for a handler that gives up.
LEMMA GiveUpSlot ==
  ASSUME TypeOK, NEW o \in Ops, GiveUp(o)
  PROVE  SlotsOK'
BY OneSlot, IdleType DEF GiveUp, Idle

\* Taking a tick, common to Draw and Resume, keeps the types.
LEMMA TakeTickType ==
  ASSUME TypeOK, NEW o \in Ops, NEW r \in Requests, TakeTick(o, r)
  PROVE  /\ tick' \in [known : BOOLEAN, n : Nat]
         /\ log' \in Seq(Broadcasts)
         /\ SlotsOK'
<1>1. tick.n + 1 \in Nat
  BY DEF TypeOK
<1>2. tick' \in [known : BOOLEAN, n : Nat]
  BY <1>1 DEF TakeTick, Tick
<1>3. log' \in Seq(Broadcasts)
  <2>1. [t |-> tick.n + 1, epoch |-> epoch, req |-> r] \in Broadcasts
    BY <1>1 DEF TypeOK, Broadcasts
  <2>2. QED BY <2>1 DEF TypeOK, TakeTick
<1>4. [Idle EXCEPT !.pc = "lock", !.req = r, !.tick = tick.n + 1, !.ownMap = TRUE] \in HandlerState
  BY <1>1, IdleType DEF HandlerState, Phases, Idle
<1>5. SlotsOK'
  BY <1>4, IdleType, OneSlot DEF TakeTick, Idle
<1>6. QED BY <1>2, <1>3, <1>5

\* Dropping the room's unfinished strokes keeps the types.
LEMMA ForgetPendingType ==
  ASSUME TypeOK, ForgetPending
  PROVE  /\ pending' \in [StrokeIds \X Pages -> Teachers \cup {None, Elsewhere}]
         /\ SlotsOK'
<1>1. ASSUME NEW q \in Ops PROVE [op[q] EXCEPT !.ownMap = FALSE] \in HandlerState
  <2>1. op[q] \in HandlerState
    BY DEF TypeOK
  <2>2. QED BY <2>1 DEF HandlerState
<1>2. SlotsOK'
  BY <1>1 DEF ForgetPending, TypeOK, SlotsOK, HandlerState
<1>3. QED BY <1>2 DEF ForgetPending, NoPending

\* The edit a handler makes of the strokes it read is again a page of strokes.
LEMMA EditType ==
  ASSUME NEW strokes \in Strokes, NEW r \in Requests, NEW n \in Nat
  PROVE  Edit(strokes, r, n) \in Strokes
BY DEF Edit, Strokes, Requests, Blank

\* The board and the erasures a store writes have their types.
LEMMA StoreBoardType ==
  ASSUME TypeOK, NEW o \in Ops, op[o].pc = "write", StoreBoard(o, op[o].req.page)
  PROVE  /\ board' \in [Pages -> [present : BOOLEAN, t : Strokes]]
         /\ removed' \in [Pages -> SUBSET StrokeIds]
<1>1. op[o].strokes \in Strokes /\ op[o].req \in Requests /\ op[o].tick \in Nat
  BY DEF TypeOK, HandlerState
<1>2. Edit(op[o].strokes, op[o].req, op[o].tick) \in Strokes
  BY <1>1, EditType
<1>3. QED BY <1>2 DEF StoreBoard, TypeOK

\* No step of the room leaves the types.
LEMMA NextType == TypeOK /\ [Next]_vars => TypeOK'
<1> SUFFICES ASSUME TypeOK, [Next]_vars PROVE TypeOK'
  OBVIOUS
<1>1. ASSUME NEW t \in Teachers, TeacherJoins(t) \/ TeacherMoves(t) PROVE TypeOK'
  BY <1>1 DEF TeacherJoins, TeacherMoves, TypeOK, tickVars, redisVars
<1>2. ASSUME NEW t \in Teachers, TeacherDisconnects(t) PROVE TypeOK'
  BY <1>2, ForgetPendingType DEF TeacherDisconnects, SlotsOK, TypeOK, redisVars
<1>3. ASSUME NEW s \in Students, StudentJoins(s) \/ StudentMoves(s) PROVE TypeOK'
  BY <1>3 DEF StudentJoins, StudentMoves, TypeOK, tickVars, redisVars
<1>4. ASSUME NEW s \in Students, StudentDisconnects(s) PROVE TypeOK'
  BY <1>4, ForgetPendingType DEF StudentDisconnects, SlotsOK, TypeOK, redisVars
<1>5. CASE EndSession
  BY <1>5, ForgetPendingType DEF EndSession, SlotsOK, TypeOK, redisVars, NoTick
<1>6. CASE Restart
  <2>1. SlotsOK'
    BY <1>6, IdleType DEF Restart, SlotsOK, Idle
  <2>2. pending' \in [StrokeIds \X Pages -> Teachers \cup {None, Elsewhere}]
    BY <1>6 DEF Restart, NoPending
  <2>3. lock' \in [Pages -> Ops \cup {None, "orphan"}]
    BY <1>6 DEF Restart, TypeOK
  <2>4. /\ teachers' \subseteq Teachers /\ students' \subseteq Students
        /\ astray' \in BOOLEAN /\ archived' \in BOOLEAN
        /\ tick' \in [known : BOOLEAN, n : Nat]
        /\ tickInit' \in Ops \cup {None} /\ initRunning' \subseteq Ops
    BY <1>6 DEF Restart, NoTick
  <2>5. epoch' \in Nat
    <3>1. epoch \in Nat /\ epoch' = epoch + 1
      BY <1>6 DEF Restart, TypeOK
    <3>2. QED BY <3>1
  <2>6. UNCHANGED <<board, meta, log, forked, overran, half, removed>>
    BY <1>6 DEF Restart
  <2>7. QED BY <2>1, <2>2, <2>3, <2>4, <2>5, <2>6 DEF SlotsOK, TypeOK
<1>7. ASSUME NEW t \in Teachers, NEW s \in StrokeIds, NEW p \in Pages, BeginStroke(t, s, p)
      PROVE TypeOK'
  BY <1>7 DEF BeginStroke, TypeOK, socketVars, tickVars, redisVars
<1>8. ASSUME NEW t \in Teachers, NEW o \in Ops, NEW r \in Requests, Draw(t, o, r)
      PROVE TypeOK'
  BY <1>8, TakeTickType DEF Draw, SlotsOK, TypeOK, socketVars, redisVars
<1>9. ASSUME NEW t \in Teachers, NEW o \in Ops, NEW r \in Requests, DrawFirst(t, o, r)
      PROVE TypeOK'
  <2> DEFINE p == IF tickInit = None THEN o ELSE tickInit
             h == [Idle EXCEPT !.pc = "init", !.req = r, !.wait = p]
  <2>1. p \in Ops
    BY DEF TypeOK
  <2>2. h \in HandlerState /\ h.req \in Requests
    BY <2>1, IdleType DEF HandlerState, Phases, Idle
  <2>3. op' = [op EXCEPT ![o] = h]
    BY <1>9 DEF DrawFirst
  <2> HIDE DEF h
  <2>4. SlotsOK'
    BY <2>2, <2>3, OneSlot
  <2>5. tickInit' \in Ops \cup {None} /\ initRunning' \subseteq Ops /\ forked' \in BOOLEAN
    BY <1>9, <2>1 DEF DrawFirst, TypeOK
  <2>6. QED BY <1>9, <2>4, <2>5 DEF DrawFirst, SlotsOK, TypeOK, socketVars, redisVars
<1>10. ASSUME NEW o \in Ops, Handler(o) PROVE TypeOK'
  <2> USE DEF socketVars, tickVars, redisVars
  <2>0. op[o] \in HandlerState /\ (op[o].pc # "idle" => op[o].req \in Requests)
    BY DEF TypeOK
  <2>1. CASE InitDone(o)
    <3>1. ASSUME NEW q \in Ops PROVE [op[q] EXCEPT !.pc = "resume", !.wait = None] \in HandlerState
      <4>1. op[q] \in HandlerState
        BY DEF TypeOK
      <4>2. QED BY <4>1 DEF HandlerState, Phases
    <3>2. SlotsOK'
      BY <2>1, <3>1 DEF InitDone, TypeOK, SlotsOK, HandlerState
    <3>3. QED BY <2>1, <3>2 DEF InitDone, SlotsOK, TypeOK, Tick, RestoredBase
  <2>2. CASE Resume(o)
    BY <2>0, <2>2, TakeTickType DEF Resume, SlotsOK, TypeOK
  <2>3. CASE Acquire(o)
    <3>1. [op[o] EXCEPT !.pc = "read"] \in HandlerState
      BY <2>0 DEF HandlerState, Phases
    <3>2. SlotsOK'
      BY <2>0, <2>3, <3>1, OneSlot DEF Acquire, Goto, HandlerState
    <3>3. QED BY <2>3, <3>2 DEF Acquire, SlotsOK, TypeOK
  <2>4. CASE Retry(o)
    <3>1. [op[o] EXCEPT !.tries = @ + 1] \in HandlerState
      BY <2>0 DEF HandlerState
    <3>2. SlotsOK'
      BY <2>0, <2>4, <3>1, OneSlot, GiveUpSlot DEF Retry, HandlerState
    <3>3. QED BY <2>4, <3>2 DEF Retry, SlotsOK, TypeOK
  <2>5. CASE AcquireFails(o)
    BY <2>5, GiveUpSlot DEF AcquireFails, SlotsOK, TypeOK
  <2>6. CASE ReadPage(o)
    <3> DEFINE p == op[o].req.page
               h == [op[o] EXCEPT !.pc = "write", !.strokes = board[p].t,
                                  !.destructive = PrevDestructive(op[o].req, p)]
    <3>1. p \in Pages
      BY <2>0, <2>6 DEF ReadPage, Requests
    <3>2. board[p].t \in Strokes /\ PrevDestructive(op[o].req, p) \in BOOLEAN
      BY <3>1 DEF TypeOK, PrevDestructive
    <3>3. h \in HandlerState /\ h.req = op[o].req
      BY <2>0, <3>2 DEF HandlerState, Phases
    <3>4. op' = [op EXCEPT ![o] = h]
      BY <2>6 DEF ReadPage
    <3> HIDE DEF h
    <3>5. SlotsOK'
      BY <2>0, <2>6, <3>3, <3>4, OneSlot DEF ReadPage
    <3>6. QED BY <2>6, <3>5 DEF ReadPage, SlotsOK, TypeOK
  <2>7. CASE CommandFails(o)
    <3> DEFINE h == [op[o] EXCEPT !.pc = "release", !.failed = TRUE]
    <3>1. h \in HandlerState /\ h.req = op[o].req
      BY <2>0 DEF HandlerState, Phases
    <3>2. op' = [op EXCEPT ![o] = h]
      BY <2>7 DEF CommandFails
    <3> HIDE DEF h
    <3>3. SlotsOK'
      BY <2>0, <2>7, <3>1, <3>2, OneSlot DEF CommandFails
    <3>4. QED BY <2>7, <3>3 DEF CommandFails, SlotsOK, TypeOK
  <2>8. CASE WritePage(o)
    <3>1. [op[o] EXCEPT !.pc = "release"] \in HandlerState
      BY <2>0 DEF HandlerState, Phases
    <3>2. SlotsOK'
      BY <2>0, <2>8, <3>1, OneSlot DEF WritePage, Goto, HandlerState
    <3>3. meta' \in [Pages -> [present : BOOLEAN, tick : Nat, destructive : BOOLEAN]]
      BY <2>0, <2>8 DEF WritePage, TypeOK, HandlerState
    <3>4. QED BY <2>8, <3>2, <3>3, StoreBoardType DEF WritePage, SlotsOK, TypeOK
  <2>9. CASE WriteBoardOnly(o)
    <3> DEFINE h == [op[o] EXCEPT !.pc = "release", !.failed = TRUE]
    <3>1. h \in HandlerState /\ h.req = op[o].req
      BY <2>0 DEF HandlerState, Phases
    <3>2. op' = [op EXCEPT ![o] = h]
      BY <2>9 DEF WriteBoardOnly
    <3> HIDE DEF h
    <3>3. SlotsOK'
      BY <2>0, <2>9, <3>1, <3>2, OneSlot DEF WriteBoardOnly
    <3>4. half' \subseteq Pages
      BY <2>0, <2>9 DEF WriteBoardOnly, TypeOK, Requests
    <3>5. QED BY <2>9, <3>3, <3>4, StoreBoardType DEF WriteBoardOnly, SlotsOK, TypeOK
  <2>10. CASE Release(o)
    BY <2>10, GiveUpSlot DEF Release, Unlock, SlotsOK, TypeOK
  <2>11. CASE ReleaseFails(o)
    BY <2>11, GiveUpSlot DEF ReleaseFails, SlotsOK, TypeOK
  <2>12. QED
    BY <1>10, <2>1, <2>2, <2>3, <2>4, <2>5, <2>6, <2>7, <2>8, <2>9, <2>10, <2>11 DEF Handler
<1>11. ASSUME NEW p \in Pages, ExpireLock(p) PROVE TypeOK'
  <2>1. ASSUME NEW q \in Ops PROVE [op[q] EXCEPT !.expired = TRUE] \in HandlerState
    <3>1. op[q] \in HandlerState
      BY DEF TypeOK
    <3>2. QED BY <3>1 DEF HandlerState
  <2>2. SlotsOK'
    BY <1>11, <2>1 DEF ExpireLock, TypeOK, SlotsOK, HandlerState
  <2>3. lock' \in [Pages -> Ops \cup {None, "orphan"}] /\ overran' \subseteq Pages
    BY <1>11 DEF ExpireLock, TypeOK
  <2>4. QED BY <1>11, <2>2, <2>3 DEF ExpireLock, SlotsOK, TypeOK, socketVars, tickVars
<1>12. ASSUME NEW p \in Pages, ExpireBoard(p) PROVE TypeOK'
  BY <1>12 DEF ExpireBoard, NoBoard, Blank, Strokes, TypeOK, socketVars, tickVars
<1>13. ASSUME NEW p \in Pages, ExpireMeta(p) PROVE TypeOK'
  BY <1>13 DEF ExpireMeta, NoMeta, TypeOK, socketVars, tickVars
<1>14. CASE UNCHANGED vars
  BY <1>14 DEF vars, socketVars, tickVars, redisVars, TypeOK
<1>15. QED
  BY <1>1, <1>2, <1>3, <1>4, <1>5, <1>6, <1>7, <1>8, <1>9, <1>10, <1>11, <1>12,
     <1>13, <1>14 DEF Next

\* Every variable keeps its type, whatever happens to the room.
THEOREM TypeCorrect == Spec => []TypeOK
BY InitType, NextType, PTL DEF Spec

-----------------------------------------------------------------------------
(* The page lock *)

\* A lock in Redis that names a handler names one that works under it.
OwnerIsCritical == \A p \in Pages : lock[p] \in Ops => InCritical(lock[p], p)

\* Only a handler under a lock outlives its lease, and its page is marked.
ExpiredIsMarked ==
  \A o \in Ops : op[o].expired => Critical(o) /\ op[o].req.page \in overran

\* On a page whose lock was never outlived, a handler about to store works on
\* the strokes that are stored now: no update between its GET and its SET is lost.
EditsCurrentPage ==
  \A o \in Ops :
    LET p == op[o].req.page IN
    op[o].pc = "write" => p \in overran \/ ~board[p].present \/ op[o].strokes = board[p].t

\* LeaseExclusive alone says nothing of the strokes a handler read.  To store
\* what it read safely it must be alone on the page, which takes the other two:
\* off a marked page every lease is alive, so two handlers would own one lock.
LockInv ==
  /\ TypeOK
  /\ LeaseExclusive
  /\ OwnerIsCritical
  /\ ExpiredIsMarked
  /\ EditsCurrentPage

\* At server start no handler is under a lock and no lock is held.
LEMMA InitLock == Init => LockInv
<1> SUFFICES ASSUME Init PROVE LockInv
  OBVIOUS
<1>1. \A o \in Ops : op[o] = Idle
  BY DEF Init
<1>2. \A o \in Ops : ~Critical(o) /\ ~op[o].expired /\ op[o].pc = "idle"
  BY <1>1 DEF Critical, Idle
<1>3. OwnerIsCritical
  BY WhiteboardAssumption DEF Init, OwnerIsCritical, None
<1>4. QED
  BY <1>2, <1>3, InitType DEF LockInv, LeaseExclusive, ExpiredIsMarked, EditsCurrentPage

\* A step that keeps the lock, the pages and the marks, and moves no handler
\* into or out of the lock, keeps the invariant.
LEMMA OutsideTheLock ==
  ASSUME LockInv, TypeOK',
         UNCHANGED <<lock, board, overran>>,
         \A o \in Ops : \/ /\ op'[o].pc = op[o].pc /\ op'[o].req = op[o].req
                           /\ op'[o].expired = op[o].expired
                           /\ op'[o].strokes = op[o].strokes
                        \/ ~Critical(o) /\ ~Critical(o)' /\ ~op'[o].expired
  PROVE  LockInv'
<1>1. LeaseExclusive'
  BY DEF LockInv, LeaseExclusive, Critical
<1>2. OwnerIsCritical'
  BY DEF LockInv, OwnerIsCritical, InCritical, Critical
<1>3. ExpiredIsMarked'
  BY DEF LockInv, ExpiredIsMarked, Critical
<1>4. EditsCurrentPage'
  BY DEF LockInv, EditsCurrentPage, Critical
<1>5. QED BY <1>1, <1>2, <1>3, <1>4 DEF LockInv

\* A handler that leaves the critical section gives up what it owned.
LEMMA LeaveTheLock ==
  ASSUME LockInv, TypeOK', NEW o \in Ops, op[o].pc = "release",
         GiveUp(o), UNCHANGED <<board, overran>>,
         \A p \in Pages : lock'[p] = lock[p] \/ (lock[p] = o /\ lock'[p] \in {None, "orphan"}),
         lock'[op[o].req.page] # o
  PROVE  LockInv'
<1>1. op'[o] = Idle /\ \A q \in Ops \ {o} : op'[q] = op[q]
  BY DEF GiveUp, LockInv, TypeOK
<1>2. ~Critical(o)' /\ ~op'[o].expired /\ op'[o].pc = "idle"
  BY <1>1 DEF Critical, Idle
<1>3. \A q \in Ops : op[q].pc # "idle" => op[q].req.page \in Pages
  BY DEF LockInv, TypeOK, Requests
<1>4. LeaseExclusive'
  <2> SUFFICES ASSUME NEW q \in Ops, Critical(q)', ~op'[q].expired
               PROVE  lock'[op'[q].req.page] = q
    BY DEF LeaseExclusive
  <2>1. q # o /\ op'[q] = op[q] /\ Critical(q)
    BY <1>1, <1>2 DEF Critical
  <2>2. lock[op[q].req.page] = q /\ op[q].req.page \in Pages
    BY <2>1, <1>3 DEF LockInv, LeaseExclusive, Critical
  <2>3. QED BY <2>1, <2>2
<1>5. OwnerIsCritical'
  <2> SUFFICES ASSUME NEW p \in Pages, lock'[p] \in Ops
               PROVE  InCritical(lock[p], p)'
    BY DEF OwnerIsCritical
  <2>1. lock'[p] = lock[p]
    BY WhiteboardAssumption DEF None
  <2>2. InCritical(lock[p], p)
    BY <2>1 DEF LockInv, OwnerIsCritical
  <2>3. lock[p] # o
    BY <2>1, <2>2 DEF InCritical
  <2>4. op'[lock[p]] = op[lock[p]]
    BY <1>1, <2>1, <2>3
  <2>5. QED BY <2>2, <2>4, <2>1 DEF InCritical, Critical
<1>6. ExpiredIsMarked'
  BY <1>1, <1>2 DEF LockInv, ExpiredIsMarked, Critical
<1>7. EditsCurrentPage'
  BY <1>1, <1>2 DEF LockInv, EditsCurrentPage
<1>8. QED BY <1>4, <1>5, <1>6, <1>7 DEF LockInv

\* The steps of a handler under the lock that change neither lock nor marks.
LEMMA UnderTheLock ==
  ASSUME LockInv, TypeOK', NEW o \in Ops, Critical(o), Critical(o)',
         op'[o].req = op[o].req, op'[o].expired = op[o].expired,
         \A q \in Ops \ {o} : op'[q] = op[q],
         UNCHANGED <<lock, overran>>,
         EditsCurrentPage'
  PROVE  LockInv'
<1>1. LeaseExclusive'
  BY DEF LockInv, LeaseExclusive, Critical
<1>2. OwnerIsCritical'
  BY DEF LockInv, OwnerIsCritical, InCritical, Critical
<1>3. ExpiredIsMarked'
  BY DEF LockInv, ExpiredIsMarked, Critical
<1>4. QED BY <1>1, <1>2, <1>3 DEF LockInv

\* Off a marked page there is one handler under the lock at most.
LEMMA AloneOnPage ==
  ASSUME LockInv, NEW o \in Ops, NEW q \in Ops, Critical(o), Critical(q),
         op[o].req.page = op[q].req.page, op[o].req.page \notin overran
  PROVE  o = q
BY DEF LockInv, ExpiredIsMarked, LeaseExclusive

\* On an unmarked page nobody else is about to write what the SET overwrites.
LEMMA StoreKeepsEdits ==
  ASSUME LockInv, TypeOK', NEW o \in Ops, op[o].pc = "write",
         StoreBoard(o, op[o].req.page),
         op'[o].pc = "release", \A q \in Ops \ {o} : op'[q] = op[q],
         UNCHANGED overran
  PROVE  EditsCurrentPage'
<1> SUFFICES ASSUME NEW q \in Ops, op'[q].pc = "write", op'[q].req.page \notin overran',
                    board'[op'[q].req.page].present
             PROVE  op'[q].strokes = board'[op'[q].req.page].t
  BY DEF EditsCurrentPage
<1>1. q # o /\ op'[q] = op[q]
  OBVIOUS
<1>2. op[q].req.page # op[o].req.page
  BY <1>1, AloneOnPage DEF Critical
<1>3. op[q].req.page \in Pages
  BY <1>1 DEF LockInv, TypeOK, Requests
<1>4. board'[op[q].req.page] = board[op[q].req.page]
  BY <1>2, <1>3 DEF StoreBoard, LockInv, TypeOK
<1>5. QED BY <1>1, <1>4 DEF LockInv, EditsCurrentPage

\* Every action of every handler, and each fault, keeps the lock invariant.
LEMMA NextLock == LockInv /\ [Next]_vars => LockInv'
<1> SUFFICES ASSUME LockInv, [Next]_vars PROVE LockInv'
  OBVIOUS
<1>0. TypeOK /\ TypeOK'
  BY NextType DEF LockInv
<1>1. ASSUME NEW t \in Teachers, TeacherJoins(t) \/ TeacherMoves(t) PROVE LockInv'
  BY <1>0, <1>1, OutsideTheLock DEF TeacherJoins, TeacherMoves, redisVars
<1>2. ASSUME ForgetPending, UNCHANGED redisVars PROVE LockInv'
  BY <1>0, <1>2, OutsideTheLock DEF ForgetPending, redisVars, TypeOK, HandlerState
<1>3. ASSUME NEW s \in Students, StudentJoins(s) \/ StudentMoves(s) PROVE LockInv'
  BY <1>0, <1>3, OutsideTheLock DEF StudentJoins, StudentMoves, redisVars
<1>4. ASSUME NEW s \in Students, StudentDisconnects(s) PROVE LockInv'
  BY <1>0, <1>2, <1>4, OutsideTheLock DEF StudentDisconnects, redisVars
<1>5. CASE Restart
  <2>1. \A o \in Ops : op'[o] = Idle
    BY <1>5 DEF Restart
  <2>2. \A o \in Ops : ~Critical(o)' /\ ~op'[o].expired /\ op'[o].pc = "idle"
    BY <2>1 DEF Critical, Idle
  <2>3. \A p \in Pages : lock'[p] \notin Ops
    BY <1>5, WhiteboardAssumption DEF Restart, None
  <2>4. QED
    BY <1>0, <2>2, <2>3
       DEF LockInv, LeaseExclusive, OwnerIsCritical, ExpiredIsMarked, EditsCurrentPage
<1>6. ASSUME NEW t \in Teachers, NEW s \in StrokeIds, NEW p \in Pages, BeginStroke(t, s, p)
      PROVE LockInv'
  BY <1>0, <1>6, OutsideTheLock DEF BeginStroke, redisVars
<1>7. ASSUME NEW o \in Ops, NEW r \in Requests, TakeTick(o, r), UNCHANGED redisVars,
             op[o].pc \in {"idle", "resume"}
      PROVE LockInv'
  <2>1. \A q \in Ops \ {o} : op'[q] = op[q]
    BY <1>0, <1>7 DEF TakeTick, TypeOK
  <2>2. op'[o].pc \in {"idle", "lock"} /\ ~op'[o].expired
    BY <1>0, <1>7 DEF TakeTick, TypeOK, Idle
  <2>3. QED BY <1>0, <1>7, <2>1, <2>2, OutsideTheLock DEF Critical, redisVars
<1>8. ASSUME NEW t \in Teachers, NEW o \in Ops, NEW r \in Requests, DrawFirst(t, o, r)
      PROVE LockInv'
  <2>1. \A q \in Ops \ {o} : op'[q] = op[q]
    BY <1>0, <1>8 DEF DrawFirst, TypeOK
  <2>2. op'[o].pc = "init" /\ ~op'[o].expired /\ op[o].pc = "idle"
    BY <1>0, <1>8 DEF DrawFirst, TypeOK, Idle
  <2>3. QED BY <1>0, <1>8, <2>1, <2>2, OutsideTheLock DEF DrawFirst, Critical, redisVars
<1>9. ASSUME NEW o \in Ops, Handler(o) PROVE LockInv'
  <2>1. CASE InitDone(o)
    <3>1. \A q \in Ops : \/ op'[q] = op[q]
                         \/ op[q].pc = "init" /\ op'[q].pc = "resume" /\ op'[q].expired = op[q].expired
      <4> TAKE q \in Ops
      <4>1. op[q] \in HandlerState
        BY <1>0 DEF TypeOK
      <4>2. op'[q] = IF op[q].pc = "init" /\ op[q].wait = o
                       THEN [op[q] EXCEPT !.pc = "resume", !.wait = None] ELSE op[q]
        BY <2>1 DEF InitDone
      <4>3. QED BY <4>1, <4>2 DEF HandlerState
    <3>2. \A q \in Ops : op[q].pc = "init" => ~op[q].expired
      BY DEF LockInv, ExpiredIsMarked, Critical
    <3>3. QED BY <1>0, <2>1, <3>1, <3>2, OutsideTheLock DEF InitDone, Critical, redisVars
  <2>2. CASE Resume(o)
    BY <1>0, <1>7, <2>2 DEF Resume, TypeOK
  <2>3. CASE Acquire(o)
    <3> DEFINE p == op[o].req.page
    <3>1. /\ \A q \in Ops \ {o} : op'[q] = op[q]
          /\ op'[o].pc = "read" /\ op'[o].req = op[o].req /\ op'[o].expired = op[o].expired
      BY <1>0, <2>3 DEF Acquire, Goto, TypeOK, HandlerState
    <3>2. p \in Pages /\ lock[p] = None /\ lock' = [lock EXCEPT ![p] = o] /\ ~Critical(o)
      BY <1>0, <2>3 DEF Acquire, TypeOK, Requests, Critical
    <3>3. lock'[p] = o /\ \A x \in Pages \ {p} : lock'[x] = lock[x]
      BY <1>0, <3>2 DEF TypeOK
    <3>4. LeaseExclusive'
      <4> SUFFICES ASSUME NEW q \in Ops, Critical(q)', ~op'[q].expired, q # o
                   PROVE  lock'[op'[q].req.page] = q
        BY <3>1, <3>3 DEF LeaseExclusive
      <4>1. lock[op[q].req.page] = q /\ op[q].req.page \in Pages
        BY <1>0, <3>1 DEF LockInv, LeaseExclusive, Critical, TypeOK, Requests
      <4>2. op[q].req.page # p
        BY <3>2, <4>1, WhiteboardAssumption DEF None
      <4>3. QED BY <3>1, <3>3, <4>1, <4>2
    <3>5. OwnerIsCritical'
      BY <3>1, <3>2, <3>3 DEF LockInv, OwnerIsCritical, InCritical, Critical
    <3>6. ExpiredIsMarked'
      BY <2>3, <3>1, <3>2 DEF LockInv, ExpiredIsMarked, Critical, Acquire
    <3>7. EditsCurrentPage'
      BY <2>3, <3>1 DEF LockInv, EditsCurrentPage, Acquire
    <3>8. QED BY <1>0, <3>4, <3>5, <3>6, <3>7 DEF LockInv
  <2>4. ASSUME op[o].pc = "lock", UNCHANGED redisVars,
               GiveUp(o) \/ op' = [op EXCEPT ![o].tries = @ + 1]
        PROVE LockInv'
    <3>1. \A q \in Ops \ {o} : op'[q] = op[q]
      BY <1>0, <2>4 DEF GiveUp, TypeOK
    <3>2. ~op[o].expired
      BY <2>4 DEF LockInv, ExpiredIsMarked, Critical
    <3>3. op'[o].pc \in {"idle", "lock"} /\ ~op'[o].expired
      <4>1. CASE GiveUp(o)
        BY <1>0, <4>1 DEF GiveUp, TypeOK, Idle
      <4>2. CASE op' = [op EXCEPT ![o].tries = @ + 1]
        BY <1>0, <2>4, <3>2, <4>2 DEF TypeOK, HandlerState
      <4>3. QED BY <2>4, <4>1, <4>2
    <3>4. QED BY <1>0, <2>4, <3>1, <3>2, <3>3, OutsideTheLock DEF Critical, redisVars
  <2>5. CASE ReadPage(o)
    <3>1. /\ \A q \in Ops \ {o} : op'[q] = op[q]
          /\ op'[o].pc = "write" /\ op'[o].req = op[o].req /\ op'[o].expired = op[o].expired
          /\ op'[o].strokes = board[op[o].req.page].t
          /\ op[o].pc = "read"
      BY <1>0, <2>5 DEF ReadPage, TypeOK, HandlerState
    <3>2. EditsCurrentPage'
      <4> SUFFICES ASSUME NEW q \in Ops, op'[q].pc = "write", op'[q].req.page \notin overran,
                          board[op'[q].req.page].present
                   PROVE  op'[q].strokes = board[op'[q].req.page].t
        BY <2>5 DEF ReadPage, EditsCurrentPage, redisVars
      <4>1. CASE q = o
        BY <3>1, <4>1
      <4>2. CASE q # o
        BY <3>1, <4>2 DEF LockInv, EditsCurrentPage
      <4>3. QED BY <4>1, <4>2
    <3>3. QED BY <1>0, <2>5, <3>1, <3>2, UnderTheLock DEF ReadPage, Critical, redisVars
  <2>6. CASE CommandFails(o)
    <3>1. /\ \A q \in Ops \ {o} : op'[q] = op[q]
          /\ op'[o].pc = "release" /\ op'[o].req = op[o].req /\ op'[o].expired = op[o].expired
          /\ op[o].pc \in {"read", "write"}
      BY <1>0, <2>6 DEF CommandFails, TypeOK, HandlerState
    <3>2. EditsCurrentPage'
      <4> SUFFICES ASSUME NEW q \in Ops, op'[q].pc = "write", op'[q].req.page \notin overran,
                          board[op'[q].req.page].present
                   PROVE  op'[q].strokes = board[op'[q].req.page].t
        BY <2>6 DEF CommandFails, EditsCurrentPage, redisVars
      <4>1. q # o
        BY <3>1
      <4>2. QED BY <3>1, <4>1 DEF LockInv, EditsCurrentPage
    <3>3. QED BY <1>0, <2>6, <3>1, <3>2, UnderTheLock DEF CommandFails, Critical, redisVars
  <2>7. CASE WritePage(o) \/ WriteBoardOnly(o)
    <3>1. /\ \A q \in Ops \ {o} : op'[q] = op[q]
          /\ op'[o].pc = "release" /\ op'[o].req = op[o].req /\ op'[o].expired = op[o].expired
          /\ op[o].pc = "write"
      BY <1>0, <2>7 DEF WritePage, WriteBoardOnly, Goto, TypeOK, HandlerState
    <3>2. StoreBoard(o, op[o].req.page) /\ UNCHANGED <<lock, overran>>
      BY <2>7 DEF WritePage, WriteBoardOnly
    <3>3. EditsCurrentPage'
      BY <1>0, <3>1, <3>2, StoreKeepsEdits
    <3>4. QED BY <1>0, <3>1, <3>2, <3>3, UnderTheLock DEF Critical
  <2>8. CASE Release(o)
    <3>1. /\ \A p \in Pages : lock'[p] = lock[p] \/ (lock[p] = o /\ lock'[p] = None)
          /\ lock'[op[o].req.page] # o
      BY <1>0, <2>8, WhiteboardAssumption DEF Release, Unlock, TypeOK, Requests, None
    <3>2. QED BY <1>0, <2>8, <3>1, LeaveTheLock DEF Release
  <2>9. CASE ReleaseFails(o)
    <3>1. /\ \A p \in Pages : lock'[p] = lock[p] \/ (lock[p] = o /\ lock'[p] = "orphan")
          /\ lock'[op[o].req.page] # o
      BY <1>0, <2>9, WhiteboardAssumption DEF ReleaseFails, TypeOK, Requests
    <3>2. QED BY <1>0, <2>9, <3>1, LeaveTheLock DEF ReleaseFails
  <2>10. QED
    BY <1>9, <2>1, <2>2, <2>3, <2>4, <2>5, <2>6, <2>7, <2>8, <2>9 DEF Handler, Retry, AcquireFails
<1>10. ASSUME NEW p \in Pages, ExpireLock(p) PROVE LockInv'
  <2>1. /\ lock'[p] = None /\ \A x \in Pages \ {p} : lock'[x] = lock[x]
        /\ lock[p] \in Ops => p \in overran'
        /\ overran \subseteq overran'
    BY <1>0, <1>10, WhiteboardAssumption DEF ExpireLock, TypeOK
  <2>2. \A q \in Ops : /\ op'[q].pc = op[q].pc /\ op'[q].req = op[q].req
                       /\ op'[q].strokes = op[q].strokes
                       /\ op'[q].expired = (op[q].expired \/ q = lock[p])
    <3> TAKE q \in Ops
    <3>1. op[q] \in HandlerState
      BY <1>0 DEF TypeOK
    <3>2. op'[q] = IF q = lock[p] THEN [op[q] EXCEPT !.expired = TRUE] ELSE op[q]
      BY <1>10 DEF ExpireLock
    <3>3. QED BY <3>1, <3>2 DEF HandlerState
  <2>3. LeaseExclusive'
    <3> SUFFICES ASSUME NEW q \in Ops, Critical(q)', ~op'[q].expired
                 PROVE  lock'[op'[q].req.page] = q
      BY DEF LeaseExclusive
    <3>1. Critical(q) /\ ~op[q].expired /\ q # lock[p]
      BY <2>2 DEF Critical
    <3>2. lock[op[q].req.page] = q /\ op[q].req.page \in Pages
      BY <1>0, <3>1 DEF LockInv, LeaseExclusive, Critical, TypeOK, Requests
    <3>3. QED BY <2>1, <2>2, <3>1, <3>2
  <2>4. OwnerIsCritical'
    BY <2>1, <2>2, WhiteboardAssumption DEF LockInv, OwnerIsCritical, InCritical, Critical, None
  <2>5. ExpiredIsMarked'
    <3> SUFFICES ASSUME NEW q \in Ops, op[q].expired \/ q = lock[p]
                 PROVE  Critical(q) /\ op[q].req.page \in overran'
      BY <2>2 DEF ExpiredIsMarked, Critical
    <3>1. CASE op[q].expired
      BY <2>1, <3>1 DEF LockInv, ExpiredIsMarked
    <3>2. CASE q = lock[p]
      BY <2>1, <3>2 DEF LockInv, OwnerIsCritical, InCritical
    <3>3. QED BY <3>1, <3>2
  <2>6. EditsCurrentPage'
    BY <1>10, <2>1, <2>2 DEF LockInv, EditsCurrentPage, ExpireLock
  <2>7. QED BY <1>0, <2>3, <2>4, <2>5, <2>6 DEF LockInv
<1>11. ASSUME NEW p \in Pages, ExpireBoard(p) PROVE LockInv'
  <2>1. \A x \in Pages : board'[x] = board[x] \/ ~board'[x].present
    BY <1>0, <1>11 DEF ExpireBoard, NoBoard, TypeOK
  <2>2. UNCHANGED <<op, lock, overran>>
    BY <1>11 DEF ExpireBoard
  <2>3. EditsCurrentPage'
    BY <1>0, <2>1, <2>2 DEF LockInv, EditsCurrentPage, TypeOK, Requests
  <2>4. QED
    BY <1>0, <2>2, <2>3 DEF LockInv, LeaseExclusive, OwnerIsCritical, ExpiredIsMarked,
                           InCritical, Critical
<1>12. ASSUME NEW p \in Pages, ExpireMeta(p) PROVE LockInv'
  BY <1>0, <1>12, OutsideTheLock DEF ExpireMeta
<1>13. CASE UNCHANGED vars
  BY <1>0, <1>13, OutsideTheLock DEF vars, redisVars
<1>14. QED
  BY <1>1, <1>2, <1>3, <1>4, <1>5, <1>6, <1>7, <1>8, <1>9, <1>10, <1>11, <1>12, <1>13
     DEF Next, TeacherDisconnects, EndSession, Draw

\* The lock invariant, and with it every part of it, always holds: whatever
\* withWhiteboardLock's handlers do, and whichever of their commands fail.
THEOREM LockCorrect == Spec => []LockInv
BY InitLock, NextLock, PTL DEF Spec

\* Handlers whose lease is alive exclude each other on a page.
THEOREM LeasesExclude == Spec => []LeaseExclusive
<1>1. LockInv => LeaseExclusive
  BY DEF LockInv
<1>2. QED BY <1>1, LockCorrect, PTL

\* No update of a page is lost while no lock on it is outlived.
THEOREM NoLostUpdate == Spec => []EditsCurrentPage
<1>1. LockInv => EditsCurrentPage
  BY DEF LockInv
<1>2. QED BY <1>1, LockCorrect, PTL

-----------------------------------------------------------------------------
(* The unfinished strokes *)

LEMMA NextOrphan == TypeOK /\ NoOrphanedStroke /\ [Next]_vars => NoOrphanedStroke'
<1> SUFFICES ASSUME TypeOK, NoOrphanedStroke, [Next]_vars PROVE NoOrphanedStroke'
  OBVIOUS
<1>0. /\ pending \in [StrokeIds \X Pages -> Teachers \cup {None, Elsewhere}] /\ DOMAIN pending = StrokeIds \X Pages
      /\ \A k \in StrokeIds \X Pages : pending[k] \in teachers \cup {None, Elsewhere}
  BY DEF TypeOK, NoOrphanedStroke
<1>1. CASE pending' = NoPending
  BY <1>1 DEF NoPending, NoOrphanedStroke
<1>2. CASE pending' = pending /\ teachers \subseteq teachers'
  BY <1>0, <1>2 DEF NoOrphanedStroke
<1>3. ASSUME NEW t \in Teachers, NEW s \in StrokeIds, NEW p \in Pages, BeginStroke(t, s, p) PROVE NoOrphanedStroke'
  <2>1. pending' = [pending EXCEPT ![<<s, p>>] = t] /\ teachers' = teachers /\ t \in teachers
    BY <1>3 DEF BeginStroke, MayDraw, socketVars
  <2>2. QED BY <1>0, <2>1 DEF NoOrphanedStroke
<1>4. ASSUME NEW o \in Ops, Release(o) PROVE NoOrphanedStroke'
  <2>1. teachers' = teachers
    BY <1>4 DEF Release, socketVars
  <2>2. CASE op[o].failed
    BY <1>0, <1>4, <2>1, <2>2 DEF Release, NoOrphanedStroke
  <2>3. CASE ~op[o].failed
    <3>1. pending' = [k \in StrokeIds \X Pages |-> IF k \in Finished(o) THEN None ELSE pending[k]]
      BY <1>4, <2>3 DEF Release
    <3>2. QED BY <1>0, <2>1, <3>1 DEF NoOrphanedStroke
  <2>4. QED BY <2>2, <2>3
<1>5. ASSUME NEW o \in Ops, Handler(o), ~Release(o) PROVE pending' = pending /\ teachers' = teachers
  BY <1>5 DEF Handler, InitDone, Resume, Acquire, Retry, AcquireFails, ReadPage, CommandFails, WritePage,
     WriteBoardOnly, ReleaseFails, socketVars
<1>6. ASSUME NEW t \in Teachers, NEW o \in Ops, NEW r \in Requests, Draw(t, o, r) \/ DrawFirst(t, o, r)
      PROVE  pending' = pending /\ teachers' = teachers
  BY <1>6 DEF Draw, DrawFirst, socketVars
<1>7. CASE \E p \in Pages : ExpireLock(p) \/ ExpireBoard(p) \/ ExpireMeta(p)
  BY <1>2, <1>7 DEF ExpireLock, ExpireBoard, ExpireMeta, socketVars
<1>8. CASE \/ EndSession \/ Restart
           \/ \E t \in Teachers : TeacherJoins(t) \/ TeacherDisconnects(t)
           \/ \E s \in Students : StudentJoins(s) \/ StudentMoves(s) \/ StudentDisconnects(s)
  BY <1>1, <1>2, <1>8 DEF EndSession, Restart, TeacherJoins, TeacherDisconnects, StudentJoins, StudentMoves,
     StudentDisconnects, ForgetPending
<1>11. ASSUME NEW t \in Teachers, TeacherMoves(t) PROVE NoOrphanedStroke'
  <2>1. /\ teachers' = teachers \ {t}
        /\ pending' = [k \in StrokeIds \X Pages |-> IF pending[k] = t THEN Elsewhere ELSE pending[k]]
    BY <1>11 DEF TeacherMoves
  <2>2. QED BY <1>0, <2>1 DEF NoOrphanedStroke
<1>9. CASE UNCHANGED vars
  BY <1>2, <1>9 DEF vars, socketVars
<1>10. QED
  BY <1>2, <1>3, <1>4, <1>5, <1>6, <1>7, <1>8, <1>9, <1>11 DEF Next

\* No unfinished stroke outlives the socket of its teacher, whichever handlers
\* are in flight when the socket goes, unless the socket has left the room for
\* another before it went.
THEOREM StrokesOwned == Spec => []NoOrphanedStroke
<1>1. Init => NoOrphanedStroke
  BY DEF Init, NoPending, NoOrphanedStroke
<1>2. QED BY <1>1, NextOrphan, TypeCorrect, PTL DEF Spec

-----------------------------------------------------------------------------
(* The ticks *)

\* What is known of the ticks of this life of the process when its promises ran
\* one at a time.  Nothing was broadcast before the tick was initialised; once
\* it is, all that was broadcast is at or below it.
Now == {i \in DOMAIN log : log[i].epoch = epoch}

TickInv ==
  /\ \A i \in DOMAIN log : log[i].epoch <= epoch
  /\ \A o \in Ops : op[o].pc = "resume" => tick.known
  /\ ~forked =>
       /\ \A i, j \in initRunning : i = j
       /\ initRunning # {} => ~tick.known /\ Now = {}
       /\ ~tick.known /\ ~archived => Now = {}
       /\ tick.known => \A i \in Now : log[i].t <= tick.n
  /\ TicksInOrder

\* What was broadcast so far, as a sequence.
LEMMA LogType ==
  ASSUME TypeOK
  PROVE  /\ Len(log) \in Nat /\ DOMAIN log = 1..Len(log)
         /\ \A i \in DOMAIN log : log[i] \in Broadcasts /\ log[i].t \in Nat /\ log[i].epoch \in Nat
<1>1. log \in Seq(Broadcasts)
  BY DEF TypeOK
<1>2. Len(log) \in Nat /\ DOMAIN log = 1..Len(log) /\ \A i \in DOMAIN log : log[i] \in Broadcasts
  BY <1>1
<1>3. \A e \in Broadcasts : e.t \in Nat /\ e.epoch \in Nat
  BY DEF Broadcasts
<1>4. QED BY <1>2, <1>3

\* A broadcast with the next tick keeps what is known of them.
LEMMA TakeTickOrder ==
  ASSUME TypeOK, TickInv, NEW o \in Ops, NEW r \in Requests, TakeTick(o, r), tick.known,
         UNCHANGED <<archived, initRunning, forked, epoch>>
  PROVE  TickInv'
<1> DEFINE e == [t |-> tick.n + 1, epoch |-> epoch, req |-> r]
           n == Len(log) + 1
<1>1. log \in Seq(Broadcasts) /\ tick.n \in Nat /\ epoch \in Nat
  BY DEF TypeOK
<1>2. log' = Append(log, e) /\ tick'.known /\ tick'.n = tick.n + 1
  BY DEF TakeTick, Tick
<1>3. /\ DOMAIN log = 1..Len(log) /\ Len(log) \in Nat /\ DOMAIN log' = 1..n
      /\ \A i \in DOMAIN log : log'[i] = log[i] /\ log[i].t \in Nat /\ log[i].epoch \in Nat
      /\ log'[n] = e
  <2>1. Len(log) \in Nat /\ DOMAIN log = 1..Len(log) /\ \A i \in DOMAIN log : log[i].t \in Nat /\ log[i].epoch \in Nat
    BY LogType
  <2>2. log \in Seq(Broadcasts) /\ e \in Broadcasts
    BY <1>1 DEF Broadcasts
  <2> HIDE DEF e
  <2>3. DOMAIN log' = 1..n /\ log'[n] = e /\ \A i \in 1..Len(log) : log'[i] = log[i]
    BY <1>2, <2>2
  <2>4. QED BY <2>1, <2>3
<1>4. e.t = tick.n + 1 /\ e.epoch = epoch
  OBVIOUS
<1> HIDE DEF e
<1>5. \A i \in DOMAIN log' : log'[i].epoch <= epoch'
  BY <1>1, <1>3, <1>4 DEF TickInv
<1>6. ASSUME ~forked
      PROVE  \A i \in DOMAIN log : log[i].epoch = epoch => log[i].t <= tick.n
  BY <1>6 DEF TickInv, Now
<1>7. ASSUME ~forked PROVE initRunning = {}
  BY <1>7 DEF TickInv
<1>8. ASSUME ~forked, NEW i \in DOMAIN log', log'[i].epoch = epoch PROVE log'[i].t <= tick'.n
  BY <1>1, <1>2, <1>3, <1>4, <1>6, <1>8
<1>9. TicksInOrder'
  <2> SUFFICES ASSUME ~forked, NEW i \in DOMAIN log', NEW j \in DOMAIN log', i < j, log'[i].epoch = log'[j].epoch
               PROVE  log'[i].t < log'[j].t
    BY DEF TicksInOrder
  <2>1. i \in DOMAIN log
    BY <1>3
  <2>2. CASE j \in DOMAIN log
    BY <1>3, <2>1, <2>2 DEF TickInv, TicksInOrder
  <2>3. CASE j = n
    BY <1>1, <1>3, <1>4, <1>6, <2>1, <2>3
  <2>4. QED BY <1>3, <2>2, <2>3
<1>10. \A q \in Ops : op'[q].pc = "resume" => tick'.known
  BY <1>2
<1>11. ~forked' => \A i \in Now' : log'[i].t <= tick'.n
  BY <1>8 DEF Now
<1>12. QED BY <1>2, <1>5, <1>7, <1>9, <1>10, <1>11 DEF TickInv

\* A step that broadcasts nothing and keeps tick and promises.
LEMMA TickUntouched ==
  ASSUME TickInv, UNCHANGED <<archived, tick, initRunning, forked, log, epoch>>,
         \A o \in Ops : op'[o].pc = "resume" => \E q \in Ops : op[q].pc = "resume"
  PROVE  TickInv'
BY DEF TickInv, TicksInOrder, Now

LEMMA NextTicks == TypeOK /\ TickInv /\ [Next]_vars => TickInv'
<1> SUFFICES ASSUME TypeOK, TickInv, [Next]_vars PROVE TickInv'
  OBVIOUS
<1> USE DEF socketVars, tickVars, redisVars
<1>0. ASSUME ForgetPending PROVE \A o \in Ops : op'[o].pc = op[o].pc
  <2> TAKE o \in Ops
  <2>1. op[o] \in HandlerState /\ op'[o] = [op[o] EXCEPT !.ownMap = FALSE]
    BY <1>0 DEF TypeOK, ForgetPending
  <2>2. QED BY <2>1 DEF HandlerState
<1>1. CASE \/ \E t \in Teachers : TeacherJoins(t) \/ TeacherMoves(t) \/ TeacherDisconnects(t)
           \/ \E s \in Students : StudentJoins(s) \/ StudentMoves(s) \/ StudentDisconnects(s)
  BY <1>0, <1>1, TickUntouched DEF TeacherJoins, TeacherMoves, TeacherDisconnects, StudentJoins,
     StudentMoves, StudentDisconnects
<1>2. CASE EndSession
  <2>1. /\ archived' /\ ~tick'.known /\ UNCHANGED <<initRunning, forked, log, epoch>>
        /\ \A o \in Ops : op'[o].pc # "resume"
    BY <1>0, <1>2 DEF EndSession, Quiet, NoTick
  <2>2. QED BY <2>1 DEF TickInv, TicksInOrder, Now
<1>3. CASE Restart
  <2>1. /\ ~tick'.known /\ initRunning' = {} /\ UNCHANGED <<forked, log>> /\ epoch' = epoch + 1
        /\ \A o \in Ops : op'[o].pc # "resume"
    BY <1>3 DEF Restart, NoTick, Idle
  <2>2. epoch \in Nat /\ \A i \in DOMAIN log : log[i].epoch \in Nat
    BY LogType DEF TypeOK
  <2>3. Now' = {} /\ \A i \in DOMAIN log' : log'[i].epoch <= epoch'
    BY <2>1, <2>2 DEF TickInv, Now
  <2>4. QED BY <2>1, <2>3 DEF TickInv, TicksInOrder
<1>4. ASSUME NEW t \in Teachers, NEW o \in Ops, NEW r \in Requests, DrawFirst(t, o, r) PROVE TickInv'
  <2> DEFINE p == IF tickInit = None THEN o ELSE tickInit
  <2>1. /\ ~tick.known /\ ~archived /\ Quiet /\ UNCHANGED <<archived, tick, log, epoch>>
        /\ initRunning' = initRunning \cup {p} /\ forked' = (forked \/ initRunning \ {p} # {})
    BY <1>4 DEF DrawFirst, MayDraw
  <2>2. \A q \in Ops : op'[q].pc # "resume"
    BY <1>4 DEF DrawFirst, MayDraw, Quiet, TypeOK, Idle
  <2> HIDE DEF p
  <2>3. ~forked' => ~forked /\ initRunning' = {p}
    BY <2>1
  <2>4. QED BY <2>1, <2>2, <2>3 DEF TickInv, TicksInOrder, Now
<1>5. ASSUME NEW t \in Teachers, NEW o \in Ops, NEW r \in Requests, Draw(t, o, r) PROVE TickInv'
  BY <1>5, TakeTickOrder DEF Draw
<1>6. ASSUME NEW o \in Ops, InitDone(o) PROVE TickInv'
  <2>1. /\ tick'.known /\ tick'.n = 0 /\ o \in initRunning /\ initRunning' = initRunning \ {o}
        /\ UNCHANGED <<archived, forked, log, epoch>>
    BY <1>6 DEF InitDone, Tick, RestoredBase
  <2>2. ~forked => Now = {} /\ initRunning' = {}
    BY <2>1 DEF TickInv
  <2>3. QED BY <2>1, <2>2 DEF TickInv, TicksInOrder, Now
<1>7. ASSUME NEW o \in Ops, Resume(o) PROVE TickInv'
  <2>1. tick.known /\ op[o].req \in Requests
    BY <1>7 DEF Resume, TickInv, TypeOK
  <2>2. QED BY <1>7, <2>1, TakeTickOrder DEF Resume
<1>8. ASSUME NEW o \in Ops, Handler(o), ~InitDone(o), ~Resume(o) PROVE TickInv'
  <2>1. UNCHANGED <<archived, tick, initRunning, forked, log, epoch>>
    BY <1>8 DEF Handler, Acquire, Retry, AcquireFails, ReadPage, CommandFails, WritePage,
       WriteBoardOnly, Release, ReleaseFails
  <2>2. \A q \in Ops : q # o => op'[q] = op[q]
    BY <1>8 DEF TypeOK, Handler, Acquire, Retry, AcquireFails, ReadPage, CommandFails, WritePage,
       WriteBoardOnly, Release, ReleaseFails, Goto, GiveUp
  <2>3. op'[o].pc # "resume"
    <3>1. op \in [Ops -> HandlerState] /\ op[o] \in HandlerState
      BY DEF TypeOK
    <3>2. CASE Retry(o) \/ AcquireFails(o) \/ Release(o) \/ ReleaseFails(o)
      BY <3>1, <3>2 DEF Retry, AcquireFails, Release, ReleaseFails, GiveUp, Idle, HandlerState
    <3>3. CASE Acquire(o) \/ ReadPage(o) \/ CommandFails(o) \/ WritePage(o) \/ WriteBoardOnly(o)
      BY <3>1, <3>3 DEF Acquire, ReadPage, CommandFails, WritePage, WriteBoardOnly, Goto, HandlerState
    <3>4. QED BY <1>8, <3>2, <3>3 DEF Handler
  <2>4. QED BY <2>1, <2>2, <2>3, TickUntouched
<1>9. ASSUME NEW t \in Teachers, NEW s \in StrokeIds, NEW p \in Pages, BeginStroke(t, s, p) PROVE TickInv'
  BY <1>9, TickUntouched DEF BeginStroke
<1>10. ASSUME NEW p \in Pages, ExpireLock(p) PROVE TickInv'
  <2>1. \A o \in Ops : op'[o].pc = op[o].pc
    <3> TAKE o \in Ops
    <3>1. op[o] \in HandlerState /\ op'[o] = IF o = lock[p] THEN [op[o] EXCEPT !.expired = TRUE] ELSE op[o]
      BY <1>10 DEF TypeOK, ExpireLock
    <3>2. QED BY <3>1 DEF HandlerState
  <2>2. QED BY <1>10, <2>1, TickUntouched DEF ExpireLock
<1>11. ASSUME NEW p \in Pages, ExpireBoard(p) \/ ExpireMeta(p) PROVE TickInv'
  BY <1>11, TickUntouched DEF ExpireBoard, ExpireMeta
<1>12. CASE UNCHANGED vars
  BY <1>12, TickUntouched DEF vars
<1>13. QED
  BY <1>1, <1>2, <1>3, <1>4, <1>5, <1>6, <1>7, <1>8, <1>9, <1>10, <1>11, <1>12 DEF Next

\* The ticks a room was sent increase within one life of the process, for any
\* number of handlers, if its init promises ran one at a time.
THEOREM TicksRight == Spec => []TicksInOrder
<1>1. Init => TickInv
  BY DEF Init, TickInv, TicksInOrder, Now, Idle
<1>2. TickInv => TicksInOrder
  BY DEF TickInv
<1>3. QED BY <1>1, <1>2, NextTicks, TypeCorrect, PTL DEF Spec

-----------------------------------------------------------------------------
(* The stored pages implement PageStore                                    *)

\* A handler that has a tick was broadcast with it, and a key that is not there
\* has no strokes.
Announced ==
  \A o \in Ops : op[o].pc \in {"lock", "read", "write", "release"} =>
    \E i \in DOMAIN log : log[i].t = op[o].tick /\ log[i].req = op[o].req
GoneIsBlank == \A p \in Pages : ~board[p].present => board[p].t = Blank

StoreInv == LockInv /\ Announced /\ GoneIsBlank

\* What the broadcasts look like after a step.
LEMMA LogGrows ==
  ASSUME TypeOK, NEW o \in Ops, NEW r \in Requests, TakeTick(o, r)
  PROVE  /\ \A i \in DOMAIN log : i \in DOMAIN log' /\ log'[i] = log[i]
         /\ \E e : /\ e.t = tick.n + 1 /\ e.req = r
                   /\ {log'[i] : i \in DOMAIN log'} = {log[i] : i \in DOMAIN log} \cup {e}
                   /\ \E i \in DOMAIN log' : log'[i] = e
         /\ \A q \in Ops : q # o => op'[q] = op[q]
         /\ op'[o].pc \in {"lock", "idle"}
         /\ op'[o].pc = "lock" => op'[o].tick = tick.n + 1 /\ op'[o].req = r
<1> DEFINE e == [t |-> tick.n + 1, epoch |-> epoch, req |-> r]
<1>1. log \in Seq(Broadcasts) /\ e \in Broadcasts /\ log' = Append(log, e)
  BY DEF TypeOK, Broadcasts, TakeTick
<1>2. e.t = tick.n + 1 /\ e.req = r
  OBVIOUS
<1>3. /\ Len(log) \in Nat /\ DOMAIN log = 1..Len(log) /\ DOMAIN log' = 1..(Len(log) + 1)
      /\ log'[Len(log) + 1] = e /\ \A i \in 1..Len(log) : log'[i] = log[i]
  <2> HIDE DEF e
  <2>1. QED BY <1>1
<1> HIDE DEF e
<1>4. \A i \in DOMAIN log : i \in DOMAIN log' /\ log'[i] = log[i]
  BY <1>3
<1>5. {log'[i] : i \in DOMAIN log'} = {log[i] : i \in DOMAIN log} \cup {e}
  BY <1>3
<1>6. \E i \in DOMAIN log' : log'[i] = e
  BY <1>3
<1>7. \A q \in Ops : q # o => op'[q] = op[q]
  BY DEF TakeTick, TypeOK
<1>8. /\ op'[o].pc \in {"lock", "idle"}
      /\ op'[o].pc = "lock" => op'[o].tick = tick.n + 1 /\ op'[o].req = r
  BY DEF TakeTick, TypeOK, Idle
<1>9. QED BY <1>2, <1>4, <1>5, <1>6, <1>7, <1>8

\* Announced in a step that broadcasts nothing and gives no handler a tick.
LEMMA AnnouncedStays ==
  ASSUME Announced, log' = log,
         \A o \in Ops : op'[o].pc \in {"lock", "read", "write", "release"} =>
           /\ op[o].pc \in {"lock", "read", "write", "release"}
           /\ op'[o].tick = op[o].tick /\ op'[o].req = op[o].req
  PROVE  Announced'
BY DEF Announced

\* The slots that a step of handler o leaves alone, and what o keeps.
LEMMA HandlerKeeps ==
  ASSUME TypeOK, NEW o \in Ops, Handler(o), ~InitDone(o), ~Resume(o)
  PROVE  /\ log' = log
         /\ \A q \in Ops : q # o => op'[q] = op[q]
         /\ op'[o].pc # "idle" => /\ op[o].pc \in {"lock", "read", "write", "release"}
                                  /\ op'[o].tick = op[o].tick /\ op'[o].req = op[o].req
                                  /\ op'[o].expired = op[o].expired
         /\ op'[o].pc = "write" => ReadPage(o) /\ op'[o].strokes = board[op[o].req.page].t
<1>1. op \in [Ops -> HandlerState] /\ op[o] \in HandlerState
  BY DEF TypeOK
<1>2. CASE GiveUp(o) /\ log' = log
  BY <1>1, <1>2 DEF GiveUp, Idle
<1>3. CASE Acquire(o) \/ WritePage(o)
  BY <1>1, <1>3 DEF Acquire, WritePage, Goto, HandlerState
<1>4. CASE Retry(o)
  BY <1>1, <1>2, <1>4 DEF Retry, HandlerState
<1>5. CASE ReadPage(o)
  BY <1>1, <1>5 DEF ReadPage, HandlerState
<1>6. CASE CommandFails(o) \/ WriteBoardOnly(o)
  BY <1>1, <1>6 DEF CommandFails, WriteBoardOnly, HandlerState
<1>7. QED
  BY <1>2, <1>3, <1>4, <1>5, <1>6 DEF Handler, AcquireFails, Release, ReleaseFails

\* The slots and the board in every other step but Restart and those that take a
\* tick: only marks change.
LEMMA OthersKeep ==
  ASSUME TypeOK,
         \/ \E t \in Teachers : TeacherJoins(t) \/ TeacherMoves(t) \/ TeacherDisconnects(t)
         \/ \E s \in Students : StudentJoins(s) \/ StudentMoves(s) \/ StudentDisconnects(s)
         \/ EndSession
         \/ \E t \in Teachers, s \in StrokeIds, p \in Pages : BeginStroke(t, s, p)
         \/ \E t \in Teachers, o \in Ops, r \in Requests : DrawFirst(t, o, r)
         \/ \E o \in Ops : InitDone(o)
         \/ UNCHANGED vars
  PROVE  /\ UNCHANGED <<log, redisVars>>
         /\ \A o \in Ops :
              \/ /\ op'[o].pc = op[o].pc /\ op'[o].tick = op[o].tick /\ op'[o].req = op[o].req
                 /\ op'[o].strokes = op[o].strokes /\ op'[o].expired = op[o].expired
                 /\ op'[o].destructive = op[o].destructive
              \/ op[o].pc \in {"idle", "init"} /\ op'[o].pc \in {"init", "resume"}
<1> USE DEF redisVars, tickVars, socketVars
<1>0. op \in [Ops -> HandlerState]
  BY DEF TypeOK
<1>1. CASE op' = op /\ UNCHANGED <<log, redisVars>>
  BY <1>1
<1>2. CASE ForgetPending /\ UNCHANGED <<log, redisVars>>
  BY <1>0, <1>2 DEF ForgetPending, HandlerState
<1>3. ASSUME NEW t \in Teachers, NEW o \in Ops, NEW r \in Requests, DrawFirst(t, o, r)
      PROVE  /\ UNCHANGED <<log, redisVars>>
             /\ op[o].pc = "idle" /\ op'[o].pc = "init" /\ \A q \in Ops : q # o => op'[q] = op[q]
  BY <1>0, <1>3 DEF DrawFirst, Idle
<1>4. ASSUME NEW i \in Ops, InitDone(i)
      PROVE  /\ UNCHANGED <<log, redisVars>>
             /\ \A o \in Ops : op'[o] = op[o] \/ (op[o].pc = "init" /\ op'[o].pc = "resume")
  <2>1. \A o \in Ops : op'[o] = IF op[o].pc = "init" /\ op[o].wait = i
                                 THEN [op[o] EXCEPT !.pc = "resume", !.wait = None] ELSE op[o]
    BY <1>4 DEF InitDone
  <2>2. QED BY <1>0, <1>4, <2>1 DEF InitDone, HandlerState
<1>5. CASE \E t \in Teachers, o \in Ops, r \in Requests : DrawFirst(t, o, r)
  BY <1>3, <1>5
<1>6. CASE \E o \in Ops : InitDone(o)
  BY <1>4, <1>6
<1>7. QED
  BY <1>1, <1>2, <1>5, <1>6 DEF TeacherJoins, TeacherMoves, TeacherDisconnects, StudentJoins,
     StudentMoves, StudentDisconnects, EndSession, BeginStroke, vars

LEMMA NextStore == StoreInv /\ [Next]_vars => StoreInv'
<1> SUFFICES ASSUME StoreInv, [Next]_vars PROVE StoreInv'
  OBVIOUS
<1>0. LockInv' /\ TypeOK /\ TypeOK' /\ LockInv /\ Announced /\ GoneIsBlank
  BY NextLock DEF StoreInv, LockInv
<1> USE DEF redisVars, tickVars, socketVars
<1>1. CASE Restart
  <2>1. UNCHANGED board /\ \A o \in Ops : op'[o].pc = "idle"
    BY <1>1 DEF Restart, Idle
  <2>2. QED BY <1>0, <2>1 DEF StoreInv, Announced, GoneIsBlank
<1>2. ASSUME NEW o \in Ops, NEW r \in Requests, TakeTick(o, r), board' = board PROVE StoreInv'
  <2>1. Announced'
    <3> SUFFICES ASSUME NEW q \in Ops, op'[q].pc \in {"lock", "read", "write", "release"}
                 PROVE  \E i \in DOMAIN log' : log'[i].t = op'[q].tick /\ log'[i].req = op'[q].req
      BY DEF Announced
    <3>1. CASE q = o
      BY <1>0, <1>2, <3>1, LogGrows
    <3>2. CASE q # o
      BY <1>0, <1>2, <3>2, LogGrows DEF Announced
    <3>3. QED BY <3>1, <3>2
  <2>2. QED BY <1>0, <1>2, <2>1 DEF StoreInv, GoneIsBlank
<1>3. ASSUME NEW o \in Ops, Handler(o), ~InitDone(o), ~Resume(o) PROVE StoreInv'
  <2>1. Announced'
    BY <1>0, <1>3, HandlerKeeps, AnnouncedStays
  <2>2. GoneIsBlank'
    <3>1. CASE board' = board
      BY <1>0, <3>1 DEF GoneIsBlank
    <3>2. CASE board' # board
      <4>1. \E new : board' = [board EXCEPT ![op[o].req.page] = [present |-> TRUE, t |-> new]]
        BY <1>3, <3>2 DEF Handler, Acquire, Retry, AcquireFails, ReadPage, CommandFails, WritePage,
           WriteBoardOnly, Release, ReleaseFails, StoreBoard
      <4>2. \A p \in Pages : board'[p] = board[p] \/ board'[p].present
        BY <1>0, <4>1 DEF TypeOK
      <4>3. QED BY <1>0, <4>2 DEF GoneIsBlank
    <3>3. QED BY <3>1, <3>2
  <2>3. QED BY <1>0, <2>1, <2>2 DEF StoreInv
<1>4. CASE \/ \E t \in Teachers : TeacherJoins(t) \/ TeacherMoves(t) \/ TeacherDisconnects(t)
           \/ \E s \in Students : StudentJoins(s) \/ StudentMoves(s) \/ StudentDisconnects(s)
           \/ EndSession
           \/ \E t \in Teachers, s \in StrokeIds, p \in Pages : BeginStroke(t, s, p)
           \/ \E t \in Teachers, o \in Ops, r \in Requests : DrawFirst(t, o, r)
           \/ \E o \in Ops : InitDone(o)
           \/ UNCHANGED vars
  <2>1. Announced' /\ board' = board
    BY <1>0, <1>4, OthersKeep, AnnouncedStays
  <2>2. QED BY <1>0, <2>1 DEF StoreInv, GoneIsBlank
<1>5. ASSUME NEW p \in Pages, ExpireLock(p) PROVE StoreInv'
  <2>1. \A o \in Ops : op'[o].pc = op[o].pc /\ op'[o].tick = op[o].tick /\ op'[o].req = op[o].req
    <3> TAKE o \in Ops
    <3>1. op[o] \in HandlerState /\ op'[o] = IF o = lock[p] THEN [op[o] EXCEPT !.expired = TRUE] ELSE op[o]
      BY <1>0, <1>5 DEF TypeOK, ExpireLock
    <3>2. QED BY <3>1 DEF HandlerState
  <2>2. board' = board /\ log' = log
    BY <1>5 DEF ExpireLock
  <2>3. Announced'
    BY <1>0, <2>1, <2>2, AnnouncedStays
  <2>4. QED BY <1>0, <2>2, <2>3 DEF StoreInv, GoneIsBlank
<1>6. ASSUME NEW p \in Pages, ExpireBoard(p) \/ ExpireMeta(p) PROVE StoreInv'
  <2>1. op' = op /\ log' = log
    BY <1>6 DEF ExpireBoard, ExpireMeta
  <2>2. \A q \in Pages : board'[q] = board[q] \/ board'[q].t = Blank
    BY <1>0, <1>6 DEF ExpireBoard, ExpireMeta, TypeOK, NoBoard
  <2>3. Announced' /\ GoneIsBlank'
    BY <1>0, <2>1, <2>2 DEF Announced, GoneIsBlank
  <2>4. QED BY <1>0, <2>3 DEF StoreInv
<1>7. ASSUME NEW t \in Teachers, NEW o \in Ops, NEW r \in Requests, Draw(t, o, r) PROVE StoreInv'
  BY <1>2, <1>7 DEF Draw
<1>8. ASSUME NEW o \in Ops, Resume(o) PROVE StoreInv'
  BY <1>0, <1>2, <1>8 DEF Resume, TypeOK
<1>9. QED
  BY <1>1, <1>3, <1>4, <1>5, <1>6, <1>7, <1>8 DEF Next

LEMMA InitStore == Init => StoreInv
<1> SUFFICES ASSUME Init PROVE StoreInv
  OBVIOUS
<1>1. Announced
  BY DEF Init, Announced, Idle
<1>2. GoneIsBlank
  BY DEF Init, GoneIsBlank, NoBoard
<1>3. QED BY <1>1, <1>2, InitLock DEF StoreInv

\* Of a page that is not marked the store has what its one writer read, or what
\* is in the key.
Writes(o, p) == op[o].pc = "write" /\ op[o].req.page = p

StoredShape ==
  \A p \in Pages \ overran :
    /\ (board[p].present \/ \A o \in Ops : ~Writes(o, p)) => StoredPage(p) = board[p].t
    /\ \A o \in Ops : Writes(o, p) => StoredPage(p) = op[o].strokes

LEMMA StoredIs == LockInv => StoredShape
<1> SUFFICES ASSUME LockInv, NEW p \in Pages \ overran
             PROVE  /\ (board[p].present \/ \A o \in Ops : ~Writes(o, p)) => StoredPage(p) = board[p].t
                    /\ \A o \in Ops : Writes(o, p) => StoredPage(p) = op[o].strokes
  BY DEF StoredShape
<1>1. CASE \A o \in Ops : ~Writes(o, p)
  <2>1. Building(p) = {}
    BY <1>1 DEF Building, Writes
  <2>2. QED BY <1>1, <2>1 DEF StoredPage
<1>2. ASSUME NEW o \in Ops, Writes(o, p)
      PROVE  /\ StoredPage(p) = op[o].strokes
             /\ board[p].present => StoredPage(p) = board[p].t
  <2>1. ~op[o].expired
    BY <1>2 DEF LockInv, ExpiredIsMarked, Writes
  <2>2. Building(p) = {o}
    <3>1. o \in Building(p)
      BY <1>2, <2>1 DEF Building, Writes
    <3>2. ASSUME NEW q \in Building(p) PROVE q = o
      BY <1>2, <3>2, AloneOnPage DEF Building, Writes, Critical
    <3>3. QED BY <3>1, <3>2
  <2>3. CASE board[p].present
    BY <1>2, <2>3 DEF StoredPage, LockInv, EditsCurrentPage, Writes
  <2>4. CASE ~board[p].present
    <3>1. (CHOOSE q \in Building(p) : TRUE) = o
      BY <2>2
    <3>2. QED BY <2>2, <2>4, <3>1 DEF StoredPage
  <2>5. QED BY <2>3, <2>4
<1>3. QED BY <1>1, <1>2

LEMMA StoredIsNext == LockInv' => StoredShape'
BY StoredIs, PTL

\* A page stays that keeps its key and its writer.
LEMMA SamePage ==
  ASSUME StoredShape, StoredShape', NEW p \in Pages, p \notin overran, p \notin overran', board'[p] = board[p],
         \A o \in Ops : Writes(o, p)' <=> Writes(o, p),
         \A o \in Ops : Writes(o, p) => op'[o].strokes = op[o].strokes
  PROVE  StoredPage(p)' = StoredPage(p)
<1>1. CASE \A o \in Ops : ~Writes(o, p)
  BY <1>1 DEF StoredShape
<1>2. ASSUME NEW o \in Ops, Writes(o, p) PROVE StoredPage(p)' = StoredPage(p)
  BY <1>2 DEF StoredShape
<1>3. QED BY <1>1, <1>2

\* The state of PageStore that the refinement mapping gives.
Page  == [p \in Pages \ overran |-> StoredPage(p)]
Edits == {log[i] : i \in DOMAIN log}
StoreStep == [Store!Announce \/ Store!Store \/ Store!Expire \/ Store!Outlive]_<<Page, Edits>>

LEMMA Stutters ==
  ASSUME overran' = overran, log' = log, \A p \in Pages \ overran : StoredPage(p)' = StoredPage(p)
  PROVE  StoreStep
<1>1. Page' = Page
  BY DEF Page
<1>2. Edits' = Edits
  BY DEF Edits
<1>3. QED BY <1>1, <1>2 DEF StoreStep

LEMMA Announces ==
  ASSUME overran' = overran, \A p \in Pages \ overran : StoredPage(p)' = StoredPage(p),
         NEW e, Edits' = Edits \cup {e}
  PROVE  StoreStep
<1>1. Page' = Page
  BY DEF Page
<1>2. Store!Announce
  BY <1>1 DEF Store!Announce, Page, Edits
<1>3. QED BY <1>2 DEF StoreStep

LEMMA Expires ==
  ASSUME overran' = overran, log' = log,
         \A p \in Pages \ overran : StoredPage(p)' = StoredPage(p) \/ StoredPage(p)' = Blank
  PROVE  StoreStep
<1> DEFINE gone == {p \in Pages \ overran : StoredPage(p)' = Blank}
<1>1. Page' = [p \in DOMAIN Page |-> IF p \in gone THEN Store!EmptyPage ELSE Page[p]]
  BY DEF Page, Store!EmptyPage, Blank
<1>2. gone \in SUBSET DOMAIN Page
  BY DEF Page
<1>3. Edits' = Edits
  BY DEF Edits
<1> HIDE DEF gone
<1>4. Store!Expire
  BY <1>1, <1>2, <1>3 DEF Store!Expire, Page, Edits
<1>5. QED BY <1>4 DEF StoreStep

LEMMA Outlives ==
  ASSUME NEW x \in Pages \ overran, overran' = overran \cup {x}, log' = log,
         \A p \in Pages \ overran' : StoredPage(p)' = StoredPage(p)
  PROVE  StoreStep
<1>1. Page' = [q \in DOMAIN Page \ {x} |-> Page[q]] /\ x \in DOMAIN Page
  BY DEF Page
<1>2. Edits' = Edits
  BY DEF Edits
<1>3. Store!Outlive
  BY <1>1, <1>2 DEF Store!Outlive, Page, Edits
<1>4. QED BY <1>3 DEF StoreStep

LEMMA Stores ==
  ASSUME NEW x \in Pages \ overran, overran' = overran, log' = log,
         \A p \in Pages \ overran : p # x => StoredPage(p)' = StoredPage(p),
         NEW e \in Edits, e.req.page = x, StoredPage(x)' = Store!Apply(StoredPage(x), e)
  PROVE  StoreStep
<1>1. Page' = [Page EXCEPT ![e.req.page] = Store!Apply(Page[e.req.page], e)]
  BY DEF Page
<1>2. Edits' = Edits
  BY DEF Edits
<1>3. Store!Store
  BY <1>1, <1>2 DEF Store!Store, Page, Edits
<1>4. QED BY <1>3 DEF StoreStep

\* The edit a handler makes of the strokes it read is that of its broadcast.
LEMMA EditIsApply ==
  ASSUME NEW strokes \in Strokes, NEW r \in Requests, NEW e, e.req = r
  PROVE  Edit(strokes, r, e.t) = Store!Apply(strokes, e)
<1>1. CASE r.kind = "de"
  BY <1>1 DEF Edit, Store!Apply, Strokes, Requests
<1>2. CASE r.kind = "un"
  BY <1>2 DEF Edit, Store!Apply, Strokes, Requests
<1>3. CASE r.kind = "cl"
  BY <1>3 DEF Edit, Store!Apply, Strokes, Requests, Blank
<1>4. QED BY <1>1, <1>2, <1>3 DEF Requests

\* Every step of a handler under the lock is one of PageStore.
LEMMA HandlerStores ==
  ASSUME StoreInv, StoreInv', NEW o \in Ops, Handler(o), ~InitDone(o), ~Resume(o)
  PROVE  StoreStep
<1> USE DEF redisVars, tickVars, socketVars
<1>0. TypeOK /\ LockInv /\ LockInv' /\ StoredShape /\ StoredShape'
  BY StoredIs, StoredIsNext DEF StoreInv, LockInv
<1>1. /\ log' = log /\ overran' = overran
      /\ \A q \in Ops : q # o => op'[q] = op[q]
      /\ op'[o].pc = "write" => ReadPage(o) /\ op'[o].strokes = board[op[o].req.page].t
      /\ op'[o].pc # "idle" => op'[o].req = op[o].req
  <2>1. overran' = overran
    BY DEF Handler, Acquire, Retry, AcquireFails, ReadPage, CommandFails, WritePage, WriteBoardOnly, Release, ReleaseFails
  <2>2. QED BY <1>0, <2>1, HandlerKeeps
<1>a. PICK x : x = op[o].req.page
  OBVIOUS
<1>2. \A p : p # x => ~Writes(o, p) /\ ~Writes(o, p)'
  BY <1>0, <1>1, <1>a, HandlerKeeps DEF Writes
<1>3. CASE WritePage(o) \/ WriteBoardOnly(o)
  <2>1. op[o].pc = "write" /\ StoreBoard(o, x) /\ op[o].req \in Requests /\ x \in Pages
    BY <1>0, <1>3, <1>a DEF WritePage, WriteBoardOnly, TypeOK, Requests
  <2>2. \A p \in Pages : p # x => board'[p] = board[p]
    BY <1>0, <2>1 DEF StoreBoard, TypeOK
  <2>3. \A p \in Pages \ overran : p # x => StoredPage(p)' = StoredPage(p)
    <3> SUFFICES ASSUME NEW p \in Pages \ overran, p # x PROVE StoredPage(p)' = StoredPage(p)
      OBVIOUS
    <3>1. \A q \in Ops : (Writes(q, p)' <=> Writes(q, p)) /\ (Writes(q, p) => op'[q].strokes = op[q].strokes)
      BY <1>1, <1>2 DEF Writes
    <3>2. QED BY <1>0, <1>1, <2>2, <3>1, SamePage
  <2>4. CASE x \in overran
    BY <1>1, <2>3, <2>4, Stutters
  <2>5. CASE x \notin overran
    <3>1. StoredPage(x) = op[o].strokes
      BY <1>0, <1>a, <2>1, <2>5 DEF StoredShape, Writes
    <3>2. StoredPage(x)' = Edit(op[o].strokes, op[o].req, op[o].tick)
      <4>1. board'[x].present /\ board'[x].t = Edit(op[o].strokes, op[o].req, op[o].tick)
        BY <1>0, <2>1 DEF StoreBoard, TypeOK
      <4>2. x \in Pages \ overran'
        BY <1>1, <2>1, <2>5
      <4>3. QED BY <1>0, <4>1, <4>2 DEF StoredShape
    <3>3. PICK i \in DOMAIN log : log[i].t = op[o].tick /\ log[i].req = op[o].req
      BY <2>1 DEF StoreInv, Announced
    <3>4. op[o].strokes \in Strokes
      BY <1>0 DEF TypeOK, HandlerState
    <3>5. StoredPage(x)' = Store!Apply(StoredPage(x), log[i])
      BY <2>1, <3>1, <3>2, <3>3, <3>4, EditIsApply
    <3>6. log[i] \in Edits /\ log[i].req.page = x
      BY <1>a, <3>3 DEF Edits
    <3>7. QED BY <1>1, <2>1, <2>3, <2>5, <3>5, <3>6, Stores
  <2>6. QED BY <2>4, <2>5
<1>4. CASE ~(WritePage(o) \/ WriteBoardOnly(o))
  <2>1. board' = board
    BY <1>4 DEF Handler, Acquire, Retry, AcquireFails, ReadPage, CommandFails, Release, ReleaseFails
  <2>2. ASSUME NEW p \in Pages \ overran PROVE StoredPage(p)' = StoredPage(p) \/ StoredPage(p)' = Blank
    <3>1. CASE Writes(o, p)' <=> Writes(o, p)
      <4>1. \A q \in Ops : Writes(q, p)' <=> Writes(q, p)
        BY <1>1, <3>1 DEF Writes
      <4>2. ASSUME NEW q \in Ops, Writes(q, p) PROVE op'[q].strokes = op[q].strokes
        BY <1>1, <2>1, <3>1, <4>2 DEF Writes, ReadPage
      <4>3. QED BY <1>0, <1>1, <2>1, <4>1, <4>2, SamePage
    <3>2. CASE Writes(o, p)' /\ ~Writes(o, p)
      <4>1. p = x /\ ReadPage(o) /\ op'[o].strokes = board[p].t
        BY <1>1, <1>2, <1>a, <3>2 DEF Writes
      <4>2. StoredPage(p)' = board[p].t
        BY <1>0, <1>1, <3>2, <4>1 DEF StoredShape
      <4>3. ASSUME NEW q \in Ops, Writes(q, p) PROVE FALSE
        <5>1. op[o].pc = "read" /\ op[o].req.page = p
          BY <1>a, <4>1 DEF ReadPage
        <5>2. q = o
          BY <1>0, <4>3, <5>1, AloneOnPage DEF Writes, Critical
        <5>3. QED BY <4>3, <5>1, <5>2 DEF Writes
      <4>4. StoredPage(p) = board[p].t
        BY <1>0, <4>3 DEF StoredShape
      <4>5. QED BY <4>2, <4>4
    <3>3. CASE ~Writes(o, p)' /\ Writes(o, p)
      <4>1. \A q \in Ops : q # o => ~Writes(q, p)
        BY <1>0, <3>3, AloneOnPage DEF Writes, Critical
      <4>2. \A q \in Ops : ~Writes(q, p)'
        BY <1>1, <3>3, <4>1 DEF Writes
      <4>3. StoredPage(p)' = board[p].t
        BY <1>0, <1>1, <2>1, <4>2 DEF StoredShape
      <4>4. CASE board[p].present
        BY <1>0, <4>3, <4>4 DEF StoredShape
      <4>5. CASE ~board[p].present
        BY <4>3, <4>5 DEF StoreInv, GoneIsBlank
      <4>6. QED BY <4>4, <4>5
    <3>4. QED BY <3>1, <3>2, <3>3
  <2>3. QED BY <1>1, <2>2, Expires
<1>5. QED BY <1>3, <1>4

\* Broadcasts, and steps that leave the pages and the locks alone.
LEMMA OthersStore ==
  ASSUME StoreInv, StoreInv', overran' = overran, board' = board,
         \A o \in Ops : op[o].pc = "write" \/ op'[o].pc = "write" =>
           /\ op'[o].pc = op[o].pc /\ op'[o].req = op[o].req /\ op'[o].strokes = op[o].strokes,
         log' = log \/ \E e : Edits' = Edits \cup {e}
  PROVE  StoreStep
<1>1. \A p \in Pages \ overran : StoredPage(p)' = StoredPage(p)
  <2> TAKE p \in Pages \ overran
  <2>1. \A q \in Ops : (Writes(q, p)' <=> Writes(q, p)) /\ (Writes(q, p) => op'[q].strokes = op[q].strokes)
    BY DEF Writes
  <2>2. StoredShape /\ StoredShape'
    BY StoredIs, StoredIsNext DEF StoreInv
  <2>3. QED BY <2>1, <2>2, SamePage
<1>2. QED BY <1>1, Stutters, Announces

LEMMA StepStores == StoreInv /\ StoreInv' /\ [Next]_vars => StoreStep
<1> SUFFICES ASSUME StoreInv, StoreInv', [Next]_vars PROVE StoreStep
  OBVIOUS
<1>0. TypeOK /\ LockInv /\ LockInv' /\ StoredShape /\ StoredShape'
  BY StoredIs, StoredIsNext DEF StoreInv, LockInv
<1> USE DEF redisVars, tickVars, socketVars
<1>1. CASE Restart
  <2>1. UNCHANGED <<board, log, overran>> /\ \A o \in Ops : op'[o].pc = "idle"
    BY <1>1 DEF Restart, Idle
  <2>2. ASSUME NEW p \in Pages \ overran PROVE StoredPage(p)' = StoredPage(p) \/ StoredPage(p)' = Blank
    <3>1. StoredPage(p)' = board[p].t
      BY <1>0, <2>1 DEF StoredShape, Writes
    <3>2. CASE board[p].present
      BY <1>0, <3>1, <3>2 DEF StoredShape
    <3>3. CASE ~board[p].present
      BY <3>1, <3>3 DEF StoreInv, GoneIsBlank
    <3>4. QED BY <3>2, <3>3
  <2>3. QED BY <2>1, <2>2, Expires
<1>2. ASSUME NEW o \in Ops, NEW r \in Requests, TakeTick(o, r), op[o].pc # "write", UNCHANGED <<board, overran>>
      PROVE  StoreStep
  <2>1. \E e : Edits' = Edits \cup {e}
    BY <1>0, <1>2, LogGrows DEF Edits
  <2>2. \A q \in Ops : op[q].pc = "write" \/ op'[q].pc = "write" => op'[q] = op[q]
    BY <1>0, <1>2, LogGrows
  <2>3. QED BY <1>2, <2>1, <2>2, OthersStore
<1>3. CASE \/ \E t \in Teachers : TeacherJoins(t) \/ TeacherMoves(t) \/ TeacherDisconnects(t)
           \/ \E s \in Students : StudentJoins(s) \/ StudentMoves(s) \/ StudentDisconnects(s)
           \/ EndSession
           \/ \E t \in Teachers, s \in StrokeIds, p \in Pages : BeginStroke(t, s, p)
           \/ \E t \in Teachers, o \in Ops, r \in Requests : DrawFirst(t, o, r)
           \/ \E o \in Ops : InitDone(o)
           \/ UNCHANGED vars
  BY <1>0, <1>3, OthersKeep, OthersStore
<1>4. ASSUME NEW x \in Pages, ExpireLock(x) PROVE StoreStep
  <2>1. UNCHANGED <<board, log>> /\ overran' \in {overran, overran \cup {x}}
    BY <1>4 DEF ExpireLock
  <2>2. \A o \in Ops : op'[o].pc = op[o].pc /\ op'[o].req = op[o].req /\ op'[o].strokes = op[o].strokes
    <3> TAKE o \in Ops
    <3>1. op[o] \in HandlerState /\ op'[o] = IF o = lock[x] THEN [op[o] EXCEPT !.expired = TRUE] ELSE op[o]
      BY <1>0, <1>4 DEF TypeOK, ExpireLock
    <3>2. QED BY <3>1 DEF HandlerState
  <2>3. CASE overran' = overran
    BY <2>1, <2>2, <2>3, OthersStore
  <2>4. CASE overran' # overran
    <3>1. x \notin overran /\ overran' = overran \cup {x}
      BY <2>1, <2>4
    <3>2. ASSUME NEW p \in Pages \ overran' PROVE StoredPage(p)' = StoredPage(p)
      <4>1. \A q \in Ops : (Writes(q, p)' <=> Writes(q, p)) /\ (Writes(q, p) => op'[q].strokes = op[q].strokes)
        BY <2>2 DEF Writes
      <4>2. QED BY <1>0, <2>1, <3>1, <4>1, SamePage
    <3>3. QED BY <2>1, <3>1, <3>2, Outlives
  <2>5. QED BY <2>3, <2>4
<1>5. ASSUME NEW x \in Pages, ExpireBoard(x) PROVE StoreStep
  <2>1. UNCHANGED <<op, log, overran>> /\ board' = [board EXCEPT ![x] = NoBoard]
    BY <1>5 DEF ExpireBoard
  <2>2. ASSUME NEW p \in Pages \ overran PROVE StoredPage(p)' = StoredPage(p) \/ StoredPage(p)' = Blank
    <3>0. \A q \in Ops : Writes(q, p)' <=> Writes(q, p)
      BY <2>1 DEF Writes
    <3>1. CASE p # x
      <4>1. board'[p] = board[p]
        BY <1>0, <2>1, <3>1 DEF TypeOK
      <4>2. QED BY <1>0, <2>1, <3>0, <4>1, SamePage
    <3>2. ASSUME NEW q \in Ops, Writes(q, p) PROVE StoredPage(p)' = StoredPage(p)
      BY <1>0, <2>1, <3>0, <3>2 DEF StoredShape
    <3>3. CASE p = x /\ \A q \in Ops : ~Writes(q, p)
      <4>1. board'[p].t = Blank
        BY <1>0, <2>1, <3>3 DEF TypeOK, NoBoard
      <4>2. QED BY <1>0, <2>1, <3>0, <3>3, <4>1 DEF StoredShape
    <3>4. QED BY <3>1, <3>2, <3>3
  <2>3. QED BY <2>1, <2>2, Expires
<1>6. ASSUME NEW x \in Pages, ExpireMeta(x) PROVE StoreStep
  BY <1>0, <1>6, OthersStore DEF ExpireMeta
<1>7. ASSUME NEW t \in Teachers, NEW o \in Ops, NEW r \in Requests, Draw(t, o, r) PROVE StoreStep
  BY <1>2, <1>7 DEF Draw
<1>8. ASSUME NEW o \in Ops, Resume(o) PROVE StoreStep
  BY <1>0, <1>2, <1>8 DEF Resume, TypeOK
<1>9. ASSUME NEW o \in Ops, Handler(o) PROVE StoreStep
  BY <1>3, <1>8, <1>9, HandlerStores
<1>10. QED
  BY <1>1, <1>3, <1>4, <1>5, <1>6, <1>7, <1>9 DEF Next

\* The stored pages implement PageStore: broadcast edits are applied to them one
\* at a time, for any number of pages and handlers and whatever fails, as long
\* as the lock of the page is not outlived.
THEOREM StoreImplements == Spec => StoreIsAtomic
<1>1. Init => Store!Init
  <2> SUFFICES ASSUME Init PROVE Store!Init
    OBVIOUS
  <2>1. StoredShape /\ overran = {} /\ log = <<>>
    BY InitLock, StoredIs DEF Init
  <2>2. \A p \in Pages : StoredPage(p) = Store!EmptyPage
    BY <2>1 DEF Init, StoredShape, Writes, Idle, NoBoard, Blank, Store!EmptyPage
  <2>3. Page = [p \in Pages |-> Store!EmptyPage] /\ Edits = {}
    BY <2>1, <2>2 DEF Page, Edits
  <2>4. QED BY <2>3 DEF Store!Init, Page, Edits
<1>2. StoreInv /\ StoreInv' /\ [Next]_vars =>
        [Store!Announce \/ Store!Store \/ Store!Expire \/ Store!Outlive]_(Store!vars)
  BY StepStores DEF StoreStep, Store!vars, Page, Edits
<1>3. QED BY <1>1, <1>2, InitStore, NextStore, PTL DEF Spec, StoreIsAtomic, Store!Spec

-----------------------------------------------------------------------------
(* What sync:state restores *)

\* Stroke s of page p is among the broadcasts with tick t.
DrawnWith(sent, p, s, t) == \E j \in DOMAIN sent : Draws(sent[j], p, s) /\ sent[j].t = t

\* What is stored, and what is about to be, was broadcast with the tick it is
\* stored with.
StrokesDrawn ==
  /\ \A i \in DOMAIN log : log[i].t > 0
  /\ \A p \in Pages, s \in StrokeIds : board[p].t[s] # 0 => DrawnWith(log, p, s, board[p].t[s])
  /\ \A o \in Ops, p \in Pages, s \in StrokeIds :
       Writes(o, p) /\ op[o].strokes[s] # 0 => DrawnWith(log, p, s, op[o].strokes[s])

\* A page from which a stroke was taken has the destructive flag, and so has what
\* its writer is about to store: a de that read the page before the stroke was
\* taken cannot clear the flag afterwards, for the lock is held in between.
MarksKept ==
  /\ \A p \in Pages : ~board[p].present => removed[p] = {}
  /\ \A p \in Pages \ (overran \cup half) :
       /\ board[p].present => meta[p].present
       /\ \A s \in removed[p] : board[p].t[s] = 0 => meta[p].destructive
       /\ \A o \in Ops : Writes(o, p) =>
            /\ op[o].req.kind # "de" => op[o].destructive
            /\ \A s \in removed[p] : op[o].strokes[s] = 0 => op[o].destructive

SyncInv == StoreInv /\ StrokesDrawn /\ MarksKept

\* What was broadcast stays so.
LEMMA DrawnStays ==
  ASSUME \A i \in DOMAIN log : i \in DOMAIN log' /\ log'[i] = log[i]
  PROVE  \A p, s, t : DrawnWith(log, p, s, t) => DrawnWith(log', p, s, t)
BY DEF DrawnWith

\* A step that keeps the keys of the pages, reads none and forgets no broadcast.
LEMMA SyncUntouched ==
  ASSUME SyncInv, StoreInv', UNCHANGED <<board, meta, half, removed>>, overran \subseteq overran',
         \A i \in DOMAIN log : i \in DOMAIN log' /\ log'[i] = log[i],
         \A i \in DOMAIN log' : log'[i].t > 0,
         \A o \in Ops : op'[o].pc = "write" =>
           /\ op[o].pc = "write" /\ op'[o].req = op[o].req
           /\ op'[o].strokes = op[o].strokes /\ op'[o].destructive = op[o].destructive
  PROVE  SyncInv'
<1>1. \A o \in Ops, p \in Pages : Writes(o, p)' =>
        Writes(o, p) /\ op'[o].req = op[o].req /\ op'[o].strokes = op[o].strokes
        /\ op'[o].destructive = op[o].destructive
  BY DEF Writes
<1>2. StrokesDrawn'
  <2>1. \A p \in Pages, s \in StrokeIds : board'[p].t[s] # 0 => DrawnWith(log', p, s, board[p].t[s])
    BY DrawnStays DEF SyncInv, StrokesDrawn
  <2>2. ASSUME NEW o \in Ops, NEW p \in Pages, NEW s \in StrokeIds, Writes(o, p)', op'[o].strokes[s] # 0
        PROVE  DrawnWith(log', p, s, op'[o].strokes[s])
    <3>1. Writes(o, p) /\ op'[o].strokes = op[o].strokes
      BY <1>1, <2>2
    <3>2. DrawnWith(log, p, s, op[o].strokes[s])
      BY <2>2, <3>1 DEF SyncInv, StrokesDrawn
    <3>3. QED BY <3>1, <3>2, DrawnStays
  <2>3. QED BY <2>1, <2>2 DEF StrokesDrawn
<1>3. MarksKept'
  BY <1>1 DEF SyncInv, MarksKept
<1>4. QED BY <1>2, <1>3 DEF SyncInv

\* The handler that reads a page finds the flag, if it is there, and keeps it.
LEMMA SyncRead ==
  ASSUME SyncInv, StoreInv', NEW o \in Ops, ReadPage(o)
  PROVE  SyncInv'
<1> USE DEF redisVars
<1>1. PICK x \in Pages : x = op[o].req.page
  BY DEF ReadPage, SyncInv, StoreInv, LockInv, TypeOK, Requests
<1>2. /\ UNCHANGED <<board, meta, half, overran, removed, log>>
      /\ \A q \in Ops : q # o => op'[q] = op[q]
      /\ op'[o].req = op[o].req /\ op'[o].strokes = board[x].t
      /\ op'[o].destructive = PrevDestructive(op[o].req, x)
      /\ op'[o].pc = "write"
  BY <1>1 DEF ReadPage, SyncInv, StoreInv, LockInv, TypeOK, HandlerState
<1>3. \A q \in Ops, p \in Pages : q # o => (Writes(q, p)' <=> Writes(q, p))
  BY <1>2 DEF Writes
<1>4. \A p \in Pages : Writes(o, p)' <=> p = x
  BY <1>1, <1>2 DEF Writes
<1>5. StrokesDrawn'
  <2>1. ASSUME NEW q \in Ops, NEW p \in Pages, NEW s \in StrokeIds, Writes(q, p)', op'[q].strokes[s] # 0
        PROVE  DrawnWith(log, p, s, op'[q].strokes[s])
    <3>1. CASE q = o
      BY <1>2, <1>4, <2>1, <3>1 DEF SyncInv, StrokesDrawn
    <3>2. CASE q # o
      <4>1. Writes(q, p) /\ op'[q] = op[q]
        BY <1>2, <1>3, <2>1, <3>2
      <4>2. QED BY <2>1, <4>1 DEF SyncInv, StrokesDrawn
    <3>3. QED BY <3>1, <3>2
  <2>2. QED BY <1>2, <2>1 DEF SyncInv, StrokesDrawn
<1>6. MarksKept'
  <2>1. ASSUME NEW p \in Pages \ (overran \cup half), NEW q \in Ops, Writes(q, p)'
        PROVE  /\ op'[q].req.kind # "de" => op'[q].destructive
               /\ \A s \in removed[p] : op'[q].strokes[s] = 0 => op'[q].destructive
    <3>1. CASE q = o
      <4>1. p = x
        BY <1>4, <2>1, <3>1
      <4>2. \A s \in removed[x] : board[x].t[s] = 0 => meta[x].destructive
        BY <4>1 DEF SyncInv, MarksKept
      <4>3. QED BY <1>2, <3>1, <4>1, <4>2 DEF PrevDestructive
    <3>2. CASE q # o
      <4>1. Writes(q, p) /\ op'[q] = op[q]
        BY <1>2, <1>3, <2>1, <3>2
      <4>2. QED BY <4>1 DEF SyncInv, MarksKept
    <3>3. QED BY <3>1, <3>2
  <2>2. QED BY <1>2, <2>1 DEF SyncInv, MarksKept
<1>7. QED BY <1>5, <1>6 DEF SyncInv

\* A page that expires has nothing left to be taken from it.
LEMMA SyncExpire ==
  ASSUME SyncInv, StoreInv', NEW x \in Pages, ExpireBoard(x) \/ ExpireMeta(x)
  PROVE  SyncInv'
<1>0. /\ board \in [Pages -> [present : BOOLEAN, t : Strokes]]
      /\ meta \in [Pages -> [present : BOOLEAN, tick : Nat, destructive : BOOLEAN]]
      /\ removed \in [Pages -> SUBSET StrokeIds]
  BY DEF SyncInv, StoreInv, LockInv, TypeOK
<1>1. UNCHANGED <<op, overran, half, log>> /\ \A o \in Ops : \A p : Writes(o, p)' <=> Writes(o, p)
  BY DEF ExpireBoard, ExpireMeta, Writes
<1>2. CASE ExpireBoard(x)
  <2>1. /\ meta' = meta /\ \A p \in Pages : p # x => board'[p] = board[p] /\ removed'[p] = removed[p]
        /\ board'[x] = NoBoard /\ removed'[x] = {}
    BY <1>0, <1>2 DEF ExpireBoard
  <2>2. ~board'[x].present /\ \A s \in StrokeIds : board'[x].t[s] = 0
    BY <2>1 DEF NoBoard, Blank
  <2>3. \A p \in Pages, s \in StrokeIds : board'[p].t[s] # 0 => board'[p] = board[p]
    BY <2>1, <2>2
  <2>4. StrokesDrawn'
    BY <1>1, <2>3 DEF SyncInv, StrokesDrawn
  <2>5. MarksKept'
    BY <1>1, <2>1, <2>2 DEF SyncInv, MarksKept
  <2>6. QED BY <2>4, <2>5 DEF SyncInv
<1>3. CASE ExpireMeta(x)
  <2>1. /\ UNCHANGED <<board, removed>> /\ \A p \in Pages : p # x => meta'[p] = meta[p]
        /\ x \notin half => ~board[x].present
    BY <1>0, <1>3 DEF ExpireMeta
  <2>2. StrokesDrawn'
    BY <1>1, <2>1 DEF SyncInv, StrokesDrawn
  <2>3. MarksKept'
    <3>1. x \notin half => removed[x] = {}
      BY <2>1 DEF SyncInv, MarksKept
    <3>2. QED BY <1>1, <2>1, <3>1 DEF SyncInv, MarksKept
  <2>4. QED BY <2>2, <2>3 DEF SyncInv
<1>4. QED BY <1>2, <1>3

\* A stroke of the edited page is one that was read, or that of the de, and a de
\* takes no stroke from the page.
LEMMA EditAdds ==
  ASSUME NEW strokes \in Strokes, NEW r \in Requests, NEW n \in Nat \ {0}, NEW s \in StrokeIds
  PROVE  /\ Edit(strokes, r, n)[s] # 0 =>
              \/ Edit(strokes, r, n)[s] = strokes[s]
              \/ Edit(strokes, r, n)[s] = n /\ \A p : r.page = p => r = [kind |-> "de", sId |-> s, page |-> p]
         /\ r.kind = "de" /\ Edit(strokes, r, n)[s] = 0 => strokes[s] = 0
<1>1. CASE r.kind = "de"
  <2>1. r = [kind |-> "de", sId |-> r.sId, page |-> r.page]
    BY <1>1 DEF Requests
  <2>2. Edit(strokes, r, n)[s] = IF s = r.sId THEN n ELSE strokes[s]
    BY <1>1 DEF Edit, Strokes
  <2>3. CASE s = r.sId
    BY <2>1, <2>2, <2>3
  <2>4. CASE s # r.sId
    BY <2>2, <2>4
  <2>5. QED BY <2>3, <2>4
<1>2. CASE r.kind = "un"
  BY <1>2 DEF Edit, Strokes
<1>3. CASE r.kind = "cl"
  BY <1>3 DEF Edit, Blank
<1>4. QED BY <1>1, <1>2, <1>3 DEF Requests

\* What a handler stores was broadcast, and carries the flag that it read or set.
LEMMA SyncWrite ==
  ASSUME SyncInv, StoreInv', NEW o \in Ops, WritePage(o) \/ WriteBoardOnly(o)
  PROVE  SyncInv'
<1> DEFINE x == op[o].req.page
           new == Edit(op[o].strokes, op[o].req, op[o].tick)
<1>0. TypeOK /\ LockInv
  BY DEF SyncInv, StoreInv, LockInv
<1>1. /\ op[o].pc = "write" /\ StoreBoard(o, x) /\ op[o].req \in Requests /\ x \in Pages
      /\ op[o].strokes \in Strokes /\ op[o].tick \in Nat
  BY <1>0 DEF WritePage, WriteBoardOnly, TypeOK, Requests, HandlerState
<1>2. /\ UNCHANGED <<log, overran>> /\ op'[o].pc = "release" /\ \A q \in Ops : q # o => op'[q] = op[q]
      /\ half \subseteq half' /\ \A p \in Pages : p # x => meta'[p] = meta[p]
      /\ x \notin half' => meta'[x].present /\ meta'[x].destructive = op[o].destructive
  <2>1. CASE WritePage(o)
    BY <1>0, <1>1, <2>1 DEF WritePage, Goto, TypeOK, HandlerState
  <2>2. CASE WriteBoardOnly(o)
    BY <1>0, <1>1, <2>2 DEF WriteBoardOnly, TypeOK, HandlerState
  <2>3. QED BY <2>1, <2>2
<1>3. /\ board'[x].present /\ board'[x].t = new
      /\ removed'[x] = removed[x] \cup {s \in StrokeIds : board[x].t[s] # 0 /\ new[s] = 0}
      /\ \A p \in Pages : p # x => board'[p] = board[p] /\ removed'[p] = removed[p]
  BY <1>0, <1>1 DEF StoreBoard, TypeOK
<1>4. PICK i \in DOMAIN log : log[i].t = op[o].tick /\ log[i].req = op[o].req
  BY <1>1 DEF SyncInv, StoreInv, Announced
<1>5. op[o].tick \in Nat \ {0}
  BY <1>1, <1>4 DEF SyncInv, StrokesDrawn
<1>6. \A s \in StrokeIds :
        /\ new[s] # 0 => \/ new[s] = op[o].strokes[s]
                         \/ new[s] = op[o].tick /\ op[o].req = [kind |-> "de", sId |-> s, page |-> x]
        /\ op[o].req.kind = "de" /\ new[s] = 0 => op[o].strokes[s] = 0
  BY <1>1, <1>5, EditAdds
<1>7. Writes(o, x) /\ x \in Pages
  BY <1>1 DEF Writes
<1> HIDE DEF x, new
<1>8. \A q \in Ops, p \in Pages : Writes(q, p)' => Writes(q, p) /\ q # o /\ op'[q] = op[q]
  BY <1>2 DEF Writes
<1>9. StrokesDrawn'
  <2>1. ASSUME NEW s \in StrokeIds, new[s] # 0 PROVE DrawnWith(log, x, s, new[s])
    <3>1. CASE new[s] = op[o].strokes[s]
      BY <1>7, <2>1, <3>1 DEF SyncInv, StrokesDrawn
    <3>2. CASE new[s] = op[o].tick /\ op[o].req = [kind |-> "de", sId |-> s, page |-> x]
      BY <1>4, <3>2 DEF DrawnWith, Draws
    <3>3. QED BY <1>6, <2>1, <3>1, <3>2
  <2>2. ASSUME NEW p \in Pages, NEW s \in StrokeIds, board'[p].t[s] # 0
        PROVE  DrawnWith(log, p, s, board'[p].t[s])
    <3>1. CASE p = x
      BY <1>3, <2>1, <2>2, <3>1
    <3>2. CASE p # x
      <4>1. board'[p] = board[p]
        BY <1>3, <3>2
      <4>2. QED BY <2>2, <4>1 DEF SyncInv, StrokesDrawn
    <3>3. QED BY <3>1, <3>2
  <2>3. ASSUME NEW q \in Ops, NEW p \in Pages, NEW s \in StrokeIds, Writes(q, p)', op'[q].strokes[s] # 0
        PROVE  DrawnWith(log, p, s, op'[q].strokes[s])
    <3>1. Writes(q, p) /\ op'[q] = op[q]
      BY <1>8, <2>3
    <3>2. QED BY <2>3, <3>1 DEF SyncInv, StrokesDrawn
  <2>4. QED BY <1>2, <2>2, <2>3 DEF SyncInv, StrokesDrawn
<1>10. MarksKept'
  <2>1. \A p \in Pages : ~board'[p].present => removed'[p] = {}
    BY <1>3 DEF SyncInv, MarksKept
  <2>2. ASSUME x \notin overran, x \notin half', NEW s \in removed'[x], new[s] = 0
        PROVE  op[o].destructive
    <3>1. x \in Pages \ (overran \cup half)
      BY <1>2, <1>7, <2>2
    <3>2. CASE op[o].req.kind # "de"
      BY <1>7, <3>1, <3>2 DEF SyncInv, MarksKept
    <3>3. CASE op[o].req.kind = "de"
      <4>1. s \in StrokeIds
        BY <1>0, <1>3, <1>7, <2>2 DEF TypeOK
      <4>2. op[o].strokes[s] = 0
        BY <1>6, <2>2, <3>3, <4>1
      <4>3. CASE s \in removed[x]
        BY <1>7, <3>1, <4>2, <4>3 DEF SyncInv, MarksKept
      <4>4. CASE board[x].t[s] # 0
        <5>1. board[x].present
          BY <1>7, <4>1, <4>4 DEF SyncInv, StoreInv, GoneIsBlank, Blank
        <5>2. op[o].strokes = board[x].t
          BY <1>0, <1>7, <2>2, <5>1 DEF LockInv, EditsCurrentPage, Writes
        <5>3. QED BY <4>2, <4>4, <5>2
      <4>5. QED BY <1>3, <2>2, <4>3, <4>4
    <3>4. QED BY <3>2, <3>3
  <2>3. ASSUME NEW q \in Ops, NEW p \in Pages, p = x, Writes(q, p)', x \notin overran PROVE FALSE
    <3>1. Writes(q, x) /\ q # o
      BY <1>8, <2>3
    <3>2. QED BY <1>0, <1>7, <2>3, <3>1, AloneOnPage DEF Writes, Critical
  <2>4. ASSUME NEW p \in Pages \ (overran' \cup half')
        PROVE  /\ board'[p].present => meta'[p].present
               /\ \A s \in removed'[p] : board'[p].t[s] = 0 => meta'[p].destructive
               /\ \A q \in Ops : Writes(q, p)' =>
                    /\ op'[q].req.kind # "de" => op'[q].destructive
                    /\ \A s \in removed'[p] : op'[q].strokes[s] = 0 => op'[q].destructive
    <3>1. CASE p = x
      BY <1>2, <1>3, <2>2, <2>3, <3>1
    <3>2. CASE p # x
      <4>1. p \in Pages \ (overran \cup half) /\ board'[p] = board[p] /\ meta'[p] = meta[p] /\ removed'[p] = removed[p]
        BY <1>2, <1>3, <3>2
      <4>2. QED BY <1>8, <4>1 DEF SyncInv, MarksKept
    <3>3. QED BY <3>1, <3>2
  <2>5. QED BY <2>1, <2>4 DEF MarksKept
<1>11. QED BY <1>9, <1>10 DEF SyncInv

LEMMA NextSync == SyncInv /\ [Next]_vars => SyncInv'
<1> SUFFICES ASSUME SyncInv, [Next]_vars PROVE SyncInv'
  OBVIOUS
<1>0. TypeOK /\ StoreInv' /\ \A i \in DOMAIN log : log[i].t > 0
  BY NextStore DEF SyncInv, StoreInv, LockInv, StrokesDrawn
<1> USE DEF redisVars, tickVars, socketVars
<1>1. CASE Restart
  <2>1. UNCHANGED <<board, meta, half, removed, overran, log>> /\ \A o \in Ops : op'[o].pc = "idle"
    BY <1>1 DEF Restart, Idle
  <2>2. QED BY <1>0, <2>1, SyncUntouched
<1>2. ASSUME NEW o \in Ops, NEW r \in Requests, TakeTick(o, r), UNCHANGED redisVars PROVE SyncInv'
  <2>1. \A i \in DOMAIN log : i \in DOMAIN log' /\ log'[i] = log[i]
    BY <1>0, <1>2, LogGrows
  <2>2. ASSUME NEW i \in DOMAIN log' PROVE log'[i].t > 0
    <3>1. PICK e : e.t = tick.n + 1 /\ {log'[j] : j \in DOMAIN log'} = {log[j] : j \in DOMAIN log} \cup {e}
      BY <1>0, <1>2, LogGrows
    <3>2. log'[i] \in {log'[j] : j \in DOMAIN log'}
      OBVIOUS
    <3>3. CASE log'[i] \in {log[j] : j \in DOMAIN log}
      BY <1>0, <3>3
    <3>4. CASE log'[i] = e
      BY <1>0, <3>1, <3>4 DEF TypeOK
    <3>5. QED BY <3>1, <3>2, <3>3, <3>4
  <2>3. \A q \in Ops : op'[q].pc = "write" => op'[q] = op[q]
    BY <1>0, <1>2, LogGrows
  <2>4. QED BY <1>0, <1>2, <2>1, <2>2, <2>3, SyncUntouched
<1>3. CASE \/ \E t \in Teachers : TeacherJoins(t) \/ TeacherMoves(t) \/ TeacherDisconnects(t)
           \/ \E s \in Students : StudentJoins(s) \/ StudentMoves(s) \/ StudentDisconnects(s)
           \/ EndSession
           \/ \E t \in Teachers, s \in StrokeIds, p \in Pages : BeginStroke(t, s, p)
           \/ \E t \in Teachers, o \in Ops, r \in Requests : DrawFirst(t, o, r)
           \/ \E o \in Ops : InitDone(o)
           \/ UNCHANGED vars
  BY <1>0, <1>3, OthersKeep, SyncUntouched
<1>4. ASSUME NEW o \in Ops, Resume(o) PROVE SyncInv'
  BY <1>0, <1>2, <1>4 DEF Resume, TypeOK
<1>5. ASSUME NEW o \in Ops, Handler(o) PROVE SyncInv'
  <2>1. CASE ReadPage(o)
    BY <1>0, <2>1, SyncRead
  <2>2. CASE WritePage(o) \/ WriteBoardOnly(o)
    BY <1>0, <2>2, SyncWrite
  <2>3. CASE Acquire(o) \/ Retry(o) \/ AcquireFails(o) \/ CommandFails(o) \/ Release(o) \/ ReleaseFails(o)
    <3>1. /\ UNCHANGED <<board, meta, half, removed, overran, log>>
          /\ \A q \in Ops : q # o => op'[q] = op[q]
          /\ op'[o].pc # "write"
      <4>1. op \in [Ops -> HandlerState] /\ op[o] \in HandlerState
        BY <1>0 DEF TypeOK
      <4>2. CASE Retry(o) \/ AcquireFails(o) \/ Release(o) \/ ReleaseFails(o)
        BY <4>1, <4>2 DEF Retry, AcquireFails, Release, ReleaseFails, GiveUp, Idle, HandlerState
      <4>3. CASE Acquire(o) \/ CommandFails(o)
        BY <4>1, <4>3 DEF Acquire, CommandFails, Goto, HandlerState
      <4>4. QED BY <2>3, <4>2, <4>3
    <3>2. QED BY <1>0, <3>1, SyncUntouched
  <2>4. QED BY <1>3, <1>4, <1>5, <2>1, <2>2, <2>3 DEF Handler
<1>6. ASSUME NEW x \in Pages, ExpireLock(x) PROVE SyncInv'
  <2>1. \A o \in Ops : /\ op'[o].pc = op[o].pc /\ op'[o].req = op[o].req
                       /\ op'[o].strokes = op[o].strokes /\ op'[o].destructive = op[o].destructive
    <3> TAKE o \in Ops
    <3>1. op[o] \in HandlerState /\ op'[o] = IF o = lock[x] THEN [op[o] EXCEPT !.expired = TRUE] ELSE op[o]
      BY <1>0, <1>6 DEF TypeOK, ExpireLock
    <3>2. QED BY <3>1 DEF HandlerState
  <2>2. UNCHANGED <<board, meta, half, removed, log>> /\ overran \subseteq overran'
    BY <1>6 DEF ExpireLock
  <2>3. QED BY <1>0, <2>1, <2>2, SyncUntouched
<1>7. ASSUME NEW x \in Pages, ExpireBoard(x) \/ ExpireMeta(x) PROVE SyncInv'
  BY <1>0, <1>7, SyncExpire
<1>8. ASSUME NEW t \in Teachers, NEW o \in Ops, NEW r \in Requests, Draw(t, o, r) PROVE SyncInv'
  BY <1>2, <1>8 DEF Draw
<1>9. QED
  BY <1>1, <1>3, <1>5, <1>6, <1>7, <1>8 DEF Next

\* At server start no page is stored and nothing was broadcast.
LEMMA InitSync == Init => SyncInv
<1> SUFFICES ASSUME Init PROVE SyncInv
  OBVIOUS
<1>1. /\ DOMAIN log = {} /\ \A o \in Ops : \A p : ~Writes(o, p)
      /\ \A p \in Pages : removed[p] = {} /\ ~board[p].present /\ \A s \in StrokeIds : board[p].t[s] = 0
  BY DEF Init, Idle, Writes, NoBoard, Blank
<1>2. QED BY <1>1, InitStore DEF SyncInv, StrokesDrawn, MarksKept

\* A client that was told the first n broadcasts in order has seen every stored
\* stroke that a delta leaves out drawn, and so shows it or saw it erased later.
LEMMA DeltaIsEnough ==
  ASSUME TypeOK, TickInv, ~forked, epoch = 0, NEW p \in Pages, NEW s \in StrokeIds,
         NEW n \in 1..Len(log), board[p].t[s] <= log[n].t, DrawnWith(log, p, s, board[p].t[s]),
         s \notin Canvas(p, n)
  PROVE  \E i \in 1..n : Erases(log[i], p, s) /\ log[i].t > board[p].t[s]
<1>1. /\ Len(log) \in Nat /\ DOMAIN log = 1..Len(log)
      /\ \A i \in DOMAIN log : log[i].t \in Nat /\ log[i].epoch \in Nat
  BY LogType
<1>2. \A i \in DOMAIN log : log[i].epoch = 0
  BY <1>1 DEF TickInv
<1>3. \A i, j \in DOMAIN log : i < j => log[i].t < log[j].t
  BY <1>2 DEF TickInv, TicksInOrder
<1>4. PICK j \in DOMAIN log : Draws(log[j], p, s) /\ log[j].t = board[p].t[s]
  BY DEF DrawnWith
<1>5. j \in 1..n
  <2>1. ~(n < j)
    BY <1>1, <1>3, <1>4
  <2>2. QED BY <1>1, <2>1
<1>6. PICK k \in j..n : Erases(log[k], p, s)
  BY <1>4, <1>5 DEF Canvas
<1>7. k # j
  BY <1>4, <1>6 DEF Erases, Draws
<1>8. k \in 1..n /\ k \in DOMAIN log /\ j < k
  BY <1>1, <1>5, <1>7
<1>9. QED BY <1>3, <1>4, <1>6, <1>8

\* What a client shows after it comes back is what is stored, whatever it missed
\* and whichever handlers, failures and expiries came between: the destructive
\* flag and the order of the ticks are enough for a delta.
THEOREM SyncsRestore == Spec => []SyncRestores
<1>1. SyncInv /\ TickInv => SyncRestores
  <2> SUFFICES ASSUME SyncInv, TickInv, NEW p \in Pages \ (overran \cup half), NEW n \in 0..Len(log),
                      NEW s \in StrokeIds, ~forked, ~astray, epoch = 0
               PROVE  /\ s \in Restored(p, n) /\ s \in removed[p] => board[p].t[s] # 0
                      /\ board[p].t[s] # 0 /\ s \notin Restored(p, n)
                           => \E i \in 1..n : Erases(log[i], p, s) /\ log[i].t > board[p].t[s]
    BY DEF SyncRestores
  <2>0. TypeOK /\ board[p].t[s] \in Nat
    BY DEF SyncInv, StoreInv, LockInv, TypeOK, Strokes
  <2> DEFINE last == IF n = 0 THEN 0 ELSE log[n].t
  <2>1. CASE ~CanDelta(p)
    <3>1. Restored(p, n) = {u \in StrokeIds : board[p].t[u] > 0}
      BY <2>1 DEF Restored, SyncState
    <3>2. QED BY <2>0, <3>1
  <2>2. CASE CanDelta(p)
    <3>1. Restored(p, n) = Canvas(p, n) \cup {u \in StrokeIds : board[p].t[u] > last}
      BY <2>2 DEF Restored, SyncState
    <3>2. s \in removed[p] => board[p].t[s] # 0
      BY <2>2 DEF CanDelta, SyncInv, MarksKept
    <3>3. ASSUME board[p].t[s] # 0, s \notin Restored(p, n)
          PROVE  \E i \in 1..n : Erases(log[i], p, s) /\ log[i].t > board[p].t[s]
      <4>1. s \notin Canvas(p, n) /\ ~(board[p].t[s] > last)
        BY <3>1, <3>3
      <4>2. n # 0
        BY <2>0, <3>3, <4>1
      <4>3. n \in 1..Len(log) /\ log[n].t \in Nat
        BY <2>0, <4>2, LogType
      <4>4. board[p].t[s] <= log[n].t
        BY <2>0, <4>1, <4>2, <4>3
      <4>5. DrawnWith(log, p, s, board[p].t[s])
        BY <3>3 DEF SyncInv, StrokesDrawn
      <4>6. QED BY <2>0, <4>1, <4>3, <4>4, <4>5, DeltaIsEnough
    <3>4. QED BY <3>2, <3>3
  <2>3. QED BY <2>1, <2>2
<1>2. Init => TickInv
  BY DEF Init, TickInv, TicksInOrder, Now, Idle
<1>3. QED
  BY <1>1, <1>2, InitSync, NextSync, NextTicks, TypeCorrect, PTL DEF Spec
-----------------------------------------------------------------------------
(* No handler is forgotten *)

\* Whoever waits for the tick waits for a promise that still runs, also when it was
\* dropped from the map; a promise that runs is that of a slot that waits for it, so
\* that a slot names one promise; nobody tries for the lock without end.
Awaited ==
  /\ \A o \in Ops : op[o].pc = "init" => op[o].wait \in initRunning
  /\ tickInit # None => tickInit \in initRunning
  /\ \A i \in initRunning : op[i].pc = "init" /\ op[i].wait = i
  /\ \A o \in Ops : op[o].tries <= MaxAttempts

\* How many commands and attempts are at most ahead of a handler.
Rank(h) ==
  CASE h.pc = "idle"    -> 0
    [] h.pc = "release" -> 1
    [] h.pc = "write"   -> 2
    [] h.pc = "read"    -> 3
    [] h.pc = "lock"    -> 4 + (MaxAttempts - h.tries)
    [] h.pc = "resume"  -> 5 + MaxAttempts
    [] h.pc = "init"    -> 6 + MaxAttempts

\* A step of a handler brings it nearer to its end, whatever the command answered,
\* and no step of anybody else takes a handler back.
Advance ==
  \A o \in Ops : /\ Handler(o) => Rank(op[o])' < Rank(op[o])
                 /\ op[o].pc # "idle" => Rank(op[o])' <= Rank(op[o])

\* A slot that is free or waits for the lock for the first time.
LEMMA FreshSlot ==
  ASSUME NEW r, NEW n
  PROVE  LET h == [Idle EXCEPT !.pc = "lock", !.req = r, !.tick = n, !.ownMap = TRUE]
         IN /\ Idle.pc = "idle" /\ Idle.tries = 0 /\ Idle.wait = None
            /\ h.pc = "lock" /\ h.tries = 0
BY DEF Idle

\* The handlers' states have ranks, in the order of their phases.
LEMMA Ranks ==
  ASSUME NEW h \in HandlerState, h.tries <= MaxAttempts
  PROVE  /\ Rank(h) \in Nat /\ Rank(h) <= 6 + MaxAttempts
         /\ h.pc = "lock" => 4 <= Rank(h) /\ Rank(h) <= 4 + MaxAttempts
BY WhiteboardAssumption DEF Rank, HandlerState, Phases

\* The steps of one handler that is not initialising the tick.
LEMMA OneAdvances ==
  ASSUME TypeOK, TypeOK', Awaited, NEW o \in Ops, Handler(o), ~InitDone(o)
  PROVE  /\ \A q \in Ops \ {o} : op'[q] = op[q]
         /\ op[o].pc # "init" /\ op'[o].pc # "init" /\ op[o].pc # "idle"
         /\ op'[o].tries <= MaxAttempts /\ Rank(op'[o]) < Rank(op[o])
         /\ UNCHANGED <<tickInit, initRunning>>
<1> USE WhiteboardAssumption
<1>0. op \in [Ops -> HandlerState] /\ op' \in [Ops -> HandlerState] /\ op[o].tries \in Nat /\ op[o].tries <= MaxAttempts
  BY DEF TypeOK, Awaited, HandlerState
<1>1. UNCHANGED <<tickInit, initRunning>>
  BY DEF Handler, Resume, Acquire, Retry, AcquireFails, ReadPage, CommandFails, WritePage, WriteBoardOnly,
         Release, ReleaseFails, tickVars
<1>2. CASE GiveUp(o) /\ op[o].pc \in {"lock", "release"}
  <2>1. op'[o].pc = "idle" /\ op'[o].tries = 0 /\ \A q \in Ops \ {o} : op'[q] = op[q]
    BY <1>0, <1>2, FreshSlot DEF GiveUp
  <2>2. Rank(op'[o]) = 0 /\ Rank(op[o]) > 0
    BY <1>0, <1>2, <2>1 DEF Rank
  <2>3. QED BY <1>1, <1>2, <2>1, <2>2
<1>3. CASE Resume(o)
  <2>1. op[o].pc = "resume" /\ \A q \in Ops \ {o} : op'[q] = op[q]
    BY <1>0, <1>3 DEF Resume, TakeTick
  <2>2. \/ op'[o].pc = "idle" /\ op'[o].tries = 0
        \/ op'[o].pc = "lock" /\ op'[o].tries = 0
    BY <1>0, <1>3, FreshSlot DEF Resume, TakeTick
  <2>3. Rank(op[o]) = 5 + MaxAttempts /\ Rank(op'[o]) <= 4 + MaxAttempts
    BY <2>1, <2>2 DEF Rank
  <2>4. Rank(op'[o]) \in Nat /\ Rank(op[o]) \in Nat
    BY <2>1, <2>2 DEF Rank
  <2>5. QED BY <1>1, <2>1, <2>2, <2>3, <2>4
<1>4. CASE Retry(o) /\ ~GiveUp(o)
  <2>1. /\ op[o].pc = "lock" /\ op[o].tries + 1 < MaxAttempts
        /\ op' = [op EXCEPT ![o].tries = @ + 1]
    BY <1>4 DEF Retry
  <2>2. /\ op'[o].pc = "lock" /\ op'[o].tries = op[o].tries + 1
        /\ \A q \in Ops \ {o} : op'[q] = op[q]
    BY <1>0, <2>1 DEF HandlerState
  <2>3. QED BY <1>0, <1>1, <2>1, <2>2 DEF Rank
<1>5. ASSUME NEW pc \in {"read", "release"}, NEW was \in {"lock", "write"}, Goto(o, pc), op[o].pc = was,
             was = "lock" <=> pc = "read"
      PROVE  /\ \A q \in Ops \ {o} : op'[q] = op[q]
             /\ op'[o].pc = pc /\ op'[o].tries = op[o].tries /\ Rank(op'[o]) < Rank(op[o])
  <2>1. op'[o].pc = pc /\ op'[o].tries = op[o].tries /\ \A q \in Ops \ {o} : op'[q] = op[q]
    BY <1>0, <1>5 DEF Goto, HandlerState
  <2>2. QED BY <1>0, <1>5, <2>1 DEF Rank
<1>6. CASE ReadPage(o)
  <2>1. /\ op[o].pc = "read" /\ op'[o].pc = "write" /\ op'[o].tries = op[o].tries
        /\ \A q \in Ops \ {o} : op'[q] = op[q]
    BY <1>0, <1>6 DEF ReadPage, HandlerState
  <2>2. QED BY <1>0, <1>1, <2>1 DEF Rank
<1>7. CASE CommandFails(o) \/ WriteBoardOnly(o)
  <2>1. /\ op[o].pc \in {"read", "write"} /\ op'[o].pc = "release" /\ op'[o].tries = op[o].tries
        /\ \A q \in Ops \ {o} : op'[q] = op[q]
    BY <1>0, <1>7 DEF CommandFails, WriteBoardOnly, HandlerState
  <2>2. QED BY <1>0, <1>1, <2>1 DEF Rank
<1>8. CASE Acquire(o) \/ WritePage(o)
  <2>1. \/ Goto(o, "read") /\ op[o].pc = "lock"
        \/ Goto(o, "release") /\ op[o].pc = "write"
    BY <1>8 DEF Acquire, WritePage
  <2>2. QED BY <1>0, <1>1, <1>5, <2>1
<1>9. CASE AcquireFails(o) \/ Release(o) \/ ReleaseFails(o) \/ (Retry(o) /\ GiveUp(o))
  <2>1. GiveUp(o) /\ op[o].pc \in {"lock", "release"}
    BY <1>9 DEF AcquireFails, Release, ReleaseFails, Retry
  <2>2. QED BY <1>2, <2>1
<1>10. QED BY <1>3, <1>4, <1>6, <1>7, <1>8, <1>9 DEF Handler

\* The promise that settles: whoever waits for it goes on, and nobody else moves.
LEMMA InitAdvances ==
  ASSUME TypeOK, Awaited, NEW i \in Ops, InitDone(i)
  PROVE  /\ op[i].pc = "init" /\ op[i].wait = i
         /\ \A q \in Ops : \/ op'[q] = op[q] /\ ~(op[q].pc = "init" /\ op[q].wait = i)
                           \/ /\ op[q].pc = "init" /\ op[q].wait = i /\ op'[q].pc = "resume"
                              /\ op'[q].tries = op[q].tries /\ Rank(op'[q]) < Rank(op[q])
         /\ initRunning' = initRunning \ {i} /\ tickInit' = None
<1>1. op[i].pc = "init" /\ op[i].wait = i /\ initRunning' = initRunning \ {i} /\ tickInit' = None
  BY DEF InitDone, Awaited
<1>2. ASSUME NEW q \in Ops, op[q].pc = "init", op[q].wait = i
      PROVE  op'[q].pc = "resume" /\ op'[q].tries = op[q].tries /\ Rank(op'[q]) < Rank(op[q])
  <2>1. op[q] \in HandlerState /\ op'[q] = [op[q] EXCEPT !.pc = "resume", !.wait = None]
    BY <1>2 DEF InitDone, TypeOK
  <2>2. op'[q].pc = "resume" /\ op'[q].tries = op[q].tries
    BY <2>1 DEF HandlerState
  <2>3. Rank(op'[q]) = 5 + MaxAttempts /\ Rank(op[q]) = 6 + MaxAttempts
    BY <1>2, <2>2 DEF Rank
  <2>4. QED BY <2>2, <2>3, WhiteboardAssumption
<1>3. ASSUME NEW q \in Ops, ~(op[q].pc = "init" /\ op[q].wait = i)
      PROVE  op'[q] = op[q]
  BY <1>3 DEF InitDone
<1>4. QED BY <1>1, <1>2, <1>3

\* What the other steps do to the handlers and the promises: nothing, but that the
\* promise of the map may be dropped; end them all; or put an idle slot to work.
PhasesStay ==
  /\ \A q \in Ops : /\ op'[q].pc = op[q].pc /\ op'[q].wait = op[q].wait
                    /\ op'[q].tries = op[q].tries
  /\ tickInit' \in {None, tickInit} /\ initRunning' = initRunning

AllRest ==
  /\ \A q \in Ops : op'[q].pc = "idle" /\ op'[q].tries = 0
  /\ tickInit' = None /\ initRunning' = {}

EventTakes(o) ==
  /\ op[o].pc = "idle" /\ op'[o].tries = 0
  /\ \A q \in Ops \ {o} : op'[q] = op[q]
  /\ \/ op'[o].pc \in {"idle", "lock"} /\ UNCHANGED <<tickInit, initRunning>>
     \/ /\ op'[o].pc = "init" /\ op'[o].wait = tickInit'
        /\ tickInit' = IF tickInit = None THEN o ELSE tickInit
        /\ tickInit' \in Ops /\ initRunning' = initRunning \cup {tickInit'}

\* What is not a handler's own step takes no handler back: sockets, drawing and
\* expiring keys leave the phases alone, the end of the session too; an event puts
\* an idle slot to work; a restart ends all.
LEMMA OthersAdvance ==
  ASSUME TypeOK, Awaited, [Next]_vars, ~(\E o \in Ops : Handler(o))
  PROVE  \/ PhasesStay
         \/ AllRest
         \/ \E o \in Ops : EventTakes(o)
<1> USE DEF tickVars
<1>0. op \in [Ops -> HandlerState]
  BY DEF TypeOK
<1>1. CASE Restart
  BY <1>1, FreshSlot DEF Restart, AllRest
<1>2. ASSUME NEW t \in Teachers, NEW o \in Ops, NEW r \in Requests, Draw(t, o, r)
      PROVE  EventTakes(o)
  BY <1>0, <1>2, FreshSlot DEF Draw, TakeTick, EventTakes
<1>3. ASSUME NEW t \in Teachers, NEW o \in Ops, NEW r \in Requests, DrawFirst(t, o, r)
      PROVE  EventTakes(o)
  <2> DEFINE w == IF tickInit = None THEN o ELSE tickInit
             h == [Idle EXCEPT !.pc = "init", !.req = r, !.wait = w]
  <2>1. w \in Ops
    BY DEF TypeOK
  <2>2. h.pc = "init" /\ h.wait = w /\ h.tries = 0
    BY DEF Idle
  <2>3. op' = [op EXCEPT ![o] = h] /\ tickInit' = w /\ initRunning' = initRunning \cup {w} /\ op[o].pc = "idle"
    BY <1>3 DEF DrawFirst
  <2> HIDE DEF w, h
  <2>4. op'[o] = h /\ \A x \in Ops \ {o} : op'[x] = op[x]
    BY <1>0, <2>3
  <2>5. QED BY <2>1, <2>2, <2>3, <2>4 DEF w, EventTakes
<1>4. ASSUME ForgetPending \/ UNCHANGED op
      PROVE  \A q \in Ops : /\ op'[q].pc = op[q].pc /\ op'[q].wait = op[q].wait
                            /\ op'[q].tries = op[q].tries
  <2>1. CASE ForgetPending
    <3>1. \A q \in Ops : op[q] \in HandlerState /\ op'[q] = [op[q] EXCEPT !.ownMap = FALSE]
      BY <1>0, <2>1 DEF ForgetPending
    <3>2. QED BY <3>1 DEF HandlerState
  <2>2. QED BY <1>4, <2>1
<1>5. ASSUME NEW p \in Pages, ExpireLock(p)
      PROVE  PhasesStay
  <2>1. \A q \in Ops : op[q] \in HandlerState
                       /\ (op'[q] = op[q] \/ op'[q] = [op[q] EXCEPT !.expired = TRUE])
    BY <1>0, <1>5 DEF ExpireLock
  <2>2. QED BY <1>5, <2>1 DEF HandlerState, ExpireLock, PhasesStay
<1>6. CASE \/ EndSession \/ UNCHANGED vars
           \/ \E t \in Teachers : TeacherJoins(t) \/ TeacherMoves(t) \/ TeacherDisconnects(t)
           \/ \E s \in Students : StudentJoins(s) \/ StudentMoves(s) \/ StudentDisconnects(s)
           \/ \E t \in Teachers, s \in StrokeIds, p \in Pages : BeginStroke(t, s, p)
           \/ \E p \in Pages : ExpireBoard(p) \/ ExpireMeta(p)
  <2>1. /\ ForgetPending \/ UNCHANGED op
        /\ tickInit' \in {None, tickInit} /\ initRunning' = initRunning
    BY <1>6 DEF EndSession, vars, TeacherJoins, TeacherMoves, TeacherDisconnects, StudentJoins, StudentMoves,
                StudentDisconnects, BeginStroke, ExpireBoard, ExpireMeta
  <2>2. QED BY <1>4, <2>1 DEF PhasesStay
<1>7. QED BY <1>1, <1>2, <1>3, <1>5, <1>6 DEF Next

\* At the start nobody waits.
LEMMA InitAwaited == Init => Awaited
<1>1. Init => \A o \in Ops : op[o].pc = "idle" /\ op[o].tries = 0
  BY FreshSlot DEF Init
<1>2. QED BY <1>1, WhiteboardAssumption DEF Init, Awaited

\* Every step keeps the promises awaited.
LEMMA NextAwaited == TypeOK /\ TypeOK' /\ Awaited /\ [Next]_vars => Awaited'
<1> SUFFICES ASSUME TypeOK, TypeOK', Awaited, [Next]_vars PROVE Awaited'
  OBVIOUS
<1> USE WhiteboardAssumption
<1>1. ASSUME NEW i \in Ops, InitDone(i) PROVE Awaited'
  <2>1. \A q \in Ops : op'[q].pc = "init" => op'[q] = op[q] /\ op[q].wait # i
    BY <1>1, InitAdvances
  <2>2. \A q \in Ops : op'[q].tries = op[q].tries
    BY <1>1, InitAdvances
  <2>3. initRunning' = initRunning \ {i} /\ tickInit' = None
    BY <1>1, InitAdvances
  <2>4. \A j \in initRunning' : op'[j] = op[j]
    <3>1. \A j \in initRunning \ {i} : j \in Ops /\ op[j].pc = "init" /\ op[j].wait = j /\ j # i
      BY DEF Awaited, TypeOK
    <3>2. QED BY <1>1, <2>3, <3>1, InitAdvances
  <2>5. QED BY <2>1, <2>2, <2>3, <2>4 DEF Awaited
<1>2. ASSUME NEW o \in Ops, Handler(o), ~InitDone(o) PROVE Awaited'
  <2>1. /\ \A q \in Ops \ {o} : op'[q] = op[q]
        /\ op[o].pc # "init" /\ op'[o].pc # "init" /\ op'[o].tries <= MaxAttempts
        /\ UNCHANGED <<tickInit, initRunning>>
    BY <1>2, OneAdvances
  <2>2. o \notin initRunning /\ initRunning \subseteq Ops
    BY <2>1 DEF Awaited, TypeOK
  <2>3. QED BY <2>1, <2>2 DEF Awaited
<1>3. CASE PhasesStay
  <2>1. initRunning' = initRunning /\ initRunning \subseteq Ops
    BY <1>3 DEF PhasesStay, TypeOK
  <2>2. \A q \in Ops : /\ op'[q].pc = op[q].pc /\ op'[q].wait = op[q].wait
                       /\ op'[q].tries = op[q].tries
    BY <1>3 DEF PhasesStay
  <2>3. tickInit' # None => tickInit' \in initRunning
    BY <1>3 DEF PhasesStay, Awaited
  <2>4. QED BY <2>1, <2>2, <2>3 DEF Awaited
<1>4. CASE AllRest
  BY <1>4 DEF AllRest, Awaited
<1>5. ASSUME NEW o \in Ops, EventTakes(o) PROVE Awaited'
  <2>1. o \notin initRunning /\ initRunning \subseteq Ops
    BY <1>5 DEF EventTakes, Awaited, TypeOK
  <2>2. tickInit' # None => tickInit' \in initRunning'
    BY <1>5 DEF EventTakes, Awaited
  <2>3. \A q \in Ops : op'[q].pc = "init" => op'[q].wait \in initRunning'
    BY <1>5 DEF EventTakes, Awaited
  <2>4. \A j \in initRunning' : op'[j].pc = "init" /\ op'[j].wait = j
    BY <1>5, <2>1 DEF EventTakes, Awaited
  <2>5. QED BY <1>5, <2>2, <2>3, <2>4 DEF EventTakes, Awaited
<1>6. QED BY <1>1, <1>2, <1>3, <1>4, <1>5, OthersAdvance

\* Nobody waits for a promise that nobody runs, however often disconnects and the
\* end of the session drop it from the map.
THEOREM NobodyForgotten == Spec => []Awaited
<1>1. TypeOK /\ TypeOK' /\ Awaited /\ [Next]_vars => Awaited'
  BY NextAwaited
<1>2. QED BY <1>1, InitAwaited, TypeCorrect, PTL DEF Spec

\* What the fairness of HandlersFinish is applied to: each step of a handler brings
\* it nearer to its end, and no other step takes it back.
THEOREM HandlersAdvance == Spec => [][Advance]_vars
<1>1. TypeOK /\ TypeOK' /\ Awaited /\ Awaited' /\ [Next]_vars => [Advance]_vars
  <2> SUFFICES ASSUME TypeOK, TypeOK', Awaited, Awaited', [Next]_vars, NEW o \in Ops
               PROVE  /\ Handler(o) => Rank(op[o])' < Rank(op[o])
                      /\ op[o].pc # "idle" => Rank(op[o])' <= Rank(op[o])
    BY DEF Advance
  <2> USE WhiteboardAssumption
  <2>0. /\ op[o] \in HandlerState /\ op'[o] \in HandlerState
        /\ op[o].tries <= MaxAttempts /\ op'[o].tries <= MaxAttempts
        /\ Rank(op[o]) \in Nat /\ Rank(op'[o]) \in Nat
    <3>1. /\ op[o] \in HandlerState /\ op'[o] \in HandlerState
          /\ op[o].tries <= MaxAttempts /\ op'[o].tries <= MaxAttempts
      BY DEF TypeOK, Awaited
    <3>2. QED BY <3>1, Ranks
  <2>1. ASSUME Handler(o) PROVE Rank(op'[o]) < Rank(op[o])
    BY <2>1, OneAdvances, InitAdvances
  <2>2. ASSUME NEW q \in Ops, Handler(q) PROVE op'[o] = op[o] \/ Rank(op'[o]) < Rank(op[o])
    BY <2>2, OneAdvances, InitAdvances
  <2>3. ASSUME ~(\E q \in Ops : Handler(q)), op[o].pc # "idle"
        PROVE  \/ op'[o].pc = op[o].pc /\ op'[o].tries = op[o].tries
               \/ op'[o].pc = "idle" \/ op'[o] = op[o]
    BY <2>3, OthersAdvance DEF PhasesStay, AllRest, EventTakes
  <2>4. ASSUME op[o].pc # "idle" PROVE Rank(op'[o]) <= Rank(op[o])
    <3>1. CASE op'[o] = op[o] \/ Rank(op'[o]) < Rank(op[o])
      BY <2>0, <3>1
    <3>2. CASE op'[o].pc = op[o].pc /\ op'[o].tries = op[o].tries
      <4>1. Rank(op'[o]) = Rank(op[o])
        BY <3>2 DEF Rank
      <4>2. QED BY <2>0, <4>1
    <3>3. CASE op'[o].pc = "idle"
      <4>1. Rank(op'[o]) = 0
        BY <3>3 DEF Rank
      <4>2. QED BY <2>0, <4>1
    <3>4. QED BY <2>2, <2>3, <2>4, <3>1, <3>2, <3>3
  <2>5. QED BY <2>1, <2>4
<1>2. QED BY <1>1, TypeCorrect, NobodyForgotten, PTL DEF Spec

=============================================================================
