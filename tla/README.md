# PenTalk server: TLA+ models, checks and proofs

PenTalk is a classroom server (Node.js, Socket.IO, Express, Prisma/PostgreSQL, Redis, S3).
Teachers draw on the pages of a material, students watch, answer polls and quizzes and ask
questions; when the session ends the whiteboard is archived to S3. Nearly all of it is
`src/server.js`. Line numbers below are lines of that file unless another file is named.

The server is one process with one event loop. Code between two `await`s is not interrupted, so
it is one action of a model; whatever waits for Redis, PostgreSQL or S3 can be overtaken by any
other handler. The hard behaviour of this program is therefore not threads, but handlers that
check something, wait, and act on what they saw, together with state that is split over four
places: maps in memory (lost at a restart), Redis keys (with a TTL), rows of the database and
files in S3.

## Inventory

| Component | State | Operations | What is hard, and what makes it correct |
|---|---|---|---|
| Whiteboard drawing and storage | `pendingStrokes`, `roomDrawTick`, `tickInitPromise`, `archivedSessions` (207-227, 316-317); Redis page keys `board`, `meta`, `lock:whiteboard:*` | `draw:append` ds/dm/de (3938-4171), `draw:clear` un/er/cl (4177-4290), `withWhiteboardLock` (296-313), `getNextTick` (319-350), disconnect (4320-4345), the end (1731-1745) | A page is one JSON value that is read, edited and written as a whole under a leased lock; broadcast precedes storage; tick restored by a promise shared by handlers. Correct: no lost update, no wrong delta, ticks in order, no handler stuck |
| Whiteboard synchronisation | reads the page keys and, after the end, the S3 file | `sync:request` (3181-3295) | What is stored lags behind what was broadcast, and two keys may disagree. Correct: a client that comes back shows what is stored, and a delta hides no erasure |
| Session lifecycle | `Session` and `SessionParticipant` rows, `session:<id>`, `user:<id>:lastSession`, `session:<id>:users`, page keys, `archivedSessions`, the S3 file | create (2278-2374), HTTP join (2382-2442), `join_room` (2944-3176), end (1619-1802) | The end is a dozen commands to three stores, any of which may fail; it may be retried and overlaps with joins and drawing. Correct: announced only when saved, complete, can always be tried again, nobody comes back by a cache |
| Presence | `presenceBySession`, `socket.data.roomId` | the tail of `join_room` (3136-3176), `disconnecting` (4294-4317) | Several sockets of one user; the new socket disconnects the old one from within its own handler. Correct: who is there is listed, a late disconnect takes nobody away |
| Polls | `activePolls` with a timer | `poll:start/answer/end` (3364-3486), `endPoll` (386-409), the end of the session | Late and repeated answers, timers of ended polls. Correct: one answer per student and per poll, no poll ended by another's timer |
| Questions | `Question` rows | `question:ask/list/answer` (3489-3689) | Two teachers answer at once; a student reconnects meanwhile, and is in the room some commands before it is in the presence. Correct: one answer, nothing missed |
| Quizzes | `QuizQuestion`, `QuizAnswer` rows, `activeQuizzes`, `quizStats`, `quiz:count:<user>:<day>` | REST 2490-2760, `quiz:activate/deactivate/submit` (3692-3893) | Check then insert; retried inserts; the active question and the statistics in memory beside rows; clients that miss events. Correct: limits hold, statistics are those of the rows, whoever has joined knows what is active |
| Teacher messages and chat | Redis Pub/Sub (`lib/redisPubSub.js`) | `dm`, chat relay | At-most-once delivery of Pub/Sub |
| Accounts and OAuth | `User` rows (unique login id, identity, email), the OAuth state and the one-time code in Redis, tokens that clients keep | 1868-1884 and 1919-2276: dev-login, signup, login, OAuth start and callback, the exchange of the code, the choice of the role, the student number | Look-up before insert; values that are read and deleted by two commands; answers that are lost after the commit. Correct: a code is worth one token, for the account of whoever consented; no two tokens that somebody logged in for tell different roles |
| Materials | `Material`, `MaterialPage` rows, S3 objects, `Session.materialId`, the copies of it in `session:<id>` and in each `user:<id>:lastSession` | upload to a session (2801-2916) and to a class (1180-1266), the session's material at creation and at a join, download (1381-1413) | The row is made first and cleaned up after a failure; the linked row and its copies change by several commands. Correct: nothing orphaned, the first upload stands, what is shown is there |
| PDF export | none | reads the archive or Redis | no state |
| Classes, subjects, tags, maps | rows | REST | one or two queries each |

How they interact: `join_room` is entered through the session lifecycle (which room, is it
archived, the caches) and ends in presence (who is listed, which socket is cut off). The end
handler of a session reads what drawing stored, then, in one step without a wait, blocks drawing,
drops tick and unfinished strokes, ends the poll and drops the quiz. Questions and direct answers
find a student's socket through presence. `disconnect` drops whiteboard state of the room.

## The models

Each module translates its component; the map from definitions to source lines is in
`PROJECT.json`. In all of them a handler in flight is a slot (`Ops`, `Requests`, `Enders`, ...)
with a `pc` that names the command it waits for, and **a command and the code its reply resumes
are one action**. That is a merge of two steps (the command takes effect in the store, the reply is
processed here); the two are separate only where something is lost by merging: failures "after the
commit, before the reply" are actions of their own (`WriteBoardOnly`, `CreateFails`, `AskFails`,
`AnswerFails`), and where another handler can come between the row and the code after it the
models have two steps (`UpdateRow`/`UpdateTell`, `DeleteRow`/`DeleteTell`, `SubmitCreate`/`Tally`,
`AnswerUpdate`/`AnswerTell`, `ListRead`/`ListSend`). `Restart` stands for any death of the process,
also by a rejection that no handler catches; a key's TTL running out is an action. History
variables (named so in the modules) record what properties speak about; no guard reads them.

* **`Whiteboard`** – one room. `Draw`/`DrawFirst`/`Resume` take a tick and broadcast (`TakeTick`);
  `DrawFirst`/`InitDone` are the init promise of `getNextTick`; `Acquire`, `Retry`, `ReadPage`,
  `WritePage`, `Release` are `withWhiteboardLock` and the callback under it, with their failing
  variants; `ExpireLock` is the lock's PX. A stroke is its id with the tick it was stored
  under. `un` and `er` differ only in their name and are one kind. `dm` changes nothing and is left
  out. What the room saw is `log`. `sync:request` changes nothing and sends its GETs together, so
  it is no action but the operators `CanDelta` and `SyncState`, the answer in a state; `Canvas` is
  what a client shows after a number of events and `Restored` what it shows after a sync.
  `TeacherMoves` and `StudentMoves` are `join_room` for another room: the socket leaves, and what it
  began stays, as a stroke of `Elsewhere`. A handler whose socket moves while it waits for its tick
  broadcasts in the room its socket is in by then; `astray` records it, in either direction.
* **`PageStore`** – what the stored whiteboard promises, without locks, handlers or failures: pages
  that change by one announced edit at a time, or expire. A page whose lock was outlived leaves it
  (`Outlive`). `Whiteboard!StoreIsAtomic` is the refinement.
* **`SessionLifecycle`** – one session: `CreateRow`, `CreateKey`; `JoinStart` ... `JoinSave` is
  `join_room` with the cache hit and miss; `EndStart` ... `EndPurge` is the end handler, one action
  per command, with `UploadFails`/`EndRollback` and `EndThrows`/`EndFails` for its two ways to fail.
  A stroke is on a page or not, and `Erase`/`EraseStore` take one, or a page, off it again;
  `Whiteboard` has the detail (here a store is one step, and no lease is outlived). The commands of a
  pipeline fail one by one and unnoticed, as `exec()` of ioredis answers with their outcomes
  (`JoinSave`, `EndFade`, `EndUsers`, `EndPurge`; an EXPIRE of `session:<id>:users` that failed, so that
  the set runs out before an entry, counts as the SADD that failed). Any other command throws, or
  takes effect and throws all the same (`Answered`). SCAN is one action: its guarantee (all
  keys there from the first call to the last) is what the code relies on. Pages that were given their
  short TTL (`fading`) may expire at any time after. The HTTP join only reads what the server stores
  and is left out.
* **`SessionPromise`** – what the end of a session promises, without requests, processes or failing
  commands: attempts that close, save all that is owed, are given up, or archive; what is owed shrinks
  by erasures and expiry only (`Vanish`); only what is saved is archived, only what is archived is
  told, and what is archived is final.
  `SessionLifecycle!EndKeepsPromise` is the refinement; the status is seen as `Phase`, ACTIVE and FAILED
  both as open.
* **`Presence`** – the tail of `join_room`, `disconnecting`, and the nested run of that handler
  inside `oldSocket.disconnect(true)` (`Kicked`, `Without`, `MapDropped`, `JoinRegister`). The
  checks of `join_room` are one step here.
* **`Poll`** – all handlers run without a wait, so each is one action; answers on their way and
  timers are what overlaps.
* **`QuizQuestions`** – the REST handlers that create, edit, delete, the activation, and the clients
  (external): a screen is the question of the last quiz event the client got. `Enter`, `Greet` and
  `Leave` are what `join_room` and a disconnect do to who gets them; a client that comes back may
  still show what it showed; `Restart` forgets what was active. A client that enters while its join
  of another session is under way is `crossing`: that join goes on to send it the other session's
  question (`GreetElsewhere`). The text of a question is left out.
  Its general names begin with `QQ`, so that one module can prove about it and about `Poll`.
* **`QuizAnswers`** – `quiz:submit` in class, `POST quiz/submit` after the end, the daily counter
  and the statistics. An answer is its verdict.
* **`Questions`** – ask, list, answer. A socket is used once; `Enter` puts it into the room, where
  requests are taken and teachers are reached, and `Register`, some commands later, into the presence,
  through which answers find a student (with the map that is dropped, as in `Presence`). The clients
  (external) keep what a socket was sent since it entered. `Reached` says who gets the events.
* **`Material`** – one session with the uploads to it and to its class. A material is named by the
  request that uploads it. `CreateCheck`, `CreateRow`, `CreateKey` create the session with or without
  a material; `UploadStep` collects the commands of both uploads (rasterising is one step that
  succeeds or throws), the clean-up of what failed, and `sessionStore.update` as the GET and the SET it
  is; `JoinStart` ... `JoinSave` is what a join does with the material; `MayDownload` is the
  check of the download; `EndMoves` takes the row to CLOSING and ARCHIVED.
* **`Accounts`** – an account is named by the signup or callback that makes it, a one-time code by
  its callback, a state by its flow. A token is its account, the role it tells, and whether somebody
  logged in for it (`auth`) or asked `POST /auth/dev-login` (`dev`), which signs any role for any
  user id in every build; of the handlers here only `SetNumber` takes the latter, too. The provider
  and the browser are external: they consent once per flow and may call back any number of times.
* **`MC*`** – constant values for TLC. **`WhiteboardProofs`, `PresenceProofs`, `SessionProofs`,
  `ActivityProofs`, `QuestionsProofs`, `QuizAnswersProofs`, `MaterialProofs`, `AccountsProofs`** –
  theorems.

The operators marked `Mutant:` are wrong versions of the definition that follows them. They are not
used by any specification; each stands for a plausible mistake and is listed in `PROJECT.json` with
the property that detects it when it takes the place of the definition.

## Runs

Run them with `tlc -config <run>.cfg <MC module>`.

| Run | Instance | What it shows |
|---|---|---|
| `WhiteboardPages` | one teacher, two strokes, one page, two handlers, 3 events; leases outlived, failing commands, expiring keys | `LeaseExclusive`: of the handlers on a page only the owner has a lease that holds. `SyncRestores`: whoever was cut off after any event is brought up to date. `StoreIsAtomic`: the pages implement `PageStore`, so that no update is lost unless a lease was outlived |
| `WhiteboardRoom` | one teacher, one student, one stroke, de and un, two handlers, 2 events; sockets leave and change rooms, the session ends, a restart | `TicksInOrder` within a process life with one init promise at a time, `NoOrphanedStroke`; under fairness `HandlersFinish` |
| `WhiteboardTickMonotone` | one stroke, a restart | *violation*: see Findings |
| `SessionEnd` | one user, a page with a stroke that may be erased, three attempts, two faults among failed upload, failed command, lost answer and restart; expiring keys | `EndedAfterSaved`, `ArchiveHasWhatWasStored`, `PurgeIsComplete`; `EndKeepsPromise`: the handler implements `SessionPromise`; under fairness `EndSucceeds` |
| `SessionLateWrites` | one attempt, no fault | *violation*: see Findings |
| `PresenceList` | two sockets of one user, one of another, two rooms, two joins in flight | `Listed`, `OldSocketTakesNothing` |
| `Polls` | two students, two options, two polls, two answers on their way | `CountsAgree`, `CountsThisPoll`, `TimersAreExact`; under fairness `TimedPollEnds` |
| `QuizQuestions` | limit 2, three ids, two requests, two clients, restarts | `AtMostThree`, `QuizIsSeen` |
| `QuizAnswers` | two students, one question, two requests, limit 1, one fault, one midnight | `StatsAgree`, `NothingUncounted`, `DailyLimit`, `FirstAnswerStands` |
| `QuestionsShown` | a student with two sockets, a teacher with one, one question, two answers, two requests, one fault, two moves (a list asked for, a socket that leaves) | `OneAnswer`, `NothingMissed` |
| `SessionMaterial` | two uploads to the session, one to its class, one user, two faults among failed commands, lost answers and restarts; expiring keys | `NoOrphan`, `FirstUploadStands`, `ShownIsAvailable` |
| `AccountsLogin` | one signup with one login id, one token of dev-login, two flows, callbacks, exchanges and choices of a role, two identities with one email address, two faults of the same kinds; expiring values | `OneTokenPerCode`, `CodeNamesIdentity`, `TokensTellRole` |

Each module's `TypeOK` is checked by the run that checks most of its invariants.

**Bounds.** Two handlers are the least that race; a third would wait where the second does, because
a page has one lock and a row one writer at a time. Three events let one stroke be drawn, erased and
drawn again, or be erased while another is drawn. `MaxAttempts` is 1 instead of 11: a handler may
stay at the lock for as long as others act, and `Retry` ends it by LOCK_TIMEOUT; more attempts only
wait longer. The limits (11 attempts, 3 questions, 2 retries a day) are constants, and the small
values keep the comparison the same (`>=`, `>`). One fault is enough for "commits but the reply is
lost", two for a failure of an attempt and of its retry, or of a request and of its clean-up;
`SessionEnd` has a third attempt, so that one is left after two failures. Two polls are the least
with a late answer and an old timer. One page is enough in the runs of `Whiteboard`, since keys and
locks of two pages do not meet (the one thing it hides, pages that expire together, is in the proof
of `StoreImplements`). `Kinds` leaves `cl` out of `WhiteboardRoom`, where with one stroke it does
what `un` does. `SessionEnd` has one page too, which an attempt may find or miss (`EndScanOnce`),
fade and lose; the proof of `ArchiveComplete` has any number. Its one user leaves, comes back and is
purged or missed like any other. `QuestionsShown` has the two sockets of one student that its
hypotheses are about; the two answers race in two requests of one teacher, since the handler does
not ask which teacher it was. One signup is enough, because no property speaks of two: the unique
login id decides, as the unique email does for the two callbacks. Two uploads race for the one
material of a session, and the third, to the class, replaces it. Two identities are the least with
one email address. The ids of questions are not used twice. Symmetry is used only in runs of safety
properties. `CHECK_DEADLOCK FALSE` stands where the system may stop: polls, logins and quiz
submissions are bounded, and in `Presence` every socket can be gone, as in `Questions`, whose
sockets are used once.

**Sizes.** The passing runs have between 288,268 distinct states (`WhiteboardRoom`) and 4,814,413
(`QuizAnswers`): `QuizQuestions` 423,883, `SessionEnd` 463,196, `PresenceList` 464,987,
`AccountsLogin` 565,399, `Polls` 605,482, `WhiteboardPages` 930,782, `QuestionsShown` 1,092,069,
`SessionMaterial` 1,421,390. Each takes less than two minutes with two workers.

**Fairness.** `Whiteboard!FairSpec`: weak fairness of each handler's next step – ioredis answers or
fails every command, and a settled promise is resumed by the event loop. Nothing is assumed of locks
that expire: a handler that finds none free gives up. `SessionLifecycle!FairSpec`: commands are
answered, and a teacher whose session is not archived sends the request again (an assumption about
people; without it nothing ends a session). `Poll!FairSpec`: a `setTimeout` that was not cleared
fires. Joins, drawing, answers and faults have no fairness, and no liveness is claimed of uploads,
logins, questions and quizzes.

## Findings

* `TickMonotone` (327): `getNextTick` restores the tick from `whiteboardMeta:<room>`. Strokes are
  stored under per-page keys since the pages came in, so no code writes that key, and after a
  restart ticks begin at 1 again. `docs/socket-events.md:249` and the comment at 4334 say that they
  increase per room and are restored. What holds is `TicksInOrder`.
* `ArchiveHoldsBoard` (1679): from CLOSING until `archivedSessions.add` draw handlers are admitted;
  a stroke stored after its page was read is in Redis and not in the file. The comment at 1677
  says that new writes are blocked after CLOSING. What holds is `ArchiveHasWhatWasStored`.

Other behaviour met while modelling, which the properties are stated around (their hypotheses name
it) and which has no run of its own:

* 4336: a disconnect deletes the init promise in flight; the next event starts a second one, which
  sets the tick back after the first handed one out (`forked` in `TicksInOrder`; the comment at 345
  says that there is no duplicate tick).
* 3033/4343: a teacher socket that begins a stroke, joins another room and disconnects there is cleaned
  up after in that room only; the unfinished stroke stays in the first (`Elsewhere` in
  `NoOrphanedStroke`), until its teacher or the last student of that room disconnects.
* 4237, 4098: a handler reads `socket.data.studentsRoom` after it has waited for its tick. If the
  socket has joined another room meanwhile, the event goes there, with a tick of the first room, while
  the stroke is stored in the first (`astray` in `SyncRestores`).
* 4343: a leaving teacher socket deletes the unfinished strokes of the room, other teachers' too.
* 300: nothing checks the 2 s lease before the SET; a slower handler writes back an outdated page
  (`overran` in `SyncRestores` and `StoreIsAtomic`).
* 4158: when only `SET board` takes effect, meta keeps an old destructive flag, and a delta may then
  hide an erasure (`half` in `SyncRestores`).
* 3263: two strokes wait for the page lock in either order. A client that got the later one by a
  sync:state, before the earlier was stored, and comes back with that tick misses the earlier one in
  the delta. `SyncRestores` speaks of clients that know the room from its events.
* 1714: page keys get their short TTL before the row is ARCHIVED; when that fails and the retry
  comes after the TTL, the file is overwritten without those pages (`ArchiveHasWhatWasStored` speaks
  of the pages that have not expired since the attempt began).
* 1626/1652: two end requests at the same time both pass the check, and the second sets an archived
  row back to CLOSING. The runs have one request at a time; `EndedAfterSaved` is proved for any number.
* 1721: when the answer to the ARCHIVED write is lost, the handler tells the teacher 500 and neither
  announces the end nor blocks drawing; a retry is answered from the row. (`EndedAfterSaved` and
  `SessionPromise` allow it: archived is not told.)
* 1761, 1774, 3133: `exec()` of a pipeline answers with `[err, result]` pairs that nobody looks at. A
  GET or DEL that fails, or a SADD that fails after its SET, leaves a cache entry although the end
  answers 200 (`leaked` in `PurgeIsComplete`).
* 1681/4177: strokes erased after the MGET stay in the file; `ArchiveHasWhatWasStored` promises what is
  in it, not that nothing else is.
* 2976: a `lastSession` entry that outlived the purge (`straddling`, `leaked`, or a purge that was cut
  off) lets its user into an archived session.
* 2393: the HTTP join trusts `session:<id>`, which the end handler does not delete, though the
  comment at 2380 says so.
* 3156: `join_room` registers a socket that has gone while it waited; the entry stays.
* 3151: the nested `disconnecting` handler can drop the map that `join_room` holds; the new socket
  is then registered in a map nobody sees (`dropped` in `Listed`).
* 3796: `quiz:submit` in class counts under the key that limits the retries at home, though
  `tests/185-quiz-retry-limit.test.js:10` expects the first three answers of a day not to count.
* 3840: a quiz answer whose acknowledgement was lost is stored and never counted: the retry meets the
  unique key and is answered from the row before the statistics (`lost` in `NothingUncounted`).
* 2640: a delete that saw its question active drops whatever is active after its wait, and tells the
  screens of its own question. 231, 3104: a restart forgets the active question, and `join_room` says
  nothing when there is none. In both cases a screen may keep a question that no answers are taken for;
  `QuizIsSeen` promises only the other direction.
* 3105: `QUIZ_ACTIVATED` names no room; the join of another session that is still under way sends a
  socket that session's question (`crossed` in `QuizIsSeen`).
* 2601: of two edits of the active question whose rows are answered in the other order, the older text
  is kept and sent.
* 3095/3156: a student that fetches its list between JOIN_SUCCESS and its registration in the presence
  may read PENDING and miss the answer, which is sent by the presence (3672). `NothingMissed` speaks of
  lists read when events could reach the socket: a client that fetches on `presence:state` (3163) is
  safe. A socket registered in the map of 3151 is not reached at all, and no list of its is claimed
  to be complete.
* 3532: the acknowledgement of a question goes to the socket that asked, which may be gone; another
  socket of the student hears of the question when it is answered, or in its next list
  (`AskedElsewhere` in `NothingMissed`).
* 1868: `POST /auth/dev-login` is registered in every build, though `DEVELOP.md:228` calls it an
  endpoint for development only; its tokens may tell a role that the account does not have
  (`TokensTellRole` speaks of the others).
* 3519: storing a question is tried again after any error, so one whose first reply was lost is stored
  twice.
* 1240: an upload to the class that names a session replaces its material without asking whether it
  has one, in the row and in Redis at the same time; two of them can leave row and copy with
  different materials (`shifted` in `FirstUploadStands` and `ShownIsAvailable`).
* 2322: a session can be created with a material that is still being rasterised and that its upload
  takes back when it fails (`shifted` too).
* 2897: when the row is linked and the update of the Redis key fails, the teacher is told 500, a retry
  is refused with 409, and joins by that key show no material until it expires.
* 2092: two callbacks with one state both pass the check before either deletes it; the provider's
  code, which is good once, decides. `CodeNamesIdentity` holds nevertheless.
* 2131: of two first logins of one identity at the same time the second is told
  EMAIL_ALREADY_REGISTERED, though the account is its own.

## Proofs

Checked with `tlapm` on each `*Proofs` module. They assume only the named assumptions on the
constants (`WhiteboardAssumption`, `PresenceAssumption`, `SessionAssumption`, `PollAssumption`,
`QuizQuestionsAssumption`, `QuestionsAssumption`, `QuizAnswersAssumption`, `MaterialAssumption`,
`AccountsAssumption`), and what a theorem states as its own hypothesis, so they hold for any number
of sockets, users, strokes, pages and handlers, every choice of faults and every bound. Students are
a finite set where something is counted (`Poll`, `QuizAnswers`).

* `WhiteboardProofs!TypeCorrect`: `Spec => []TypeOK`, by itself inductive.
* `WhiteboardProofs!LockCorrect`: `Spec => []LockInv` with `LockInv` the conjunction of `TypeOK`,
  `LeaseExclusive`, `OwnerIsCritical` (a lock that names a handler names one between its SET NX
  and its release), `ExpiredIsMarked` (a handler whose lease ran out is on a page in `overran`) and
  `EditsCurrentPage`. `LeaseExclusive` says nothing of the strokes a handler read; to store them safely
  it must be alone on the page, which takes the two conjuncts between: off a marked page every lease
  is alive, so two handlers would own one lock, and whoever wrote since the GET would have been the
  second. `LeasesExclude` and `NoLostUpdate` follow.
* `WhiteboardProofs!StrokesOwned` and `TicksRight`: `NoOrphanedStroke` with the type is inductive
  already, since a socket that changes rooms hands its strokes to `Elsewhere`; for `TicksInOrder`
  `TickInv` says that, unless `forked`, one init promise runs at most, nothing was sent in this life
  of the process while it runs or before the tick is known, and all that was sent is at or below a
  tick that is known.
* `WhiteboardProofs!StoreImplements`: `Spec => StoreIsAtomic`, the refinement of `PageStore` for any
  number of pages and handlers. `StoreInv` adds to `LockInv` that whatever waits to be stored was
  broadcast with its tick (`Announced`) and that a missing key has no strokes (`GoneIsBlank`).
  `StoredShape` says what the refinement mapping yields: off an outlived page the strokes of its one
  writer, or those in the key. Every step is then an `Announce`, a `Store` (the SET), an `Expire`, an
  `Outlive` or a stutter. The proof is also why `Expire` takes a set of pages: a restart drops the
  writers of several pages whose keys had expired, and a run with one page cannot show that.
* `WhiteboardProofs!SyncsRestore`: `Spec => []SyncRestores` for any number of events. `SyncInv` adds
  two conjuncts to `StoreInv`. `StrokesDrawn`: each stroke that is stored, or that a writer has read,
  carries the tick of an event in `log` that drew it, so that a client that saw the event has it and
  a client that did not names a smaller tick. `MarksKept`: when a stroke was taken off a stored page,
  the destructive flag says so, in the key or in what the next writer has read (`half` apart), so that
  a delta is sent only when nothing has to be taken back. `DeltaIsEnough` then compares, stroke by
  stroke, the canvas with the answer: with `TicksInOrder`, what the delta leaves out was drawn among
  the events the client saw.
* `WhiteboardProofs!NobodyForgotten` and `HandlersAdvance`: the safety half of `HandlersFinish`.
  `Awaited` says that whoever waits for the tick waits for a promise that still runs, although
  disconnects, the end of the session and other promises take it out of the map, that a promise that
  runs belongs to a slot that waits for it, and that the attempts at the lock are bounded. `Rank`
  counts the commands and attempts ahead of a handler; with `Awaited` every `Handler(o)` step lowers
  that of `o` (also the step that settles the promise of `o`) and no other step raises it.
* `PresenceProofs!PresenceCorrect`: `Spec => []PresenceInv` with `PresenceInv` the conjunction of
  `TypeOK`, `NewHasNotJoined` (a socket that has not connected has no join in flight and was not
  served) and `ListedEverywhere` (`Listed` for every room a socket was served in, not only its
  current one: the step that changes `socket.data.roomId` back needs it). `JoinedIsListed`
  (`Spec => []Listed`) follows.
* `PresenceProofs!OldTakesNothing`: `Spec => OldSocketTakesNothing`. The one step that disconnects
  another socket is `JoinRegister`; `WithoutTakesOwn` says that the nested handler takes its own
  entry only.
* `SessionProofs!SavedBeforeEnded`: `Spec => []EndedAfterSaved` for any number of end requests at a
  time. `SavedInv` adds that each handler past its upload (`AfterUpload`) stands on a saved file.
* `SessionProofs!PurgeComplete`: `Spec => []PurgeIsComplete` when requests come one at a time
  (`Enders = {e}`: the second of two sets an archived row back to CLOSING, see Findings).
  `PurgeIsComplete` speaks only of the state after the last step; `PurgeInv` carries it there:
  before the purge every cache entry can be found through `session:<id>:users`, between the GETs and
  the DELs the entries are those that were read, those of joins in `straddling` or those in
  `leaked`, and an archived row admits no join to its checks. It needs `JoinInv` (only a join by the
  cache is marked as one, so whoever stores an entry was past the checks) and `RowInv` (no request
  before there is a row).
* `SessionProofs!ArchiveComplete`: `Spec => []ArchiveHasWhatWasStored` for requests that come one at
  a time, whatever keys expire and whatever is erased while the session ends. `ArchiveInv` follows the
  strokes that are still owed from the keys that SCAN found to those that MGET read and to the file,
  over failed attempts; what is taken off a page before its file is saved is no longer owed.
* `SessionProofs!EndImplements`: `Spec => EndKeepsPromise` for requests that come one at a time. An
  erasure or an expiry is a `Vanish`. `PromiseInv` joins the invariants above and `PhaseInv`:
  between the upsert of CLOSING and its next write of the status the handler finds the row as it
  left it, and a room that was told has an archived row. The upsert is then a `Try`, the upload a
  `Save`, `EndRollback` and `EndFails` a `GiveUp`, and so on; `EndIsFinal` (no step takes an
  archived row back, or writes its file again) follows from the promise alone.
* `ActivityProofs`, of `Poll`: `PollInv`, the conjunction of `TypeOK`, `IdsInOrder` (the poll that
  runs is the last started, and the only timer left is its own), `NothingLeft`, `CountsAgree`,
  `CountsThisPoll` and `TimersAreExact`, is inductive. Without `IdsInOrder` a timer could be left
  that fires into a later poll. The set of students is finite (`PollAssumption`), since the counts
  are cardinalities.
* `ActivityProofs`, of `QuizQuestions`: `QuizInv` is the type, `OrdersUnique` and `QuizIsSeen`. The
  limit is not the count that the handlers compare, which several pass before one inserts: it is the
  unique (session, order) with orders up to the limit, which makes the orders an injection into
  `1..MaxQuestions`, and `LimitOfQuestions` is the cardinality of that.
* `QuestionsProofs`: `QuestionsInv`, the conjunction of `TypeOK`, `Owned` (a question has an owner and
  the socket it was asked through), `EventsKnow` (an event in flight knows the question, its socket
  and the answer in the row), `OneAnswer` and `ListsCover` (of a list read when events could reach the
  socket: what the socket was sent, and the list while it is not yet delivered, covers every question
  it is to be told, except those an event is still to bring). `NothingMissed` speaks of delivered
  lists; an event sent between the read and the delivery is why the list in flight is in the
  invariant. `OneAnswerStands` and `NothingIsMissed` follow.
* `QuizAnswersProofs`: `TypeInv` adds to the type that a submission in flight is complete and that HTTP
  takes answers only after the end. `LimitHolds` needs that the counter is never below the number it
  let through (`LimitInv`). `FirstStands`, an action property, needs `TypeInv`
  only. `StatsTrue` and
  `AllCounted` rest on `StatsInv`: of one student and question at most one submission is between its
  row and the statistics (`OneAhead`, which is the unique key of the table), its row is stored and not
  counted (`Ahead`), what was counted is stored (`Counts`), and the counts are the cardinalities of
  the answers (`SumsAgree`). Without `OneAhead` an answer could be counted twice.
* `MaterialProofs`: `Base` is the type, `NoOrphan`, and which requests come where (`AtWork`, `Early`:
  nothing is uploaded to a session without a row). `Known` says of every copy of the session's
  material, in Redis, in a cache, in a join in flight, on a screen or in a reply, that it names no
  material or the linked one, complete, whose upload does not take it back any more. `NoneOrphaned`,
  `FirstStands` and `ShownAvailable` follow; the last two need all copies together, since each is
  made from another.
* `AccountsProofs`: `Fresh` (a request that may still make its account has none) and the unique keys
  give that accounts keep their identity. `Named` follows the account through a callback, its code and
  the exchange (`CodeIsOwn`); `OneHolder` says that a code waits in Redis or one exchange has it
  (`CodeBuysOnce`); `Tells` that a role once set is the one every token tells that somebody logged in
  for, and that the number agrees with it (`TokensTrue`).

Only model-checked: liveness (`HandlersFinish`, `EndSucceeds`, `TimedPollEnds`), which the prover
cannot do under fairness. Every other property of a passing run is stated by a theorem.

## Not modelled and why

* Teacher messages and chat: relays of one message, by a broadcast or by Redis Pub/Sub, which
  delivers at most once and keeps nothing. The handlers keep no state.
* Classes, subjects, tags and maps: one or two queries each, with the database's constraints as the
  only protection.
* PDF export and rasterisation: pure input and output; rasterisation is one step of `Material` that
  succeeds or throws.
* Configuration, error codes, logging, wording and the validation of payloads, which decides only
  whether a handler runs.
* `GET check-id`, the HTTP join and the lists, but for what a list of questions shows: they only read.
* Two requests to end one session at the same time, beyond the proof of `EndedAfterSaved`; several
  sessions for one user's `lastSession`; several server processes on one Redis
  (the maps in memory, with the ticks and who is present, are each process's own).
