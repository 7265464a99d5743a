----------------------------- MODULE Questions -----------------------------
(***************************************************************************)
(* The questions of one session: students ask, teachers answer, and both   *)
(* see them as events while they are connected and in the list they fetch. *)
(*                                                                         *)
(* A row of the database is PENDING or the answer it got.  A command and   *)
(* the code that its reply resumes are two steps.  Teachers are reached    *)
(* through their room, a student through the presence, in which join_room  *)
(* registers the socket some commands after it entered the room.  The      *)
(* clients are external: they keep what they were sent since they entered. *)
(***************************************************************************)
EXTENDS Naturals, FiniteSets

CONSTANTS
  Students, Teachers,  \* users
  Sockets, UserOf,     \* connections, and whose they are
  Ids,                 \* question ids
  Answers,             \* texts of answers
  Requests,            \* slots for events in flight
  MaxFaults,           \* bound: failing commands and restarts
  MaxMoves             \* bound: lists asked for, and sockets that leave

Users == Students \cup Teachers

ASSUME QuestionsAssumption ==
  /\ MaxFaults \in Nat /\ MaxMoves \in Nat /\ Students \cap Teachers = {}
  /\ UserOf \in [Sockets -> Users]
  /\ {"none", "PENDING"} \cap (Answers \cup Students) = {}
  /\ "none" \notin Sockets

VARIABLES
  row,       \* Question: "none", "PENDING" or the answer
  owner,     \* its userId
  via,       \* history: the socket it was asked through
  link,      \* sockets: "new", "in" the session's room, "away" in another's, or "out" for good
  tails,     \* sockets whose join_room is past the room and has not registered yet
  presence,  \* users: the socket under which they are registered
  listing,   \* what question:list has read for a socket, and not sent yet
  listed,    \* sockets sent a list that was read when events could reach them
  shown,     \* what a socket was sent since it entered: <<question, state>>
  req,       \* events in flight: [pc, socket, q, answer, attempt]
  faults,
  moves,
  unsure     \* history: rows written by a command whose reply was lost

rows == <<row, owner, via>>
joined == <<link, tails, presence>>
sent == <<listing, listed, shown>>
people == <<joined, sent, moves>>
vars == <<rows, people, req, faults, unsure>>

None == "none"
Pending == "PENDING"
NoList == [on |-> FALSE, rows |-> {}, fresh |-> FALSE]
Idle == [pc |-> "idle", socket |-> None, q |-> None, answer |-> None, attempt |-> 1]
Asked == {q \in Ids : row[q] # None}

Init ==
  /\ row = [q \in Ids |-> None] /\ owner = [q \in Ids |-> None] /\ via = [q \in Ids |-> None]
  /\ link = [k \in Sockets |-> "new"] /\ tails = {} /\ presence = [u \in Users |-> None]
  /\ listing = [k \in Sockets |-> NoList] /\ listed = {} /\ shown = [k \in Sockets |-> {}]
  /\ req = [c \in Requests |-> Idle] /\ faults = 0 /\ moves = 0 /\ unsure = {}

IsTeacher(k) == UserOf[k] \in Teachers

\* The teachers see every question, a student the student's own.
Sees(k, q) == IsTeacher(k) \/ owner[q] = UserOf[k]

\* Events about any question the user sees reach the socket.
Reached(k) == link[k] = "in" /\ (IsTeacher(k) \/ presence[UserOf[k]] = k)

Done(c) == req' = [req EXCEPT ![c] = Idle]
Fault == faults < MaxFaults /\ faults' = faults + 1
Move == moves < MaxMoves /\ moves' = moves + 1

\* An event reaches the teachers' room, and one other socket.
Emit(other, item) ==
  shown' = [k \in Sockets |-> IF link[k] = "in" /\ (IsTeacher(k) \/ k = other)
                                 THEN shown[k] \cup {item} ELSE shown[k]]

-----------------------------------------------------------------------------
(* question:ask                                                            *)

Ask(c, k) ==
  /\ req[c].pc = "idle" /\ link[k] = "in" /\ ~IsTeacher(k)
  /\ req' = [req EXCEPT ![c] = [Idle EXCEPT !.pc = "create", !.socket = k]]
  /\ UNCHANGED <<rows, people, faults, unsure>>

Create(q, k) ==
  /\ row[q] = None
  /\ row' = [row EXCEPT ![q] = Pending] /\ owner' = [owner EXCEPT ![q] = UserOf[k]]
  /\ via' = [via EXCEPT ![q] = k]

AskCreate(c, q) ==
  /\ req[c].pc = "create" /\ Create(q, req[c].socket)
  /\ req' = [req EXCEPT ![c].pc = "created", ![c].q = q]
  /\ UNCHANGED <<people, faults, unsure>>

\* Mutant: the loop is left without a question.
AskFailsOn(c) ==
  /\ req[c].pc = "create" /\ Fault
  /\ req' = [req EXCEPT ![c].pc = "created"]
  /\ UNCHANGED <<rows, people, unsure>>

\* One more attempt, also if the row was committed: it is then stored twice.
\* Bound: with no id left a create fails.
AskFails(c) ==
  /\ req[c].pc = "create"
  /\ Fault \/ (Asked = Ids /\ UNCHANGED faults)
  /\ \/ UNCHANGED <<rows, unsure>>
     \/ \E q \in Ids : Create(q, req[c].socket) /\ unsure' = unsure \cup {q}
  /\ IF req[c].attempt = 1 THEN req' = [req EXCEPT ![c].attempt = 2] ELSE Done(c)
  /\ UNCHANGED people

\* QUESTION_ACK to the asking socket, QUESTION_NEW to the teachers.
AskTell(c) ==
  /\ req[c].pc = "created"
  /\ Emit(req[c].socket, <<req[c].q, Pending>>)
  /\ Done(c)
  /\ UNCHANGED <<rows, joined, listing, listed, faults, moves, unsure>>

-----------------------------------------------------------------------------
(* question:answer                                                         *)

\* Mutant: the answer goes to the socket that asked.
AnswerTellEarly(c) ==
  /\ req[c].pc = "answered"
  /\ Emit(via[req[c].q], <<req[c].q, req[c].answer>>)
  /\ Done(c)
  /\ UNCHANGED <<rows, joined, listing, listed, faults, moves, unsure>>

\* findFirst: only a pending question goes on.
AnswerFind(c, k, q, a) ==
  /\ req[c].pc = "idle" /\ link[k] = "in" /\ IsTeacher(k) /\ row[q] = Pending
  /\ req' = [req EXCEPT ![c] = [pc |-> "update", socket |-> None, q |-> q, answer |-> a, attempt |-> 1]]
  /\ UNCHANGED <<rows, people, faults, unsure>>

\* Mutant: the update has no condition on the status.
AnswerUpdateAny(c) ==
  /\ req[c].pc = "update"
  /\ row' = [row EXCEPT ![req[c].q] = req[c].answer]
  /\ req' = [req EXCEPT ![c].pc = "answered"]
  /\ UNCHANGED <<owner, via, people, faults, unsure>>

\* updateMany of the row that is still pending; none is ALREADY_ANSWERED.
AnswerUpdate(c) ==
  /\ req[c].pc = "update"
  /\ IF row[req[c].q] = Pending
     THEN /\ row' = [row EXCEPT ![req[c].q] = req[c].answer]
          /\ req' = [req EXCEPT ![c].pc = "answered"]
     ELSE UNCHANGED row /\ Done(c)
  /\ UNCHANGED <<owner, via, people, faults, unsure>>

AnswerFails(c) ==
  /\ req[c].pc = "update" /\ Fault /\ Done(c)
  /\ \/ UNCHANGED <<row, unsure>>
     \/ /\ row[req[c].q] = Pending
        /\ row' = [row EXCEPT ![req[c].q] = req[c].answer]
        /\ unsure' = unsure \cup {req[c].q}
  /\ UNCHANGED <<owner, via, people>>

\* The student's socket is looked up now, in the presence.
AnswerTell(c) ==
  /\ req[c].pc = "answered"
  /\ Emit(presence[owner[req[c].q]], <<req[c].q, req[c].answer>>)
  /\ Done(c)
  /\ UNCHANGED <<rows, joined, listing, listed, faults, moves, unsure>>

-----------------------------------------------------------------------------
(* question:list                                                           *)

\* requireJoined asks for the room only: the list may be read before the socket
\* is registered.
ListRead(k) ==
  /\ link[k] = "in" /\ ~listing[k].on /\ Move
  /\ listing' = [listing EXCEPT ![k] =
       [on |-> TRUE, rows |-> {<<q, row[q]>> : q \in {p \in Asked : Sees(k, p)}}, fresh |-> Reached(k)]]
  /\ UNCHANGED <<rows, joined, listed, shown, req, faults, unsure>>

ListSend(k) ==
  /\ link[k] = "in" /\ listing[k].on
  /\ shown' = [shown EXCEPT ![k] = @ \cup listing[k].rows]
  /\ listing' = [listing EXCEPT ![k] = NoList]
  /\ listed' = IF listing[k].fresh THEN listed \cup {k} ELSE listed
  /\ UNCHANGED <<rows, joined, req, faults, moves, unsure>>

-----------------------------------------------------------------------------
(* Connections and restarts.  Presence has the detail of join_room.        *)

\* join_room puts the socket into the room, and JOIN_SUCCESS is sent.
Enter(k) ==
  /\ link[k] \in {"new", "away"} /\ k \notin tails
  /\ link' = [link EXCEPT ![k] = "in"] /\ tails' = tails \cup {k}
  /\ UNCHANGED <<rows, presence, sent, req, faults, moves, unsure>>

\* What is on the screen goes with the connection.
Gone(left) ==
  /\ link' = [k \in Sockets |-> IF k \in left THEN "out" ELSE link[k]]
  /\ listed' = listed \ left
  /\ listing' = [k \in Sockets |-> IF k \in left THEN NoList ELSE listing[k]]
  /\ shown' = [k \in Sockets |-> IF k \in left THEN {} ELSE shown[k]]

\* The last step of join_room, also when the socket has gone meanwhile.  Another
\* socket of the user is disconnected; if its entry was the last one of the map,
\* that map is dropped and the new entry is lost with it.
Register(k) ==
  LET u == UserOf[k]
      kicked == {o \in Sockets \ {k} : o = presence[u] /\ link[o] \in {"in", "away"}}
      dropped == /\ \E o \in kicked : link[o] = "in"
                 /\ \A v \in Users \ {u} : presence[v] = None
  IN
  /\ k \in tails /\ tails' = tails \ {k}
  /\ Gone(kicked)
  /\ presence' = [presence EXCEPT ![u] = IF dropped THEN None ELSE k]
  /\ UNCHANGED <<rows, req, faults, moves, unsure>>

\* The disconnecting handler removes the entry of the socket in the room it is in.
Disconnect(k) ==
  /\ link[k] \in {"in", "away"} /\ Move /\ Gone({k})
  /\ presence' = IF link[k] = "in" /\ presence[UserOf[k]] = k
                   THEN [presence EXCEPT ![UserOf[k]] = None] ELSE presence
  /\ UNCHANGED <<rows, tails, req, faults, unsure>>

\* The socket joins another session.  It keeps its entry; a list it asked for may
\* still come.
Leave(k) ==
  /\ link[k] = "in" /\ Move
  /\ link' = [link EXCEPT ![k] = "away"]
  /\ listed' = listed \ {k} /\ shown' = [shown EXCEPT ![k] = {}]
  /\ listing' = [listing EXCEPT ![k].fresh = FALSE]
  /\ UNCHANGED <<rows, tails, presence, req, faults, unsure>>

Restart ==
  /\ Fault /\ Gone({k \in Sockets : link[k] # "new"})
  /\ tails' = {} /\ presence' = [u \in Users |-> None]
  /\ req' = [c \in Requests |-> Idle]
  /\ UNCHANGED <<rows, moves, unsure>>

Event(c) ==
  \/ \E q \in Ids : AskCreate(c, q)
  \/ AskFails(c) \/ AskTell(c) \/ AnswerUpdate(c) \/ AnswerFails(c) \/ AnswerTell(c)

Next ==
  \/ \E c \in Requests, k \in Sockets : Ask(c, k)
  \/ \E c \in Requests, k \in Sockets, q \in Ids, a \in Answers : AnswerFind(c, k, q, a)
  \/ \E c \in Requests : Event(c)
  \/ \E k \in Sockets : ListRead(k) \/ ListSend(k)
  \/ \E k \in Sockets : Enter(k) \/ Register(k) \/ Leave(k) \/ Disconnect(k)
  \/ Restart

Spec == Init /\ [][Next]_vars

-----------------------------------------------------------------------------
(* Properties *)

States == {Pending} \cup Answers
Items == Ids \X States
Phases == {"idle", "create", "created", "update", "answered"}

TypeOK ==
  /\ row \in [Ids -> States \cup {None}] /\ owner \in [Ids -> Students \cup {None}]
  /\ via \in [Ids -> Sockets \cup {None}]
  /\ link \in [Sockets -> {"new", "in", "away", "out"}] /\ tails \subseteq Sockets
  /\ presence \in [Users -> Sockets \cup {None}]
  /\ listing \in [Sockets -> [on : BOOLEAN, rows : SUBSET Items, fresh : BOOLEAN]]
  /\ \A k \in listed : k \in Sockets /\ Reached(k)
  /\ shown \in [Sockets -> SUBSET Items]
  /\ req \in [Requests -> [pc : Phases, socket : Sockets \cup {None}, q : Ids \cup {None},
                           answer : Answers \cup {None}, attempt : {1, 2}]]
  /\ faults \in 0..MaxFaults /\ moves \in 0..MaxMoves /\ unsure \subseteq Ids

\* A question has one answer: whatever the teachers do at the same time, every
\* answer that anybody was sent is the one that is stored.
OneAnswer ==
  \A k \in Sockets : \A i \in shown[k] \cup listing[k].rows : i[2] \in {Pending, row[i[1]]}

\* A student's question that waits for its answer was asked through another socket:
\* the acknowledgement went there.
AskedElsewhere(k, q) == ~IsTeacher(k) /\ row[q] = Pending /\ via[q] # k

\* Who is in the room, and registered if a student, when the list is read misses
\* nothing: the list and the events together show the state of every question,
\* unless the event is still to be sent, the reply to the command was lost, or the
\* question was asked through another socket and has no answer yet.
NothingMissed ==
  \A k \in listed, q \in Asked :
    (Sees(k, q) /\ q \notin unsure /\ ~AskedElsewhere(k, q)) =>
      \/ <<q, row[q]>> \in shown[k]
      \/ \E c \in Requests : req[c].pc \in {"created", "answered"} /\ req[c].q = q

=============================================================================
