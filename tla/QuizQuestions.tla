--------------------------- MODULE QuizQuestions ---------------------------
(***************************************************************************)
(* The quiz questions of one session: the REST handlers that create, edit  *)
(* and delete them, the socket events that activate and deactivate one,    *)
(* and what the events tell the clients of the session, who come and go.   *)
(*                                                                         *)
(* The database and the code that its answer resumes are two steps where   *)
(* another handler can come between them.  The active question is in       *)
(* memory: a restart forgets it, and disconnects everybody.                *)
(***************************************************************************)
EXTENDS Naturals, FiniteSets

CONSTANTS
  Ids,          \* question ids
  Requests,     \* slots for handlers in flight
  Clients,      \* apps of the teacher and the students
  MaxQuestions  \* MAX_QUIZ_QUESTIONS, 3 in the code

ASSUME QuizQuestionsAssumption ==
  /\ MaxQuestions \in Nat \ {0}
  /\ "none" \notin Ids

VARIABLES
  order,     \* QuizQuestion rows: the order of a question, 0 without a row
  made,      \* ids given so far
  active,    \* activeQuizzes
  req,       \* handlers in flight: [pc, id, order, seen]
  at,        \* clients: "out", "joining" (in the rooms, join_room runs on) or "in"; those
             \* that came while their join of another session ran: "crossing" or "crossed"
  screen     \* clients: the question the last quiz event they got told them of

questionVars == <<order, made>>
clientVars   == <<at, screen>>
qqVars == <<questionVars, active, req, clientVars>>

None == "none"
Idle == [pc |-> "idle", id |-> None, order |-> 0, seen |-> None]

Live == {q \in Ids : order[q] # 0}
Orders == 1..MaxQuestions
Used == {order[q] : q \in Live}

QQInit ==
  /\ order = [q \in Ids |-> 0] /\ made = {}
  /\ active = None /\ req = [c \in Requests |-> Idle]
  /\ at = [u \in Clients |-> "out"] /\ screen = [u \in Clients |-> None]

Wait(c, pc, q, o, seen) ==
  req' = [req EXCEPT ![c] = [pc |-> pc, id |-> q, order |-> o, seen |-> seen]]
Answered(c) == req' = [req EXCEPT ![c] = Idle]

\* QUIZ_ACTIVATED and QUIZ_DEACTIVATED, to whoever is in one of the two rooms.
TellActivated(q) ==
  screen' = [u \in Clients |-> IF at[u] = "out" THEN screen[u] ELSE q]
TellDeactivated(q) ==
  screen' = [u \in Clients |-> IF at[u] # "out" /\ screen[u] = q THEN None ELSE screen[u]]

-----------------------------------------------------------------------------
(* POST: count the questions, then insert one under the order asked for or *)
(* under the first that is free.                                           *)

\* Mutant: an order past the last one is let through.
CreatePastEnd(c, q) ==
  /\ req[c].pc = "idle" /\ q \notin made
  /\ Cardinality(Live) < MaxQuestions
  /\ made' = made \cup {q}
  /\ \E o \in 1..(MaxQuestions + 1) :
       Wait(c, "insert", q, o, None)
  /\ UNCHANGED <<order, active, clientVars>>

CreateCheck(c, q) ==
  /\ req[c].pc = "idle" /\ q \notin made
  /\ Cardinality(Live) < MaxQuestions
  /\ made' = made \cup {q}
  /\ \E o \in Orders :
       Wait(c, "insert", q, o, None)
  /\ UNCHANGED <<order, active, clientVars>>

\* Mutant: the table has no unique (session, order).
InsertTwice(c) ==
  /\ req[c].pc = "insert"
  /\ order' = [order EXCEPT ![req[c].id] = req[c].order]
  /\ Answered(c)
  /\ UNCHANGED <<made, active, clientVars>>

\* The unique constraint (session, order) decides; a conflict is answered 409.
Insert(c) ==
  /\ req[c].pc = "insert"
  /\ order' = IF req[c].order \in Used THEN order ELSE [order EXCEPT ![req[c].id] = req[c].order]
  /\ Answered(c)
  /\ UNCHANGED <<made, active, clientVars>>

-----------------------------------------------------------------------------
(* PUT *)

UpdateFind(c, q) ==
  /\ req[c].pc = "idle" /\ q \in Live
  /\ Wait(c, "update", q, 0, None)
  /\ UNCHANGED <<questionVars, active, clientVars>>

\* The row is written; the update of a row that is gone throws, and so does one
\* whose answer is lost.
UpdateRow(c) ==
  /\ req[c].pc = "update"
  /\ \/ req[c].id \in Live /\ req' = [req EXCEPT ![c].pc = "updated"]
     \/ Answered(c)
  /\ UNCHANGED <<questionVars, active, clientVars>>

\* What is active is read after the wait: an edited question that is active is
\* sent again.
UpdateTell(c) ==
  /\ req[c].pc = "updated"
  /\ IF active = req[c].id THEN TellActivated(req[c].id) ELSE UNCHANGED screen
  /\ Answered(c)
  /\ UNCHANGED <<questionVars, active, at>>

-----------------------------------------------------------------------------
(* DELETE *)

\* What is active is read before the wait for the deletion.
DeleteFind(c, q) ==
  /\ req[c].pc = "idle" /\ q \in Live
  /\ Wait(c, "delete", q, 0, active)
  /\ UNCHANGED <<questionVars, active, clientVars>>

\* If the answer is lost, the question is gone and nobody is told.
DeleteRow(c) ==
  /\ req[c].pc = "delete"
  /\ order' = [order EXCEPT ![req[c].id] = 0]
  /\ \/ req[c].id \in Live /\ req' = [req EXCEPT ![c].pc = "deleted"]
     \/ Answered(c)
  /\ UNCHANGED <<made, active, clientVars>>

\* If the question was active then, whatever is active now is dropped.
DeleteTell(c) ==
  LET r == req[c] IN
  /\ r.pc = "deleted"
  /\ IF r.seen = r.id
       THEN active' = None /\ TellDeactivated(r.id)
       ELSE UNCHANGED <<active, screen>>
  /\ Answered(c)
  /\ UNCHANGED <<questionVars, at>>

-----------------------------------------------------------------------------
(* quiz:activate, quiz:deactivate, and the end of the session *)

ActivateFind(c, q) ==
  /\ req[c].pc = "idle" /\ q \in Live
  /\ Wait(c, "activate", q, 0, None)
  /\ UNCHANGED <<questionVars, active, clientVars>>

Activate(c) ==
  /\ req[c].pc = "activate"
  /\ active' = req[c].id /\ TellActivated(req[c].id)
  /\ Answered(c)
  /\ UNCHANGED <<questionVars, at>>

Deactivate ==
  /\ active # None
  /\ active' = None /\ TellDeactivated(active)
  /\ UNCHANGED <<questionVars, req, at>>

\* The clients leave the quiz on session:ended.
LeaveQuiz ==
  /\ active' = None
  /\ screen' = [u \in Clients |-> IF at[u] = "out" THEN screen[u] ELSE None]
  /\ UNCHANGED <<questionVars, req, at>>

-----------------------------------------------------------------------------
(* Clients, and the process *)

\* join_room puts the socket into its rooms, and goes on to read the material.  An
\* app that lost its connection comes with what it shows, a new one with nothing.
Enter(u) ==
  /\ at[u] = "out"
  /\ \E how \in {"joining", "crossing"} : at' = [at EXCEPT ![u] = how]
  /\ screen' \in {screen, [screen EXCEPT ![u] = None]}
  /\ UNCHANGED <<questionVars, active, req>>

Joined(how) == IF how = "joining" THEN "in" ELSE "crossed"

\* Mutant: join_room tells nobody of the active question.
GreetOnly(u) ==
  /\ at[u] \in {"joining", "crossing"}
  /\ at' = [at EXCEPT ![u] = Joined(@)]
  /\ UNCHANGED <<questionVars, active, req, screen>>

\* The active question is sent with JOIN_SUCCESS; if none is, nothing is said.
Greet(u) ==
  /\ at[u] \in {"joining", "crossing"}
  /\ at' = [at EXCEPT ![u] = Joined(@)]
  /\ screen' = IF active = None THEN screen ELSE [screen EXCEPT ![u] = active]
  /\ UNCHANGED <<questionVars, active, req>>

\* The join of the other session goes on to tell the socket of that session's question.
GreetElsewhere(u) ==
  /\ at[u] \in {"crossing", "crossed"}
  /\ screen' = [screen EXCEPT ![u] = None]
  /\ UNCHANGED <<questionVars, active, req, at>>

\* A disconnect, or a change of rooms.
Leave(u) ==
  /\ at[u] # "out"
  /\ at' = [at EXCEPT ![u] = "out"]
  /\ UNCHANGED <<questionVars, active, req, screen>>

Restart ==
  /\ active' = None
  /\ req' = [c \in Requests |-> Idle]
  /\ at' = [u \in Clients |-> "out"]
  /\ UNCHANGED <<questionVars, screen>>

Handler(c) ==
  \/ Insert(c) \/ UpdateRow(c) \/ UpdateTell(c) \/ DeleteRow(c) \/ DeleteTell(c) \/ Activate(c)

QQNext ==
  \/ \E c \in Requests, q \in Ids :
       CreateCheck(c, q) \/ UpdateFind(c, q) \/ DeleteFind(c, q) \/ ActivateFind(c, q)
  \/ \E c \in Requests : Handler(c)
  \/ \E u \in Clients : Enter(u) \/ Greet(u) \/ GreetElsewhere(u) \/ Leave(u)
  \/ Deactivate \/ LeaveQuiz \/ Restart

QQSpec == QQInit /\ [][QQNext]_qqVars

-----------------------------------------------------------------------------
(* Properties *)

Phases == {"idle", "insert", "update", "updated", "delete", "deleted", "activate"}

QQTypeOK ==
  /\ order \in [Ids -> 0..MaxQuestions] /\ made \subseteq Ids
  /\ active \in Ids \cup {None}
  /\ at \in [Clients -> {"out", "joining", "in", "crossing", "crossed"}]
  /\ screen \in [Clients -> Ids \cup {None}]
  /\ req \in [Requests -> [pc : Phases, id : Ids \cup {None}, order : 0..MaxQuestions,
                           seen : Ids \cup {None}]]

\* A session has at most MAX_QUIZ_QUESTIONS questions, although the requests
\* that create them count the questions before any of them inserts.
AtMostThree == Cardinality(Live) <= MaxQuestions

\* While the server takes answers for a question, that question is what every
\* client that has joined was told of last: whenever it came or came back, whatever
\* was edited, deleted, activated and deactivated meanwhile, and over restarts; but
\* for a client whose join of another session was still under way.  The converse
\* fails: a question may stay on a screen when no answers are taken.
QuizIsSeen == active # None => \A u \in Clients : at[u] = "in" => screen[u] = active

=============================================================================
