--------------------------- MODULE QuestionsProofs ---------------------------
(***************************************************************************)
(* Proofs about Questions for any number of users, questions and events in *)
(* flight, and any number of failures.                                     *)
(***************************************************************************)
EXTENDS Questions, TLAPS

\* A question that was asked has an owner, and the socket it was asked through.
Owned ==
  \A q \in Ids : row[q] # None =>
    owner[q] \in Students /\ via[q] \in Sockets /\ owner[q] = UserOf[via[q]]

\* An event in flight knows its question: the socket that asked, or the answer it stored.
EventOK(c) ==
  /\ req[c].pc = "create" => req[c].socket \in Sockets /\ UserOf[req[c].socket] \in Students
  /\ req[c].pc \in {"created", "update", "answered"} => req[c].q \in Ids /\ row[req[c].q] # None
  /\ req[c].pc = "created" => req[c].socket = via[req[c].q]
  /\ req[c].pc \in {"update", "answered"} => req[c].answer \in Answers
  /\ req[c].pc = "answered" => row[req[c].q] = req[c].answer
EventsKnow == \A c \in Requests : EventOK(c)

\* An event that will tell everybody the present state of a question.
Announced(q) ==
  \E c \in Requests :
    /\ req[c].q = q
    /\ \/ req[c].pc = "created" /\ row[q] = Pending
       \/ req[c].pc = "answered" /\ row[q] # Pending

\* What a socket was sent, with the list that was read for it, has the state of
\* every question it is to be told, unless an event brings it.
Wanted(k, q) == Sees(k, q) /\ q \notin unsure /\ ~AskedElsewhere(k, q)
Covered(k, items) == \A q \in Asked : Wanted(k, q) => <<q, row[q]>> \in items \/ Announced(q)
Due(k) == listing[k].on /\ listing[k].fresh
ListCovers(k) ==
  /\ k \in listed => Covered(k, shown[k])
  /\ Due(k) => Reached(k) /\ Covered(k, shown[k] \cup listing[k].rows)
ListsCover == \A k \in Sockets : ListCovers(k)

\* The inductive invariant of the questions.
QuestionsInv == TypeOK /\ Owned /\ EventsKnow /\ OneAnswer /\ ListsCover

-----------------------------------------------------------------------------
(* Types *)

RequestState == [pc : Phases, socket : Sockets \cup {None}, q : Ids \cup {None},
                 answer : Answers \cup {None}, attempt : {1, 2}]

\* A free slot has the type of a slot.
LEMMA IdleType == Idle \in RequestState /\ Idle.pc = "idle"
BY DEF Idle, RequestState, Phases

ListState == [on : BOOLEAN, rows : SUBSET Items, fresh : BOOLEAN]

\* A list that is not being read has the type of one.
LEMMA NoListType == NoList \in ListState /\ NoList.rows = {} /\ ~NoList.on
BY DEF NoList, ListState

\* At server start every variable has its type.
LEMMA InitType == Init => TypeOK
<1> SUFFICES ASSUME Init PROVE TypeOK
  OBVIOUS
<1>1. req \in [Requests -> RequestState]
  BY IdleType DEF Init
<1>2. listing \in [Sockets -> ListState]
  BY NoListType DEF Init
<1>3. faults \in 0..MaxFaults /\ moves \in 0..MaxMoves
  BY QuestionsAssumption DEF Init
<1>4. shown \in [Sockets -> SUBSET Items]
  BY DEF Init
<1>5. QED BY <1>1, <1>2, <1>3, <1>4 DEF Init, TypeOK, RequestState, ListState

\* One more fault is within the bound.
LEMMA FaultType == ASSUME TypeOK, Fault PROVE faults' \in 0..MaxFaults
BY QuestionsAssumption DEF TypeOK, Fault

\* One more move is within the bound.
LEMMA MoveType == ASSUME TypeOK, Move PROVE moves' \in 0..MaxMoves
BY QuestionsAssumption DEF TypeOK, Move

\* Emitting an item keeps what was shown well typed.
LEMMA EmitType ==
  ASSUME TypeOK, NEW other, NEW item \in Items, Emit(other, item)
  PROVE  shown' \in [Sockets -> SUBSET Items]
BY DEF TypeOK, Emit

\* The types of people and what they were sent stay when they do.
LEMMA SameTypes ==
  ASSUME TypeOK, UNCHANGED people, row' \in [Ids -> States \cup {None}],
         owner' \in [Ids -> Students \cup {None}], via' \in [Ids -> Sockets \cup {None}],
         req' \in [Requests -> RequestState], faults' \in 0..MaxFaults, unsure' \subseteq Ids
  PROVE  TypeOK'
BY DEF TypeOK, people, joined, sent, Reached, RequestState

\* Losing connections keeps the types.
LEMMA GoneType ==
  ASSUME TypeOK, NEW left \in SUBSET Sockets, Gone(left)
  PROVE  /\ link' \in [Sockets -> {"new", "in", "away", "out"}] /\ listed' \subseteq Sockets
         /\ listing' \in [Sockets -> ListState] /\ shown' \in [Sockets -> SUBSET Items]
BY NoListType DEF TypeOK, Gone, ListState

-----------------------------------------------------------------------------
(* What steps have in common *)

\* A row once asked keeps its owner, and its answer once it has one.
RowsGoOn ==
  \A q \in Ids : row[q] # None =>
    /\ owner'[q] = owner[q] /\ via'[q] = via[q] /\ row'[q] # None
    /\ row[q] # Pending => row'[q] = row[q]

\* An event that does not move stays right about its question.
LEMMA OtherEvent ==
  ASSUME QuestionsInv, RowsGoOn, NEW c \in Requests, req'[c] = req[c]
  PROVE  EventOK(c)'
<1>1. EventOK(c) /\ (req[c].answer \in Answers => req[c].answer # Pending)
  BY QuestionsAssumption DEF QuestionsInv, EventsKnow, Pending
<1>2. QED BY <1>1 DEF EventOK, RowsGoOn

\* Only the events of slots that do not move need no look.
LEMMA OneEvent ==
  ASSUME QuestionsInv, RowsGoOn, NEW c \in Requests, EventOK(c)',
         \A d \in Requests \ {c} : req'[d] = req[d]
  PROVE  EventsKnow'
<1> SUFFICES ASSUME NEW d \in Requests PROVE EventOK(d)'
  BY DEF EventsKnow
<1>1. CASE d = c
  BY <1>1
<1>2. CASE d # c
  BY <1>2, OtherEvent
<1>3. QED BY <1>1, <1>2

\* What is announced stays so until the event is sent or the row changes.
LEMMA StillAnnounced ==
  ASSUME NEW c \in Requests, NEW q \in Ids, Announced(q), row'[q] = row[q],
         \A d \in Requests \ {c} : req'[d] = req[d],
         req[c].pc \notin {"created", "answered"} \/ req[c].q # q
  PROVE  Announced(q)'
<1>1. PICK d \in Requests :
        /\ req[d].q = q
        /\ \/ req[d].pc = "created" /\ row[q] = Pending
           \/ req[d].pc = "answered" /\ row[q] # Pending
  BY DEF Announced
<1>2. req'[d] = req[d]
  BY <1>1
<1>3. QED BY <1>1, <1>2 DEF Announced

\* A question that stays as it is stays covered by items that only grow.
LEMMA StillCovered ==
  ASSUME NEW k \in Sockets, NEW items, NEW more, Covered(k, items), items \subseteq more,
         NEW q \in Asked, row'[q] = row[q], owner'[q] = owner[q], via'[q] = via[q],
         unsure \subseteq unsure', Wanted(k, q)',
         Announced(q) => Announced(q)' \/ <<q, row[q]>> \in more
  PROVE  <<q, row'[q]>> \in more \/ Announced(q)'
<1>1. Wanted(k, q)
  BY DEF Wanted, Sees, AskedElsewhere
<1>2. <<q, row[q]>> \in items \/ Announced(q)
  BY <1>1 DEF Covered
<1>3. QED BY <1>2

\* The lists cover everything as long as rows and people stay and every
\* announcement is kept.
LEMMA SameLists ==
  ASSUME QuestionsInv, UNCHANGED <<rows, people>>, unsure \subseteq unsure',
         \A q \in Ids : Announced(q) => Announced(q)'
  PROVE  Owned' /\ OneAnswer' /\ ListsCover'
<1>1. Owned' /\ OneAnswer'
  BY DEF QuestionsInv, Owned, OneAnswer, rows, people, sent
<1>2. ASSUME NEW k \in Sockets, NEW items, Covered(k, items) PROVE Covered(k, items)'
  <2> SUFFICES ASSUME NEW q \in Asked', Wanted(k, q)'
               PROVE  <<q, row'[q]>> \in items \/ Announced(q)'
    BY DEF Covered
  <2>1. q \in Asked /\ q \in Ids /\ row' = row /\ owner' = owner /\ via' = via
    BY DEF Asked, rows
  <2>2. QED BY <1>2, <2>1, StillCovered
<1>3. ListsCover'
  BY <1>2 DEF QuestionsInv, ListsCover, ListCovers, Due, Reached, people, joined, sent
<1>4. QED BY <1>1, <1>3

-----------------------------------------------------------------------------
(* Questions are asked *)

\* The student's event starts.
LEMMA AskKeeps ==
  ASSUME QuestionsInv, NEW c \in Requests, NEW k \in Sockets, Ask(c, k)
  PROVE  QuestionsInv'
<1> DEFINE h == [pc |-> "create", socket |-> k, q |-> None, answer |-> None, attempt |-> 1]
<1>1. /\ req[c].pc = "idle" /\ req' = [req EXCEPT ![c] = [Idle EXCEPT !.pc = "create", !.socket = k]]
      /\ UNCHANGED <<rows, people, faults, unsure>> /\ UserOf[k] \in Students
  BY QuestionsAssumption DEF Ask, IsTeacher, Users
<1>2. req'[c] = h /\ \A d \in Requests \ {c} : req'[d] = req[d]
  BY <1>1 DEF Idle, QuestionsInv, TypeOK
<1>3. TypeOK'
  <2>1. h \in RequestState
    BY DEF RequestState, Phases
  <2>2. req' = [d \in Requests |-> req'[d]]
    BY <1>1 DEF QuestionsInv, TypeOK
  <2>3. \A d \in Requests : req'[d] \in RequestState
    BY <1>2, <2>1 DEF QuestionsInv, TypeOK, RequestState
  <2>4. req' \in [Requests -> RequestState]
    BY <2>2, <2>3
  <2>5. QED BY <1>1, <2>4, SameTypes DEF QuestionsInv, TypeOK, rows
<1>4. \A d \in Requests \ {c} : req'[d] = req[d]
  BY <1>2
<1>5. RowsGoOn
  BY <1>1 DEF RowsGoOn, rows
<1>6. EventOK(c)'
  BY <1>1, <1>2 DEF EventOK
<1>7. EventsKnow'
  BY <1>4, <1>5, <1>6, OneEvent
<1>8. \A q \in Ids : Announced(q) => Announced(q)'
  BY <1>1, <1>4, StillAnnounced DEF rows
<1>9. Owned' /\ OneAnswer' /\ ListsCover'
  BY <1>1, <1>8, SameLists
<1>10. QED BY <1>3, <1>7, <1>9 DEF QuestionsInv

\* A new row disturbs no list: nobody has been sent a state of it.
LEMMA CreateKeeps ==
  ASSUME QuestionsInv, NEW c \in Requests, NEW q \in Ids, NEW k \in Sockets,
         Create(q, k), UserOf[k] \in Students,
         people' = people, unsure \subseteq unsure', unsure' \subseteq Ids, faults' \in 0..MaxFaults,
         req' \in [Requests -> RequestState], \A d \in Requests \ {c} : req'[d] = req[d],
         req[c].pc = "create", EventOK(c)', Announced(q)' \/ q \in unsure'
  PROVE  QuestionsInv'
<1>1. /\ row[q] = None /\ row'[q] = Pending /\ owner'[q] = UserOf[k] /\ via'[q] = k
      /\ \A p \in Ids \ {q} : row'[p] = row[p] /\ owner'[p] = owner[p] /\ via'[p] = via[p]
  BY DEF Create, QuestionsInv, TypeOK
<1>2. /\ row' \in [Ids -> States \cup {None}] /\ owner' \in [Ids -> Students \cup {None}]
      /\ via' \in [Ids -> Sockets \cup {None}]
  BY DEF Create, QuestionsInv, TypeOK, States
<1>3. TypeOK'
  BY <1>2, SameTypes DEF QuestionsInv
<1>4. RowsGoOn
  BY <1>1 DEF RowsGoOn
<1>5. EventsKnow'
  BY <1>4, OneEvent
<1>6. Owned'
  BY <1>1 DEF QuestionsInv, Owned
<1>7. \A o \in Sockets : \A i \in shown[o] \cup listing[o].rows : i \in Items
  BY DEF QuestionsInv, TypeOK
<1>8. None \notin States
  BY QuestionsAssumption DEF States, None, Pending
<1>9. OneAnswer'
  <2> SUFFICES ASSUME NEW o \in Sockets, NEW i \in shown[o] \cup listing[o].rows
               PROVE  i[2] \in {Pending, row'[i[1]]}
    BY DEF OneAnswer, people, sent
  <2>1. i[1] \in Ids /\ i[2] \in States /\ i[2] \in {Pending, row[i[1]]}
    BY <1>7 DEF Items, QuestionsInv, OneAnswer
  <2>2. QED BY <1>1, <1>8, <2>1
<1>10. ASSUME NEW o \in Sockets, NEW items, Covered(o, items) PROVE Covered(o, items)'
  <2> SUFFICES ASSUME NEW p \in Asked', Wanted(o, p)'
               PROVE  <<p, row'[p]>> \in items \/ Announced(p)'
    BY DEF Covered
  <2>1. CASE p = q
    BY <2>1 DEF Wanted
  <2>2. CASE p # q
    <3>1. p \in Asked /\ p \in Ids /\ row'[p] = row[p] /\ owner'[p] = owner[p] /\ via'[p] = via[p]
      BY <1>1, <2>2 DEF Asked
    <3>2. Announced(p) => Announced(p)'
      BY <3>1, StillAnnounced
    <3>3. QED BY <1>10, <3>1, <3>2, StillCovered
  <2>3. QED BY <2>1, <2>2
<1>11. ListsCover'
  BY <1>10 DEF QuestionsInv, ListsCover, ListCovers, Due, Reached, people, joined, sent
<1>12. QED BY <1>3, <1>5, <1>6, <1>9, <1>11 DEF QuestionsInv

\* The row is stored and its event goes on to announce it.
LEMMA AskCreateKeeps ==
  ASSUME QuestionsInv, NEW c \in Requests, NEW q \in Ids, AskCreate(c, q)
  PROVE  QuestionsInv'
<1>1. /\ req[c].pc = "create" /\ req[c].socket \in Sockets /\ UserOf[req[c].socket] \in Students
      /\ Create(q, req[c].socket)
  BY DEF AskCreate, QuestionsInv, EventsKnow, EventOK
<1>2. req' = [req EXCEPT ![c] = [req[c] EXCEPT !.pc = "created", !.q = q]]
  BY DEF AskCreate, QuestionsInv, TypeOK
<1>3. /\ req'[c].pc = "created" /\ req'[c].q = q /\ req'[c].socket = req[c].socket
      /\ req' \in [Requests -> RequestState] /\ \A d \in Requests \ {c} : req'[d] = req[d]
  <2> DEFINE h == [req[c] EXCEPT !.pc = "created", !.q = q]
  <2>1. req[c] \in RequestState /\ req \in [Requests -> RequestState]
    BY DEF QuestionsInv, TypeOK, RequestState
  <2>2. h \in RequestState /\ h.pc = "created" /\ h.q = q /\ h.socket = req[c].socket
    BY <2>1 DEF RequestState, Phases
  <2>3. req' = [req EXCEPT ![c] = h]
    BY <1>2
  <2> HIDE DEF h
  <2>4. QED BY <2>1, <2>2, <2>3
<1>4. row'[q] = Pending /\ via'[q] = req[c].socket /\ Pending # None
  BY <1>1 DEF Create, QuestionsInv, TypeOK, Pending, None
<1>5. EventOK(c)'
  BY <1>3, <1>4 DEF EventOK
<1>6. Announced(q)'
  BY <1>3, <1>4 DEF Announced
<1>7. people' = people /\ unsure' = unsure /\ faults' = faults
  BY DEF AskCreate
<1>8. unsure' \subseteq Ids /\ faults' \in 0..MaxFaults
  BY <1>7 DEF QuestionsInv, TypeOK
<1>9. QED BY <1>1, <1>3, <1>5, <1>6, <1>7, <1>8, CreateKeeps

\* A failed attempt leaves a row whose event may never come, or none.
LEMMA AskFailsKeeps ==
  ASSUME QuestionsInv, NEW c \in Requests, AskFails(c)
  PROVE  QuestionsInv'
<1>1. /\ req[c].pc = "create" /\ req[c].socket \in Sockets /\ UserOf[req[c].socket] \in Students
      /\ people' = people
  BY DEF AskFails, QuestionsInv, EventsKnow, EventOK
<1>2. faults' \in 0..MaxFaults
  BY FaultType DEF AskFails, QuestionsInv, TypeOK
<1>3. /\ req' \in [Requests -> RequestState] /\ \A d \in Requests \ {c} : req'[d] = req[d]
      /\ req'[c].pc = "create" => req'[c].socket = req[c].socket
      /\ req'[c].pc \in {"create", "idle"}
  <2>1. CASE req[c].attempt = 1
    <3> DEFINE h == [req[c] EXCEPT !.attempt = 2]
    <3>1. req[c] \in RequestState /\ req \in [Requests -> RequestState]
      BY DEF QuestionsInv, TypeOK, RequestState
    <3>2. h \in RequestState /\ h.pc = "create" /\ h.socket = req[c].socket
      BY <1>1, <3>1 DEF RequestState
    <3>3. req' = [req EXCEPT ![c] = h]
      BY <2>1, <3>1 DEF AskFails, RequestState
    <3> HIDE DEF h
    <3>4. QED BY <3>1, <3>2, <3>3
  <2>2. CASE req[c].attempt # 1
    BY <2>2, IdleType DEF AskFails, Done, QuestionsInv, TypeOK, RequestState
  <2>3. QED BY <2>1, <2>2
<1>4. EventOK(c)'
  BY <1>1, <1>3 DEF EventOK
<1>5. CASE UNCHANGED <<rows, unsure>>
  <2>1. TypeOK'
    BY <1>1, <1>2, <1>3, <1>5, SameTypes DEF QuestionsInv, TypeOK, rows
  <2>2. RowsGoOn
    BY <1>5 DEF RowsGoOn, rows
  <2>3. EventsKnow'
    BY <1>3, <1>4, <2>2, OneEvent
  <2>4. \A q \in Ids : Announced(q) => Announced(q)'
    BY <1>1, <1>3, <1>5, StillAnnounced DEF rows
  <2>5. Owned' /\ OneAnswer' /\ ListsCover'
    BY <1>1, <1>5, <2>4, SameLists
  <2>6. QED BY <2>1, <2>3, <2>5 DEF QuestionsInv
<1>6. ASSUME NEW q \in Ids, Create(q, req[c].socket), unsure' = unsure \cup {q} PROVE QuestionsInv'
  <2>1. unsure' \subseteq Ids /\ unsure \subseteq unsure' /\ q \in unsure'
    BY <1>6 DEF QuestionsInv, TypeOK
  <2>2. QED BY <1>1, <1>2, <1>3, <1>4, <1>6, <2>1, CreateKeeps
<1>7. QED BY <1>5, <1>6 DEF AskFails

-----------------------------------------------------------------------------
(* Questions are answered *)

\* The teacher's event starts with a pending question.
LEMMA AnswerFindKeeps ==
  ASSUME QuestionsInv, NEW c \in Requests, NEW k \in Sockets, NEW q \in Ids, NEW a \in Answers,
         AnswerFind(c, k, q, a)
  PROVE  QuestionsInv'
<1> DEFINE h == [pc |-> "update", socket |-> None, q |-> q, answer |-> a, attempt |-> 1]
<1>1. /\ req[c].pc = "idle" /\ row[q] = Pending /\ req' = [req EXCEPT ![c] = h]
      /\ UNCHANGED <<rows, people, faults, unsure>>
  BY DEF AnswerFind
<1>2. row[q] # None
  BY <1>1 DEF Pending, None
<1>3. req'[c] = h /\ \A d \in Requests \ {c} : req'[d] = req[d]
  BY <1>1 DEF QuestionsInv, TypeOK
<1>4. TypeOK'
  <2>1. h \in RequestState
    BY DEF RequestState, Phases
  <2>2. req' \in [Requests -> RequestState]
    BY <1>1, <2>1 DEF QuestionsInv, TypeOK, RequestState
  <2>3. QED BY <1>1, <2>2, SameTypes DEF QuestionsInv, TypeOK, rows
<1>5. RowsGoOn
  BY <1>1 DEF RowsGoOn, rows
<1>6. EventOK(c)'
  BY <1>1, <1>2, <1>3 DEF EventOK, rows
<1>7. EventsKnow'
  BY <1>3, <1>5, <1>6, OneEvent
<1>8. \A p \in Ids : Announced(p) => Announced(p)'
  BY <1>1, <1>3, StillAnnounced DEF rows
<1>9. Owned' /\ OneAnswer' /\ ListsCover'
  BY <1>1, <1>8, SameLists
<1>10. QED BY <1>4, <1>7, <1>9 DEF QuestionsInv

\* A pending row gets its answer: whatever anybody was sent of it was the
\* pending question, and the answer will be announced or its reply was lost.
LEMMA StoreKeeps ==
  ASSUME QuestionsInv, NEW c \in Requests, NEW q \in Ids, req[c].pc = "update", req[c].q = q,
         row[q] = Pending, row' = [row EXCEPT ![q] = req[c].answer], owner' = owner, via' = via,
         people' = people, unsure \subseteq unsure', unsure' \subseteq Ids, faults' \in 0..MaxFaults,
         req' \in [Requests -> RequestState], \A d \in Requests \ {c} : req'[d] = req[d],
         \/ req'[c] = [req[c] EXCEPT !.pc = "answered"]
         \/ req'[c] = Idle /\ q \in unsure'
  PROVE  QuestionsInv'
<1>1. req[c].answer \in Answers /\ row[q] # None
  BY DEF QuestionsInv, EventsKnow, EventOK
<1>2. req[c].answer \notin {Pending, None}
  BY <1>1, QuestionsAssumption DEF Pending, None
<1>3. row'[q] = req[c].answer /\ \A p \in Ids \ {q} : row'[p] = row[p]
  BY <1>1 DEF QuestionsInv, TypeOK
<1>4. TypeOK'
  BY <1>1, SameTypes DEF QuestionsInv, TypeOK, States
<1>5. RowsGoOn
  BY <1>1, <1>2, <1>3 DEF RowsGoOn
<1>6. ASSUME req'[c] = [req[c] EXCEPT !.pc = "answered"] PROVE EventOK(c)' /\ Announced(q)'
  <2>1. /\ req'[c].pc = "answered" /\ req'[c].q = q /\ req'[c].answer = req[c].answer
    BY <1>6 DEF QuestionsInv, TypeOK
  <2>2. EventOK(c)'
    BY <1>1, <1>2, <1>3, <2>1 DEF EventOK
  <2>3. Announced(q)'
    BY <1>2, <1>3, <2>1 DEF Announced
  <2>4. QED BY <2>2, <2>3
<1>7. ASSUME req'[c] = Idle PROVE EventOK(c)'
  BY <1>7 DEF EventOK, Idle
<1>8. EventOK(c)' /\ (Announced(q)' \/ q \in unsure')
  BY <1>6, <1>7
<1>9. EventsKnow'
  BY <1>5, <1>8, OneEvent
<1>10. Owned'
  BY <1>1, <1>3 DEF QuestionsInv, Owned
<1>11. OneAnswer'
  <2> SUFFICES ASSUME NEW o \in Sockets, NEW i \in shown[o] \cup listing[o].rows
               PROVE  i[2] \in {Pending, row'[i[1]]}
    BY DEF OneAnswer, people, sent
  <2>1. i[1] \in Ids /\ i[2] \in {Pending, row[i[1]]}
    BY DEF Items, QuestionsInv, TypeOK, OneAnswer
  <2>2. QED BY <1>3, <2>1
<1>12. ASSUME NEW k \in Sockets, NEW items, Covered(k, items) PROVE Covered(k, items)'
  <2> SUFFICES ASSUME NEW p \in Asked', Wanted(k, p)'
               PROVE  <<p, row'[p]>> \in items \/ Announced(p)'
    BY DEF Covered
  <2>1. CASE p = q
    BY <1>8, <2>1 DEF Wanted
  <2>2. CASE p # q
    <3>1. p \in Asked /\ p \in Ids /\ row'[p] = row[p] /\ owner'[p] = owner[p] /\ via'[p] = via[p]
      BY <1>3, <2>2 DEF Asked
    <3>2. Announced(p) => Announced(p)'
      BY <3>1, StillAnnounced
    <3>3. QED BY <1>12, <3>1, <3>2, StillCovered
  <2>3. QED BY <2>1, <2>2
<1>13. ListsCover'
  BY <1>12 DEF QuestionsInv, ListsCover, ListCovers, Due, Reached, people, joined, sent
<1>14. QED BY <1>4, <1>9, <1>10, <1>11, <1>13 DEF QuestionsInv

\* An event that ends without having changed a row.
LEMMA NothingStored ==
  ASSUME QuestionsInv, NEW c \in Requests, req[c].pc = "update", Done(c),
         UNCHANGED <<rows, people, unsure>>, faults' \in 0..MaxFaults
  PROVE  QuestionsInv'
<1>1. req'[c] = Idle /\ \A d \in Requests \ {c} : req'[d] = req[d]
  BY DEF Done, QuestionsInv, TypeOK
<1>2. TypeOK'
  BY IdleType, SameTypes DEF Done, QuestionsInv, TypeOK, rows, RequestState
<1>3. RowsGoOn
  BY DEF RowsGoOn, rows
<1>4. EventOK(c)'
  BY <1>1 DEF EventOK, Idle
<1>5. EventsKnow'
  BY <1>1, <1>3, <1>4, OneEvent
<1>6. \A p \in Ids : Announced(p) => Announced(p)'
  BY <1>1, StillAnnounced DEF rows
<1>7. Owned' /\ OneAnswer' /\ ListsCover'
  BY <1>6, SameLists
<1>8. QED BY <1>2, <1>5, <1>7 DEF QuestionsInv

\* The conditional update stores the answer, or finds the row answered.
LEMMA AnswerUpdateKeeps ==
  ASSUME QuestionsInv, NEW c \in Requests, AnswerUpdate(c)
  PROVE  QuestionsInv'
<1>1. /\ req[c].pc = "update" /\ owner' = owner /\ via' = via /\ people' = people /\ faults' = faults
      /\ unsure' = unsure /\ faults' \in 0..MaxFaults /\ unsure' \subseteq Ids
  BY DEF AnswerUpdate, QuestionsInv, TypeOK
<1>2. CASE row[req[c].q] = Pending
  <2>1. req' = [req EXCEPT ![c] = [req[c] EXCEPT !.pc = "answered"]]
    BY <1>2 DEF AnswerUpdate, QuestionsInv, TypeOK
  <2>2. req'[c] = [req[c] EXCEPT !.pc = "answered"] /\ \A d \in Requests \ {c} : req'[d] = req[d]
    BY <2>1 DEF QuestionsInv, TypeOK
  <2>3. req' \in [Requests -> RequestState]
    BY <2>1 DEF QuestionsInv, TypeOK, RequestState, Phases
  <2>4. req[c].q \in Ids /\ row' = [row EXCEPT ![req[c].q] = req[c].answer]
    BY <1>1, <1>2 DEF AnswerUpdate, QuestionsInv, EventsKnow, EventOK
  <2>5. QED BY <1>1, <1>2, <2>2, <2>3, <2>4, StoreKeeps
<1>3. CASE row[req[c].q] # Pending
  BY <1>1, <1>3, NothingStored DEF AnswerUpdate, rows
<1>4. QED BY <1>2, <1>3

\* The update fails before or after the commit.
LEMMA AnswerFailsKeeps ==
  ASSUME QuestionsInv, NEW c \in Requests, AnswerFails(c)
  PROVE  QuestionsInv'
<1>1. /\ req[c].pc = "update" /\ owner' = owner /\ via' = via /\ people' = people /\ Done(c)
      /\ faults' \in 0..MaxFaults
  BY FaultType DEF AnswerFails, QuestionsInv
<1>2. CASE UNCHANGED <<row, unsure>>
  BY <1>1, <1>2, NothingStored DEF rows
<1>3. CASE /\ row[req[c].q] = Pending /\ row' = [row EXCEPT ![req[c].q] = req[c].answer]
           /\ unsure' = unsure \cup {req[c].q}
  <2>1. req'[c] = Idle /\ \A d \in Requests \ {c} : req'[d] = req[d]
    BY <1>1 DEF Done, QuestionsInv, TypeOK
  <2>2. req' \in [Requests -> RequestState]
    BY <1>1, IdleType DEF Done, QuestionsInv, TypeOK, RequestState
  <2>3. req[c].q \in Ids
    BY <1>1 DEF QuestionsInv, EventsKnow, EventOK
  <2>4. unsure \subseteq unsure' /\ unsure' \subseteq Ids /\ req[c].q \in unsure'
    BY <1>3, <2>3 DEF QuestionsInv, TypeOK
  <2>5. QED BY <1>1, <1>3, <2>1, <2>2, <2>3, <2>4, StoreKeeps
<1>4. QED BY <1>2, <1>3 DEF AnswerFails

-----------------------------------------------------------------------------
(* Events are sent, lists are read, users come and go *)

\* Sending an event covers its question, for every socket that is to be told.
LEMMA TellKeeps ==
  ASSUME QuestionsInv, NEW c \in Requests, NEW q \in Ids, NEW state \in States, NEW other,
         req[c].q = q, row[q] # None, state \in {Pending, row[q]},
         state = row[q] \/ req[c].pc = "created",
         \A k \in Sockets : Reached(k) /\ Wanted(k, q) /\ state = row[q] => IsTeacher(k) \/ k = other,
         Emit(other, <<q, state>>), Done(c),
         UNCHANGED <<rows, joined, listing, listed, faults, moves, unsure>>
  PROVE  QuestionsInv'
<1>1. req'[c] = Idle /\ \A d \in Requests \ {c} : req'[d] = req[d]
  BY DEF Done, QuestionsInv, TypeOK
<1>2. req' \in [Requests -> RequestState]
  BY IdleType DEF Done, QuestionsInv, TypeOK, RequestState
<1>3. shown' \in [Sockets -> SUBSET Items]
  BY EmitType DEF Items, QuestionsInv
<1>4. \A k \in Sockets : Reached(k)' <=> Reached(k)
  BY DEF Reached, joined
<1>5. TypeOK'
  BY <1>2, <1>3, <1>4 DEF QuestionsInv, TypeOK, rows, joined, RequestState
<1>6. RowsGoOn
  BY DEF RowsGoOn, rows
<1>7. EventOK(c)'
  BY <1>1 DEF EventOK, Idle
<1>8. EventsKnow'
  BY <1>1, <1>6, <1>7, OneEvent
<1>9. Owned'
  BY DEF QuestionsInv, Owned, rows
<1>10. \A k \in Sockets :
        /\ shown'[k] \subseteq shown[k] \cup {<<q, state>>} /\ shown[k] \subseteq shown'[k]
        /\ Reached(k) /\ (IsTeacher(k) \/ k = other) => <<q, state>> \in shown'[k]
  BY DEF Emit, Reached
<1>11. OneAnswer'
  BY <1>10 DEF QuestionsInv, OneAnswer, rows
<1>12. ASSUME NEW k \in Sockets, Reached(k), NEW items, Covered(k, items), NEW more,
              items \subseteq more, shown'[k] \subseteq more
       PROVE  Covered(k, more)'
  <2> SUFFICES ASSUME NEW p \in Asked', Wanted(k, p)'
               PROVE  <<p, row'[p]>> \in more \/ Announced(p)'
    BY DEF Covered
  <2>1. p \in Asked /\ p \in Ids /\ row' = row /\ owner' = owner /\ via' = via /\ Wanted(k, p)
    BY DEF Asked, Wanted, Sees, AskedElsewhere, rows
  <2>2. CASE p = q /\ state = row[q]
    <3>1. IsTeacher(k) \/ k = other
      BY <1>12, <2>1, <2>2
    <3>2. QED BY <1>10, <1>12, <2>1, <2>2, <3>1
  <2>3. CASE p = q /\ state # row[q]
    <3>1. req[c].pc = "created" /\ row[p] # Pending
      BY <2>3
    <3>2. Announced(p) => Announced(p)'
      <4> SUFFICES ASSUME Announced(p) PROVE Announced(p)'
        OBVIOUS
      <4>1. PICK d \in Requests : req[d].q = p /\ req[d].pc = "answered"
        BY <3>1 DEF Announced
      <4>2. req'[d] = req[d]
        BY <1>1, <3>1, <4>1
      <4>3. QED BY <2>1, <3>1, <4>1, <4>2 DEF Announced
    <3>3. QED BY <1>12, <2>1, <3>2, StillCovered
  <2>4. CASE p # q
    <3>1. Announced(p) => Announced(p)'
      BY <1>1, <2>1, <2>4, StillAnnounced
    <3>2. QED BY <1>12, <2>1, <3>1, StillCovered
  <2>5. QED BY <2>2, <2>3, <2>4
<1>13. ASSUME NEW k \in Sockets PROVE ListCovers(k)'
  <2>1. ASSUME k \in listed PROVE Covered(k, shown[k])'
    <3>1. Reached(k) /\ Covered(k, shown[k])
      BY <2>1 DEF QuestionsInv, TypeOK, ListsCover, ListCovers
    <3>2. PICK more : more = shown'[k]
      OBVIOUS
    <3>3. Covered(k, more)'
      BY <1>10, <1>12, <3>1, <3>2
    <3>4. QED BY <3>2, <3>3 DEF Covered
  <2>2. ASSUME Due(k) PROVE Reached(k)' /\ Covered(k, shown[k] \cup listing[k].rows)'
    <3>1. Reached(k) /\ Covered(k, shown[k] \cup listing[k].rows)
      BY <2>2 DEF QuestionsInv, ListsCover, ListCovers
    <3>2. PICK more : more = shown'[k] \cup listing[k].rows
      OBVIOUS
    <3>3. Covered(k, more)'
      BY <1>10, <1>12, <3>1, <3>2
    <3>4. QED BY <1>4, <3>1, <3>2, <3>3 DEF Covered
  <2>3. QED BY <2>1, <2>2 DEF ListCovers, Due
<1>14. QED BY <1>5, <1>8, <1>9, <1>11, <1>13 DEF QuestionsInv, ListsCover

\* QUESTION_ACK and QUESTION_NEW.
LEMMA AskTellKeeps ==
  ASSUME QuestionsInv, NEW c \in Requests, AskTell(c)
  PROVE  QuestionsInv'
<1>1. req[c].q \in Ids /\ row[req[c].q] # None /\ req[c].socket = via[req[c].q]
  BY DEF AskTell, QuestionsInv, EventsKnow, EventOK
<1>2. Pending \in States
  BY DEF States
<1>3. \A k \in Sockets : Wanted(k, req[c].q) /\ Pending = row[req[c].q] => IsTeacher(k) \/ k = req[c].socket
  BY <1>1 DEF Wanted, AskedElsewhere
<1>4. QED BY <1>1, <1>2, <1>3, TellKeeps DEF AskTell

\* QUESTION_ANSWERED.
LEMMA AnswerTellKeeps ==
  ASSUME QuestionsInv, NEW c \in Requests, AnswerTell(c)
  PROVE  QuestionsInv'
<1>1. /\ req[c].q \in Ids /\ row[req[c].q] # None
      /\ req[c].answer \in Answers /\ row[req[c].q] = req[c].answer
  BY DEF AnswerTell, QuestionsInv, EventsKnow, EventOK
<1>2. req[c].answer \in States
  BY <1>1 DEF States
<1>3. \A k \in Sockets : Reached(k) /\ Wanted(k, req[c].q) => IsTeacher(k) \/ k = presence[owner[req[c].q]]
  BY DEF Reached, Wanted, Sees
<1>4. QED BY <1>1, <1>2, <1>3, TellKeeps DEF AnswerTell

\* What holds of rows and events holds after a step that leaves both.
LEMMA SameEvents ==
  ASSUME QuestionsInv, UNCHANGED <<rows, req>>
  PROVE  Owned' /\ EventsKnow'
BY DEF QuestionsInv, Owned, EventsKnow, EventOK, rows

\* What a socket was sent covers the same while rows and events stay.
LEMMA SameCovers ==
  ASSUME UNCHANGED <<rows, req, unsure>>, NEW k \in Sockets, NEW items, Covered(k, items)
  PROVE  Covered(k, items)'
BY DEF Covered, Asked, Wanted, Sees, AskedElsewhere, Announced, rows

\* The list read from the database has every question that the user may see.
LEMMA ListReadKeeps ==
  ASSUME QuestionsInv, NEW k \in Sockets, ListRead(k)
  PROVE  QuestionsInv'
<1> DEFINE read == {<<q, row[q]>> : q \in {p \in Asked : Sees(k, p)}}
<1>1. /\ UNCHANGED <<rows, joined, listed, shown, req, faults, unsure>> /\ Move
      /\ listing' = [listing EXCEPT ![k] = [on |-> TRUE, rows |-> read, fresh |-> Reached(k)]]
  BY DEF ListRead
<1>2. read \subseteq Items
  BY DEF Asked, Items, States, QuestionsInv, TypeOK
<1>3. /\ listing'[k].on /\ listing'[k].rows = read /\ listing'[k].fresh = Reached(k)
      /\ \A o \in Sockets \ {k} : listing'[o] = listing[o]
  BY <1>1 DEF QuestionsInv, TypeOK
<1>4. \A o \in Sockets : Reached(o)' <=> Reached(o)
  BY <1>1 DEF Reached, joined
<1>5. TypeOK'
  <2>1. listing' \in [Sockets -> ListState]
    <3>1. Reached(k) \in BOOLEAN
      BY DEF Reached, IsTeacher
    <3>2. QED BY <1>1, <1>2, <3>1 DEF QuestionsInv, TypeOK, ListState
  <2>2. moves' \in 0..MaxMoves
    BY <1>1, MoveType DEF QuestionsInv
  <2>3. QED BY <1>1, <1>4, <2>1, <2>2 DEF QuestionsInv, TypeOK, rows, joined, ListState
<1>6. \A i \in read : i[2] = row[i[1]]
  OBVIOUS
<1>7. OneAnswer'
  BY <1>1, <1>3, <1>6 DEF QuestionsInv, OneAnswer, rows
<1>8. ASSUME NEW o \in Sockets PROVE ListCovers(o)'
  <2>1. ASSUME o \in listed PROVE Covered(o, shown[o])'
    <3>1. PICK items : items = shown[o]
      OBVIOUS
    <3>2. Covered(o, items)'
      BY <1>1, <2>1, <3>1, SameCovers DEF QuestionsInv, ListsCover, ListCovers
    <3>3. QED BY <1>1, <3>1, <3>2 DEF Covered
  <2>2. ASSUME o # k, Due(o)' PROVE Reached(o)' /\ Covered(o, shown[o] \cup listing[o].rows)'
    <3>1. listing'[o] = listing[o] /\ shown'[o] = shown[o]
      BY <1>1, <1>3, <2>2
    <3>2. PICK items : items = shown[o] \cup listing[o].rows
      OBVIOUS
    <3>3. Reached(o) /\ Covered(o, items)
      BY <2>2, <3>1, <3>2 DEF Due, QuestionsInv, ListsCover, ListCovers
    <3>4. Covered(o, items)'
      BY <1>1, <3>3, SameCovers
    <3>5. QED BY <1>4, <3>1, <3>2, <3>3, <3>4 DEF Covered
  <2>3. Covered(k, shown[k] \cup listing[k].rows)'
    BY <1>1, <1>3 DEF Covered, Asked, Wanted, Sees, rows
  <2>4. Due(k)' => Reached(k)'
    BY <1>3, <1>4 DEF Due
  <2>5. QED BY <1>1, <2>1, <2>2, <2>3, <2>4 DEF ListCovers
<1>9. QED BY <1>1, <1>5, <1>7, <1>8, SameEvents DEF QuestionsInv, ListsCover

\* The list that is sent has what was read, and the events since then.
LEMMA ListSendKeeps ==
  ASSUME QuestionsInv, NEW k \in Sockets, ListSend(k)
  PROVE  QuestionsInv'
<1>1. /\ listing[k].on /\ UNCHANGED <<rows, joined, req, faults, moves, unsure>>
      /\ shown' = [shown EXCEPT ![k] = @ \cup listing[k].rows]
      /\ listing' = [listing EXCEPT ![k] = NoList]
      /\ listed' = IF listing[k].fresh THEN listed \cup {k} ELSE listed
  BY DEF ListSend
<1>2. \A o \in Sockets : Reached(o)' <=> Reached(o)
  BY <1>1 DEF Reached, joined
<1>3. Due(k) => Reached(k) /\ Covered(k, shown[k] \cup listing[k].rows)
  BY DEF QuestionsInv, ListsCover, ListCovers
<1>4. TypeOK'
  <2>1. listing' \in [Sockets -> ListState]
    BY <1>1, NoListType DEF QuestionsInv, TypeOK, ListState
  <2>2. shown' \in [Sockets -> SUBSET Items]
    BY <1>1 DEF QuestionsInv, TypeOK
  <2>3. \A o \in listed' : o \in Sockets /\ Reached(o)'
    BY <1>1, <1>2, <1>3 DEF Due, QuestionsInv, TypeOK
  <2>4. QED BY <1>1, <2>1, <2>2, <2>3 DEF QuestionsInv, TypeOK, rows, joined, ListState
<1>5. /\ shown'[k] = shown[k] \cup listing[k].rows /\ listing'[k] = NoList
      /\ \A o \in Sockets \ {k} : shown'[o] = shown[o] /\ listing'[o] = listing[o]
  BY <1>1 DEF QuestionsInv, TypeOK
<1>6. OneAnswer'
  BY <1>1, <1>5, NoListType DEF QuestionsInv, OneAnswer, rows
<1>7. ASSUME NEW o \in Sockets PROVE ListCovers(o)'
  <2>1. ASSUME o \in listed' PROVE Covered(o, shown[o])'
    <3>1. PICK items : items = shown'[o]
      OBVIOUS
    <3>2. Covered(o, items)
      <4>1. CASE o \in listed
        <5>1. Covered(o, shown[o]) /\ shown[o] \subseteq items
          BY <1>5, <3>1, <4>1 DEF QuestionsInv, ListsCover, ListCovers
        <5>2. QED BY <5>1 DEF Covered
      <4>2. CASE o \notin listed
        BY <1>1, <1>3, <1>5, <2>1, <3>1, <4>2 DEF Due
      <4>3. QED BY <4>1, <4>2
    <3>3. Covered(o, items)'
      BY <1>1, <3>2, SameCovers
    <3>4. QED BY <3>1, <3>3 DEF Covered
  <2>2. ASSUME Due(o)' PROVE Reached(o)' /\ Covered(o, shown[o] \cup listing[o].rows)'
    <3>1. o # k /\ listing'[o] = listing[o] /\ shown'[o] = shown[o]
      BY <1>5, <2>2, NoListType DEF Due
    <3>2. PICK items : items = shown[o] \cup listing[o].rows
      OBVIOUS
    <3>3. Reached(o) /\ Covered(o, items)
      BY <2>2, <3>1, <3>2 DEF Due, QuestionsInv, ListsCover, ListCovers
    <3>4. Covered(o, items)'
      BY <1>1, <3>3, SameCovers
    <3>5. QED BY <1>2, <3>1, <3>2, <3>3, <3>4 DEF Covered
  <2>3. QED BY <2>1, <2>2 DEF ListCovers
<1>8. QED BY <1>1, <1>4, <1>6, <1>7, SameEvents DEF QuestionsInv, ListsCover

\* Sockets come and go: each keeps what it was sent and is still reached, or it
\* has no list that events must go on with.
LEMMA PeopleKeep ==
  ASSUME QuestionsInv, TypeOK', UNCHANGED <<rows, req, unsure>>,
         \A o \in Sockets :
           /\ listing'[o].rows \subseteq listing[o].rows /\ shown'[o] \subseteq shown[o]
           /\ \/ /\ shown'[o] = shown[o] /\ listing'[o] = listing[o]
                 /\ (o \in listed' <=> o \in listed) /\ (Reached(o) => Reached(o)')
              \/ o \notin listed' /\ ~Due(o)'
  PROVE  QuestionsInv'
<1>1. OneAnswer'
  BY DEF QuestionsInv, OneAnswer, rows
<1>2. ASSUME NEW o \in Sockets PROVE ListCovers(o)'
  <2>1. CASE o \notin listed' /\ ~Due(o)'
    BY <2>1 DEF ListCovers
  <2>2. CASE /\ shown'[o] = shown[o] /\ listing'[o] = listing[o]
             /\ (o \in listed' <=> o \in listed) /\ (Reached(o) => Reached(o)')
    <3>1. PICK one : one = shown[o]
      OBVIOUS
    <3>2. PICK both : both = shown[o] \cup listing[o].rows
      OBVIOUS
    <3>3. /\ o \in listed => Covered(o, one)
          /\ Due(o) => Reached(o) /\ Covered(o, both)
      BY <3>1, <3>2 DEF QuestionsInv, ListsCover, ListCovers
    <3>4. (Covered(o, one) => Covered(o, one)') /\ (Covered(o, both) => Covered(o, both)')
      BY SameCovers
    <3>5. Due(o)' <=> Due(o)
      BY <2>2 DEF Due
    <3>6. (Covered(o, one)' => Covered(o, shown[o])')
          /\ (Covered(o, both)' => Covered(o, shown[o] \cup listing[o].rows)')
      BY <2>2, <3>1, <3>2 DEF Covered
    <3>7. QED BY <2>2, <3>3, <3>4, <3>5, <3>6 DEF ListCovers
  <2>3. QED BY <2>1, <2>2
<1>3. QED BY <1>1, <1>2, SameEvents DEF QuestionsInv, ListsCover

\* The sockets that go take their lists with them.
LEMMA GoneKeeps ==
  ASSUME QuestionsInv, NEW left \in SUBSET Sockets, Gone(left), UNCHANGED <<rows, req, unsure>>,
         tails' \subseteq Sockets, presence' \in [Users -> Sockets \cup {None}],
         faults' \in 0..MaxFaults, moves' \in 0..MaxMoves,
         \A o \in Sockets \ left : Reached(o) => Reached(o)'
  PROVE  QuestionsInv'
<1>1. \A o \in Sockets :
        IF o \in left THEN listing'[o] = NoList /\ shown'[o] = {} /\ o \notin listed'
                      ELSE /\ listing'[o] = listing[o] /\ shown'[o] = shown[o]
                           /\ o \in listed' <=> o \in listed
  BY DEF Gone
<1>2. TypeOK'
  <2>1. /\ link' \in [Sockets -> {"new", "in", "away", "out"}]
        /\ listing' \in [Sockets -> ListState] /\ shown' \in [Sockets -> SUBSET Items]
    BY GoneType DEF QuestionsInv
  <2>2. \A o \in listed' : o \in Sockets /\ Reached(o)'
    BY <1>1 DEF Gone, QuestionsInv, TypeOK
  <2>3. QED BY <2>1, <2>2 DEF QuestionsInv, TypeOK, rows, ListState
<1>3. \A o \in Sockets : listing'[o].rows \subseteq listing[o].rows /\ shown'[o] \subseteq shown[o]
  BY <1>1, NoListType
<1>4. \A o \in left : o \notin listed' /\ ~Due(o)'
  BY <1>1, NoListType DEF Due
<1>5. QED BY <1>1, <1>2, <1>3, <1>4, PeopleKeep

\* A socket that enters has no list yet.
LEMMA EnterKeeps ==
  ASSUME QuestionsInv, NEW k \in Sockets, Enter(k)
  PROVE  QuestionsInv'
<1>1. /\ link' = [link EXCEPT ![k] = "in"] /\ tails' = tails \cup {k}
      /\ UNCHANGED <<rows, presence, sent, req, faults, moves, unsure>>
  BY DEF Enter
<1>2. \A o \in Sockets : Reached(o) => Reached(o)'
  BY <1>1 DEF Reached, QuestionsInv, TypeOK
<1>3. TypeOK'
  BY <1>1, <1>2 DEF QuestionsInv, TypeOK, rows, sent
<1>4. QED BY <1>1, <1>2, <1>3, PeopleKeep DEF sent

\* The socket that registers takes the place of another one of its user.
LEMMA RegisterKeeps ==
  ASSUME QuestionsInv, NEW k \in Sockets, Register(k)
  PROVE  QuestionsInv'
<1> DEFINE u == UserOf[k]
           kicked == {o \in Sockets \ {k} : o = presence[u] /\ link[o] \in {"in", "away"}}
<1>1. /\ tails' = tails \ {k} /\ Gone(kicked) /\ UNCHANGED <<rows, req, faults, moves, unsure>>
      /\ \/ presence' = [presence EXCEPT ![u] = k]
         \/ kicked # {} /\ presence' = [presence EXCEPT ![u] = None]
  BY DEF Register
<1>2. u \in Users
  BY QuestionsAssumption
<1>3. /\ tails' \subseteq Sockets /\ presence' \in [Users -> Sockets \cup {None}]
      /\ faults' \in 0..MaxFaults /\ moves' \in 0..MaxMoves
  BY <1>1, <1>2 DEF QuestionsInv, TypeOK
<1>4. ASSUME NEW o \in Sockets \ kicked, Reached(o) PROVE Reached(o)'
  <2>1. link'[o] = "in"
    BY <1>1, <1>4 DEF Gone, Reached
  <2>2. ASSUME ~IsTeacher(o) PROVE presence'[UserOf[o]] = o
    <3>1. presence[UserOf[o]] = o /\ link[o] = "in" /\ UserOf[o] \in Users
      BY <1>4, <2>2, QuestionsAssumption DEF Reached
    <3>2. CASE UserOf[o] # u
      BY <1>1, <1>2, <3>1, <3>2 DEF QuestionsInv, TypeOK
    <3>3. CASE UserOf[o] = u
      <4>1. o = k
        BY <1>4, <3>1, <3>3
      <4>2. kicked = {}
        BY <3>1, <3>3, <4>1
      <4>3. QED BY <1>1, <1>2, <3>3, <4>1, <4>2 DEF QuestionsInv, TypeOK
    <3>4. QED BY <3>2, <3>3
  <2>3. QED BY <2>1, <2>2 DEF Reached
<1>5. kicked \in SUBSET Sockets
  OBVIOUS
<1>6. QED BY <1>1, <1>3, <1>4, <1>5, GoneKeeps

\* A socket that disconnects takes only its own entry along.
LEMMA DisconnectKeeps ==
  ASSUME QuestionsInv, NEW k \in Sockets, Disconnect(k)
  PROVE  QuestionsInv'
<1>1. /\ Gone({k}) /\ {k} \in SUBSET Sockets /\ UNCHANGED <<rows, tails, req, faults, unsure>> /\ Move
      /\ \/ presence' = presence
         \/ presence[UserOf[k]] = k /\ presence' = [presence EXCEPT ![UserOf[k]] = None]
  BY DEF Disconnect
<1>2. /\ tails' \subseteq Sockets /\ presence' \in [Users -> Sockets \cup {None}]
      /\ faults' \in 0..MaxFaults /\ moves' \in 0..MaxMoves
  BY <1>1, MoveType DEF QuestionsInv, TypeOK
<1>3. ASSUME NEW o \in Sockets \ {k}, Reached(o) PROVE Reached(o)'
  <2>1. link'[o] = "in" /\ UserOf[o] \in Users
    BY <1>1, <1>3, QuestionsAssumption DEF Gone, Reached
  <2>2. presence[UserOf[o]] = o => presence'[UserOf[o]] = o
    BY <1>1, <2>1 DEF QuestionsInv, TypeOK
  <2>3. QED BY <1>3, <2>1, <2>2 DEF Reached
<1>4. QED BY <1>1, <1>2, <1>3, GoneKeeps

\* A socket that changes the room leaves its list behind.
LEMMA LeaveKeeps ==
  ASSUME QuestionsInv, NEW k \in Sockets, Leave(k)
  PROVE  QuestionsInv'
<1>1. /\ link' = [link EXCEPT ![k] = "away"] /\ listed' = listed \ {k}
      /\ shown' = [shown EXCEPT ![k] = {}] /\ listing' = [listing EXCEPT ![k].fresh = FALSE]
      /\ UNCHANGED <<rows, tails, presence, req, faults, unsure>> /\ Move
  BY DEF Leave
<1>2. /\ shown'[k] = {} /\ listing'[k].rows = listing[k].rows /\ ~listing'[k].fresh
      /\ \A o \in Sockets \ {k} : shown'[o] = shown[o] /\ listing'[o] = listing[o]
  BY <1>1 DEF QuestionsInv, TypeOK
<1>3. \A o \in Sockets \ {k} : Reached(o) => Reached(o)'
  BY <1>1 DEF Reached, QuestionsInv, TypeOK
<1>4. TypeOK'
  <2>1. moves' \in 0..MaxMoves
    BY <1>1, MoveType DEF QuestionsInv
  <2>2. listing' \in [Sockets -> ListState] /\ shown' \in [Sockets -> SUBSET Items]
    BY <1>1 DEF QuestionsInv, TypeOK, ListState
  <2>3. QED BY <1>1, <1>3, <2>1, <2>2 DEF QuestionsInv, TypeOK, rows, ListState
<1>5. k \notin listed' /\ ~Due(k)'
  BY <1>1, <1>2 DEF Due
<1>6. \A o \in Sockets \ {k} : o \in listed' <=> o \in listed
  BY <1>1
<1>7. QED BY <1>1, <1>2, <1>3, <1>4, <1>5, <1>6, PeopleKeep

\* The server restarts: nobody is connected, no event is in flight.
LEMMA RestartKeeps ==
  ASSUME QuestionsInv, Restart
  PROVE  QuestionsInv'
<1> DEFINE left == {k \in Sockets : link[k] # "new"}
<1>1. /\ Gone(left) /\ left \in SUBSET Sockets /\ UNCHANGED <<rows, moves, unsure>> /\ tails' = {}
      /\ presence' = [u \in Users |-> None] /\ req' = [c \in Requests |-> Idle]
  BY DEF Restart
<1>2. TypeOK /\ faults' \in 0..MaxFaults
  BY FaultType DEF Restart, QuestionsInv
<1>3. req' \in [Requests -> RequestState]
  BY <1>1, IdleType
<1>4. \A k \in Sockets : Reached(k) => k \in left
  BY DEF Reached
<1>5. \A k \in Sockets :
        IF k \in left THEN listing'[k] = NoList /\ shown'[k] = {} /\ k \notin listed'
                      ELSE /\ listing'[k] = listing[k] /\ shown'[k] = shown[k]
                           /\ k \in listed' <=> k \in listed
  BY <1>1 DEF Gone
<1>6. listed' = {}
  BY <1>1, <1>2, <1>4 DEF Gone, TypeOK
<1>7. TypeOK'
  BY <1>1, <1>2, <1>3, <1>6, GoneType DEF TypeOK, rows, RequestState, ListState
<1>8. OneAnswer'
  BY <1>1, <1>5, NoListType DEF QuestionsInv, OneAnswer, rows
<1>9. \A k \in Sockets : ~Due(k)'
  BY <1>4, <1>5, NoListType DEF Due, QuestionsInv, ListsCover, ListCovers
<1>10. ListsCover'
  BY <1>6, <1>9 DEF ListsCover, ListCovers
<1>11. EventsKnow'
  BY <1>1 DEF EventsKnow, EventOK, Idle
<1>12. Owned'
  BY <1>1 DEF QuestionsInv, Owned, rows
<1>13. QED BY <1>7, <1>8, <1>10, <1>11, <1>12 DEF QuestionsInv

-----------------------------------------------------------------------------
(* The theorems *)

\* At server start nothing was asked.
LEMMA InitQuestions == Init => QuestionsInv
<1> SUFFICES ASSUME Init PROVE QuestionsInv
  OBVIOUS
<1>1. Owned /\ Asked = {}
  BY DEF Init, Owned, Asked
<1>2. EventsKnow
  BY DEF Init, EventsKnow, EventOK, Idle
<1>3. OneAnswer
  BY DEF Init, OneAnswer, NoList
<1>4. ListsCover
  BY <1>1 DEF Init, ListsCover, ListCovers, Due, NoList
<1>5. QED BY <1>1, <1>2, <1>3, <1>4, InitType DEF QuestionsInv

\* Every step keeps the invariant.
LEMMA NextQuestions == QuestionsInv /\ [Next]_vars => QuestionsInv'
<1> SUFFICES ASSUME QuestionsInv, [Next]_vars PROVE QuestionsInv'
  OBVIOUS
<1>1. ASSUME NEW c \in Requests, NEW k \in Sockets, Ask(c, k) PROVE QuestionsInv'
  BY <1>1, AskKeeps
<1>2. ASSUME NEW c \in Requests, NEW k \in Sockets, NEW q \in Ids, NEW a \in Answers,
             AnswerFind(c, k, q, a)
      PROVE  QuestionsInv'
  BY <1>2, AnswerFindKeeps
<1>3. ASSUME NEW c \in Requests, Event(c) PROVE QuestionsInv'
  BY <1>3, AskCreateKeeps, AskFailsKeeps, AskTellKeeps, AnswerUpdateKeeps, AnswerFailsKeeps,
     AnswerTellKeeps DEF Event
<1>4. ASSUME NEW k \in Sockets,
             ListRead(k) \/ ListSend(k) \/ Enter(k) \/ Register(k) \/ Leave(k) \/ Disconnect(k)
      PROVE  QuestionsInv'
  BY <1>4, ListReadKeeps, ListSendKeeps, EnterKeeps, RegisterKeeps, LeaveKeeps, DisconnectKeeps
<1>5. CASE Restart
  BY <1>5, RestartKeeps
<1>6. CASE UNCHANGED vars
  <2>1. TypeOK'
    BY <1>6, SameTypes DEF vars, rows, QuestionsInv, TypeOK, RequestState
  <2>2. UNCHANGED <<rows, people, req, unsure>>
    BY <1>6 DEF vars
  <2>3. OneAnswer' /\ ListsCover'
    BY <2>2, SameLists DEF Announced, rows
  <2>4. QED BY <2>1, <2>2, <2>3, SameEvents DEF QuestionsInv
<1>7. QED BY <1>1, <1>2, <1>3, <1>4, <1>5, <1>6 DEF Next

\* The invariant holds in every state of every execution.
THEOREM QuestionsCorrect == Spec => []QuestionsInv
<1>1. QED BY InitQuestions, NextQuestions, PTL DEF Spec

\* Every variable has its type; that events reach every socket with a list takes
\* the other conjuncts.
THEOREM TypeCorrect == Spec => []TypeOK
<1>1. QuestionsInv => TypeOK
  BY DEF QuestionsInv
<1>2. QED BY <1>1, QuestionsCorrect, PTL

\* Whatever anybody was sent of a question is the pending question or the one
\* answer that is stored, for any number of teachers who answer at once.
THEOREM OneAnswerStands == Spec => []OneAnswer
<1>1. QuestionsInv => OneAnswer
  BY DEF QuestionsInv
<1>2. QED BY <1>1, QuestionsCorrect, PTL

\* The list and the events together show the state of every question, however
\* the handlers of any number of sockets overlap.
THEOREM NothingIsMissed == Spec => []NothingMissed
<1>1. QuestionsInv => NothingMissed
  <2> SUFFICES ASSUME QuestionsInv, NEW k \in listed, NEW q \in Asked, Wanted(k, q)
               PROVE  \/ <<q, row[q]>> \in shown[k]
                      \/ \E c \in Requests : req[c].pc \in {"created", "answered"} /\ req[c].q = q
    BY DEF NothingMissed, Wanted
  <2>1. k \in Sockets
    BY DEF QuestionsInv, TypeOK
  <2>2. <<q, row[q]>> \in shown[k] \/ Announced(q)
    BY <2>1 DEF QuestionsInv, ListsCover, ListCovers, Covered
  <2>3. QED BY <2>2 DEF Announced
<1>2. QED BY <1>1, QuestionsCorrect, PTL

=============================================================================
