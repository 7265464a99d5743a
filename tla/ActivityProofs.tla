--------------------------- MODULE ActivityProofs ---------------------------
(***************************************************************************)
(* Proofs about what a class does besides drawing: Poll, for any number of *)
(* students, options and polls, and QuizQuestions, for any questions, any  *)
(* number of requests and any limit.  Each has one inductive invariant, of *)
(* which every safety property of its run is a part or a consequence.      *)
(***************************************************************************)
EXTENDS Poll, QuizQuestions, FiniteSetTheorems, TLAPS

-----------------------------------------------------------------------------
(* Poll *)

\* The poll that runs is the last one started, all that ended are older, and
\* the only timer that may be left is that of the poll that runs.
IdsInOrder ==
  /\ poll.on => poll.id = started /\ started \in 1..MaxPolls
  /\ \A e \in ends : e.id <= started /\ (poll.on => e.id < started)
  /\ \A i \in timers : poll.on /\ i = poll.id

\* Without a poll nothing is counted; what is on its way was sent.
NothingLeft == (~poll.on => poll = NoPoll) /\ sent \subseteq choices

\* The inductive invariant of activePolls.
PollInv == TypeOK /\ IdsInOrder /\ NothingLeft /\ CountsAgree /\ CountsThisPoll /\ TimersAreExact

-----------------------------------------------------------------------------
(* Counting *)

\* Nobody has answered a poll that is new or forgotten, and its counts are 0.
LEMMA NobodyAnswered ==
  ASSUME NEW o \in Options
  PROVE  /\ NoCounts[o] = 0
         /\ Cardinality({u \in Students : NoAnswers[u] = o}) = 0
<1>1. {u \in Students : NoAnswers[u] = o} = {}
  BY PollAssumption DEF NoAnswers, Unanswered
<1>2. QED BY <1>1, FS_EmptySet DEF NoCounts

\* The first answer of a student raises the number of those who chose it by
\* one and leaves the others alone.
LEMMA OneMore ==
  ASSUME NEW a \in [Students -> Options \cup {Unanswered}], NEW u \in Students,
         a[u] = Unanswered, NEW c \in Options, NEW o \in Options
  PROVE  Cardinality({v \in Students : [a EXCEPT ![u] = c][v] = o})
           = Cardinality({v \in Students : a[v] = o}) + IF o = c THEN 1 ELSE 0
<1> DEFINE Chose(f) == {v \in Students : f[v] = o}
           b == [a EXCEPT ![u] = c]
<1>1. u \notin Chose(a)
  BY PollAssumption DEF Unanswered
<1>2. IsFiniteSet(Chose(a))
  BY PollAssumption, FS_Subset
<1>3. CASE o = c
  <2>1. Chose(b) = Chose(a) \cup {u}
    BY <1>3
  <2>2. Cardinality(Chose(a) \cup {u}) = Cardinality(Chose(a)) + 1
    BY <1>1, <1>2, FS_AddElement
  <2>3. QED BY <1>3, <2>1, <2>2
<1>4. CASE o # c
  <2>1. Chose(b) = Chose(a)
    BY <1>4, <1>1
  <2>2. Cardinality(Chose(a)) \in Nat
    BY <1>2, FS_CardinalityType
  <2>3. QED BY <1>4, <2>1, <2>2
<1>5. QED BY <1>3, <1>4

-----------------------------------------------------------------------------
(* The steps *)

\* The state without a poll has the type of one.
LEMMA NoPollType ==
  /\ NoPoll \in [on : BOOLEAN, id : 0..MaxPolls, timed : BOOLEAN,
                 answers : [Students -> Options \cup {Unanswered}], counts : Counts]
  /\ ~NoPoll.on /\ NoPoll.answers = NoAnswers /\ NoPoll.counts = NoCounts
BY PollAssumption DEF NoPoll, NoAnswers, NoCounts, Counts

\* A state without a poll agrees with itself about the answers.
LEMMA NoPollAgrees ==
  ASSUME poll'.answers = NoAnswers, poll'.counts = NoCounts
  PROVE  CountsAgree' /\ CountsThisPoll'
BY NobodyAnswered DEF CountsAgree, CountsThisPoll, NoAnswers

\* At server start there is no poll.
LEMMA InitPoll == Init => PollInv
<1> SUFFICES ASSUME Init PROVE PollInv
  OBVIOUS
<1>1. TypeOK
  <2>1. poll \in [on : BOOLEAN, id : 0..MaxPolls, timed : BOOLEAN,
                 answers : [Students -> Options \cup {Unanswered}], counts : Counts]
    BY NoPollType DEF Init
  <2>2. started \in 0..MaxPolls
    BY PollAssumption DEF Init
  <2>3. archived \in BOOLEAN
    BY Zenon DEF Init
  <2>4. timers = {} /\ sent = {} /\ choices = {} /\ ends = {}
    BY DEF Init
  <2>5. QED BY <2>1, <2>2, <2>3, <2>4 DEF TypeOK
<1>2. CountsAgree /\ CountsThisPoll
  BY NobodyAnswered, NoPollType DEF Init, CountsAgree, CountsThisPoll, NoAnswers
<1>3. QED
  BY <1>1, <1>2, NoPollType DEF Init, PollInv, IdsInOrder, NothingLeft, TimersAreExact, OwnTimer, EndsOnce

\* endPoll, called for a reason that is not another poll's timer, ends the poll
\* once and leaves no timer behind.
LEMMA EndPollKeeps ==
  ASSUME PollInv, poll.on, NEW by \in {0, poll.id}, EndPoll(by),
         UNCHANGED <<started, choices>>, sent' = sent, archived' \in BOOLEAN
  PROVE  PollInv'
<1>1. poll.id = started /\ started \in 1..MaxPolls
  BY DEF PollInv, IdsInOrder
<1>2. timers' = {}
  BY DEF PollInv, IdsInOrder, EndPoll
<1> DEFINE e == [id |-> poll.id, by |-> by, counts |-> poll.counts]
<1>3. ends' = ends \cup {e} /\ poll' = NoPoll
  BY DEF EndPoll
<1>4. e \in [id : 1..MaxPolls, by : 0..MaxPolls, counts : Counts]
  BY <1>1, PollAssumption DEF PollInv, TypeOK
<1>5. TypeOK'
  BY <1>2, <1>3, <1>4, NoPollType DEF PollInv, TypeOK
<1>6. \A f \in ends : f.id < started /\ f.id \in Nat
  BY <1>1 DEF PollInv, IdsInOrder, TypeOK
<1>7. IdsInOrder'
  BY <1>1, <1>2, <1>3, <1>6, NoPollType, PollAssumption DEF IdsInOrder
<1>8. TimersAreExact'
  <2>1. OwnTimer'
    BY <1>3 DEF PollInv, TimersAreExact, OwnTimer
  <2>2. EndsOnce'
    BY <1>1, <1>3, <1>6 DEF PollInv, TimersAreExact, EndsOnce
  <2>3. QED BY <2>1, <2>2 DEF TimersAreExact
<1>9. QED
  BY <1>3, <1>5, <1>7, <1>8, NoPollType, NoPollAgrees DEF PollInv, NothingLeft

\* A new poll starts without answers, with an id nobody has had.
LEMMA PollStartKeeps ==
  ASSUME PollInv, NEW timed \in BOOLEAN, PollStart(timed)
  PROVE  PollInv'
<1>1. started' = started + 1 /\ started' \in 1..MaxPolls /\ started \in Nat
  BY PollAssumption DEF PollInv, TypeOK, PollStart
<1>2. /\ poll'.on /\ poll'.id = started' /\ poll'.answers = NoAnswers /\ poll'.counts = NoCounts
      /\ poll' \in [on : BOOLEAN, id : 0..MaxPolls, timed : BOOLEAN,
                    answers : [Students -> Options \cup {Unanswered}], counts : Counts]
  <2>1. PICK n \in 1..MaxPolls : started' = n
    BY <1>1
  <2>2. poll' = [NoPoll EXCEPT !.on = TRUE, !.id = n, !.timed = timed]
    BY <2>1 DEF PollStart
  <2>3. poll' = [on |-> TRUE, id |-> n, timed |-> timed, answers |-> NoAnswers, counts |-> NoCounts]
    BY <2>2 DEF NoPoll
  <2>4. /\ NoAnswers \in [Students -> Options \cup {Unanswered}]
        /\ NoCounts \in Counts
    BY DEF NoAnswers, NoCounts, Counts
  <2>5. QED BY <2>1, <2>3, <2>4, PollAssumption
<1>3. timers = {}
  BY DEF PollInv, IdsInOrder, PollStart
<1>4. timers' \subseteq {started'}
  BY <1>3 DEF PollStart
<1>5. TypeOK'
  BY <1>1, <1>2, <1>4 DEF PollInv, TypeOK, PollStart
<1>6. \A e \in ends' : e \in ends /\ e.id <= started /\ e.id \in Nat
  BY DEF PollInv, IdsInOrder, TypeOK, PollStart
<1>7. IdsInOrder'
  BY <1>1, <1>2, <1>4, <1>6 DEF IdsInOrder
<1>8. TimersAreExact'
  BY DEF PollInv, TimersAreExact, OwnTimer, EndsOnce, PollStart
<1>9. NothingLeft'
  BY <1>2 DEF PollInv, NothingLeft, PollStart
<1>10. QED BY <1>2, <1>5, <1>7, <1>8, <1>9, NoPollAgrees DEF PollInv

\* Sending changes what is on its way.
LEMMA SendKeeps ==
  ASSUME PollInv, NEW u \in Students, NEW i \in 1..MaxPolls, NEW o \in Options, Send(u, i, o)
  PROVE  PollInv'
<1>1. TypeOK'
  BY DEF PollInv, TypeOK, Send, Answers
<1>2. IdsInOrder' /\ TimersAreExact' /\ CountsAgree'
  BY DEF PollInv, Send, IdsInOrder, TimersAreExact, OwnTimer, EndsOnce, CountsAgree
<1>3. NothingLeft' /\ CountsThisPoll'
  BY DEF PollInv, Send, NothingLeft, CountsThisPoll
<1>4. QED BY <1>1, <1>2, <1>3 DEF PollInv

\* An answer that is accepted is counted once, for the poll it was sent for.
LEMMA AnswerKeeps ==
  ASSUME PollInv, NEW u \in Students, NEW i \in 1..MaxPolls, NEW o \in Options,
         Answer([user |-> u, id |-> i, option |-> o])
  PROVE  PollInv'
<1> DEFINE m == [user |-> u, id |-> i, option |-> o]
<1>1. /\ m \in sent /\ sent' \subseteq sent
      /\ UNCHANGED <<timers, started, archived, choices, ends>>
  BY DEF Answer
<1>2. m \in choices
  BY <1>1 DEF PollInv, NothingLeft
<1>3. CASE ~Accepts(m)
  <2>1. poll' = poll
    BY <1>3 DEF Answer
  <2>2. QED
    BY <1>1, <2>1 DEF PollInv, TypeOK, IdsInOrder, NothingLeft, CountsAgree, CountsThisPoll,
                      TimersAreExact, OwnTimer, EndsOnce
<1>4. CASE Accepts(m)
  <2>1. poll.on /\ poll.id = i /\ poll.answers[u] = Unanswered
    BY <1>4 DEF Accepts
  <2> DEFINE a == [poll.answers EXCEPT ![u] = o]
             n == [poll.counts EXCEPT ![o] = @ + 1]
  <2>2. poll.answers \in [Students -> Options \cup {Unanswered}] /\ poll.counts \in Counts
    BY DEF PollInv, TypeOK
  <2>3. poll' = [poll EXCEPT !.answers = a, !.counts = n]
    BY <1>4 DEF Answer
  <2>4. poll'.on /\ poll'.id = poll.id /\ poll'.answers = a /\ poll'.counts = n
    BY <2>1, <2>3 DEF PollInv, TypeOK
  <2>5. a \in [Students -> Options \cup {Unanswered}] /\ n \in Counts
    BY <2>2 DEF Counts
  <2>6. TypeOK'
    BY <1>1, <2>3, <2>5 DEF PollInv, TypeOK
  <2>7. IdsInOrder' /\ TimersAreExact' /\ NothingLeft'
    BY <1>1, <2>1, <2>4 DEF PollInv, IdsInOrder, TimersAreExact, OwnTimer, EndsOnce, NothingLeft
  <2>8. CountsAgree'
    <3> SUFFICES ASSUME NEW x \in Options
                 PROVE  n[x] = Cardinality({v \in Students : a[v] = x})
      BY <2>4 DEF CountsAgree
    <3>1. poll.counts[x] = Cardinality({v \in Students : poll.answers[v] = x}) /\ poll.counts[x] \in Nat
      BY <2>2 DEF PollInv, CountsAgree, Counts
    <3>2. n[x] = poll.counts[x] + IF x = o THEN 1 ELSE 0
      BY <2>2, <3>1 DEF Counts
    <3>3. Cardinality({v \in Students : a[v] = x})
            = Cardinality({v \in Students : poll.answers[v] = x}) + IF x = o THEN 1 ELSE 0
      BY <2>1, <2>2, OneMore
    <3>4. QED BY <3>1, <3>2, <3>3
  <2>9. CountsThisPoll'
    <3> SUFFICES ASSUME NEW v \in Students, a[v] # Unanswered
                 PROVE  [user |-> v, id |-> poll.id, option |-> a[v]] \in choices
      BY <1>1, <2>4 DEF CountsThisPoll
    <3>1. CASE v = u
      BY <1>2, <2>1, <2>2, <3>1
    <3>2. CASE v # u
      BY <2>2, <3>2 DEF PollInv, CountsThisPoll
    <3>3. QED BY <3>1, <3>2
  <2>10. QED BY <2>6, <2>7, <2>8, <2>9 DEF PollInv
<1>5. QED BY <1>3, <1>4

\* A timer that fires finds its own poll, since every other was cleared.
LEMMA TimerKeeps ==
  ASSUME PollInv, NEW i \in 1..MaxPolls, TimerFires(i)
  PROVE  PollInv'
<1>1. poll.on /\ i = poll.id
  BY DEF PollInv, IdsInOrder, TimerFires
<1>2. EndPoll(i) /\ UNCHANGED <<started, sent, archived, choices>>
  BY <1>1 DEF TimerFires
<1>3. archived' \in BOOLEAN
  BY <1>2 DEF PollInv, TypeOK
<1>4. QED BY <1>1, <1>2, <1>3, EndPollKeeps

\* A step that changes nothing but the mark of the end keeps the invariant.
LEMMA SameKeeps ==
  ASSUME PollInv, UNCHANGED <<poll, timers, started, sent, choices, ends>>, archived' \in BOOLEAN
  PROVE  PollInv'
BY DEF PollInv, TypeOK, IdsInOrder, NothingLeft, CountsAgree, CountsThisPoll, TimersAreExact,
       OwnTimer, EndsOnce

\* Every step of the server, the students and the timers keeps the invariant.
LEMMA NextPoll == PollInv /\ [Next]_vars => PollInv'
<1> SUFFICES ASSUME PollInv, [Next]_vars PROVE PollInv'
  OBVIOUS
<1>1. ASSUME NEW timed \in BOOLEAN, PollStart(timed) PROVE PollInv'
  BY <1>1, PollStartKeeps
<1>2. ASSUME NEW u \in Students, NEW i \in 1..MaxPolls, NEW o \in Options,
             Send(u, i, o) \/ Answer([user |-> u, id |-> i, option |-> o])
      PROVE  PollInv'
  BY <1>2, SendKeeps, AnswerKeeps
<1>3. ASSUME NEW i \in 1..MaxPolls, TimerFires(i) PROVE PollInv'
  BY <1>3, TimerKeeps
<1>4. CASE PollEnd
  <2>1. archived' \in BOOLEAN
    BY <1>4 DEF PollEnd, PollInv, TypeOK
  <2>2. QED BY <1>4, <2>1, EndPollKeeps DEF PollEnd
<1>5. CASE SessionEnds
  <2>1. archived' \in BOOLEAN
    BY <1>5 DEF SessionEnds
  <2>2. CASE poll.on
    BY <1>5, <2>1, <2>2, EndPollKeeps DEF SessionEnds
  <2>3. CASE ~poll.on
    BY <1>5, <2>1, <2>3, SameKeeps DEF SessionEnds
  <2>4. QED BY <2>2, <2>3
<1>6. CASE UNCHANGED vars
  <2>1. archived' \in BOOLEAN
    BY <1>6 DEF vars, PollInv, TypeOK
  <2>2. QED BY <1>6, <2>1, SameKeeps DEF vars
<1>7. QED BY <1>1, <1>2, <1>3, <1>4, <1>5, <1>6 DEF Next

-----------------------------------------------------------------------------
(* The theorems *)

\* The invariant holds in every state of every execution.
THEOREM PollCorrect == Spec => []PollInv
<1>1. QED BY InitPoll, NextPoll, PTL DEF Spec

\* Every variable of the poll module has its type.
THEOREM PollTypeCorrect == Spec => []TypeOK
<1>1. PollInv => TypeOK
  BY DEF PollInv
<1>2. QED BY <1>1, PollCorrect, PTL

\* The counts shown to the room are those of the answers, one for each student,
\* for any number of students, answers on their way and repeated answers.
THEOREM CountsRight == Spec => []CountsAgree
<1>1. PollInv => CountsAgree
  BY DEF PollInv
<1>2. QED BY <1>1, PollCorrect, PTL

\* No answer to an earlier poll is counted, however late it arrives.
THEOREM NoStaleAnswer == Spec => []CountsThisPoll
<1>1. PollInv => CountsThisPoll
  BY DEF PollInv
<1>2. QED BY <1>1, PollCorrect, PTL

\* A timer ends the poll it was set for and no other, and no poll ends twice.
THEOREM TimersRight == Spec => []TimersAreExact
<1>1. PollInv => TimersAreExact
  BY DEF PollInv
<1>2. QED BY <1>1, PollCorrect, PTL

-----------------------------------------------------------------------------
(* QuizQuestions *)

\* No two questions have the same order: this is the unique constraint of the
\* table, and what the limit rests on, for the count of CreateCheck is old when
\* Insert runs.
OrdersUnique == \A p, q \in Live : order[p] = order[q] => p = q

\* The inductive invariant of the questions and of what the clients were told.
QuizInv == QQTypeOK /\ OrdersUnique /\ QuizIsSeen

\* At server start there is no question.
LEMMA InitQuiz == QQInit => QuizInv
<1> SUFFICES ASSUME QQInit PROVE QuizInv
  OBVIOUS
<1>1. QQTypeOK
  <2>1. Idle \in [pc : Phases, id : Ids \cup {None}, order : 0..MaxQuestions, seen : Ids \cup {None}]
    BY QuizQuestionsAssumption DEF Idle, Phases
  <2>2. /\ at \in [Clients -> {"out", "joining", "in", "crossing", "crossed"}]
        /\ screen \in [Clients -> Ids \cup {None}]
        /\ active \in Ids \cup {None}
    BY DEF QQInit
  <2>3. order \in [Ids -> 0..MaxQuestions]
    BY QuizQuestionsAssumption DEF QQInit
  <2>4. QED BY <2>1, <2>2, <2>3 DEF QQInit, QQTypeOK
<1>2. QED BY <1>1 DEF QQInit, QuizInv, OrdersUnique, Live, QuizIsSeen

\* What a slot becomes has the type of one.
LEMMA WaitType ==
  ASSUME QQTypeOK, NEW c \in Requests, NEW pc \in Phases, NEW id \in Ids \cup {None},
         NEW n \in 0..MaxQuestions, NEW seen \in Ids \cup {None},
         Wait(c, pc, id, n, seen)
  PROVE  req' \in [Requests -> [pc : Phases, id : Ids \cup {None}, order : 0..MaxQuestions,
                                seen : Ids \cup {None}]]
BY DEF QQTypeOK, Wait

\* A handler that has answered leaves its slot.
LEMMA AnsweredType ==
  ASSUME QQTypeOK, NEW c \in Requests, Answered(c)
  PROVE  req' \in [Requests -> [pc : Phases, id : Ids \cup {None}, order : 0..MaxQuestions,
                                seen : Ids \cup {None}]]
<1>1. Idle \in [pc : Phases, id : Ids \cup {None}, order : 0..MaxQuestions, seen : Ids \cup {None}]
  BY QuizQuestionsAssumption DEF Idle, Phases
<1>2. QED BY <1>1 DEF QQTypeOK, Answered

\* The four requests that find what they need, and wait.
LEMMA FindKeeps ==
  ASSUME QuizInv, NEW c \in Requests, NEW q \in Ids,
         CreateCheck(c, q) \/ UpdateFind(c, q) \/ DeleteFind(c, q) \/ ActivateFind(c, q)
  PROVE  QuizInv'
<1>1. UNCHANGED <<order, active, at, screen>> /\ made' \in {made, made \cup {q}}
  BY DEF questionVars, clientVars, CreateCheck, UpdateFind, DeleteFind, ActivateFind
<1>2. req' \in [Requests -> [pc : Phases, id : Ids \cup {None}, order : 0..MaxQuestions,
                             seen : Ids \cup {None}]]
  <2>1. 0 \in 0..MaxQuestions /\ None \in Ids \cup {None} /\ active \in Ids \cup {None}
    BY QuizQuestionsAssumption DEF QuizInv, QQTypeOK
  <2>2. CASE CreateCheck(c, q)
    <3>1. PICK n \in 1..MaxQuestions : Wait(c, "insert", q, n, None)
      BY <2>2 DEF CreateCheck, Orders
    <3>2. n \in 0..MaxQuestions
      BY QuizQuestionsAssumption
    <3>3. QED BY <2>1, <3>1, <3>2, WaitType DEF QuizInv, Phases
  <2>3. CASE UpdateFind(c, q)
    <3>1. Wait(c, "update", q, 0, None)
      BY <2>3 DEF UpdateFind
    <3>2. QED BY <2>1, <3>1, WaitType DEF QuizInv, Phases
  <2>4. CASE DeleteFind(c, q)
    <3>1. Wait(c, "delete", q, 0, active)
      BY <2>4 DEF DeleteFind
    <3>2. QED BY <2>1, <3>1, WaitType DEF QuizInv, Phases
  <2>5. CASE ActivateFind(c, q)
    <3>1. Wait(c, "activate", q, 0, None)
      BY <2>5 DEF ActivateFind
    <3>2. QED BY <2>1, <3>1, WaitType DEF QuizInv, Phases
  <2>6. QED BY <2>2, <2>3, <2>4, <2>5
<1>3. QED BY <1>1, <1>2 DEF QuizInv, QQTypeOK, OrdersUnique, Live, QuizIsSeen

\* The row that is inserted takes an order that no row has.
LEMMA InsertKeeps ==
  ASSUME QuizInv, NEW c \in Requests, Insert(c)
  PROVE  QuizInv'
<1> DEFINE q == req[c].id
           n == req[c].order
<1>1. /\ UNCHANGED <<made, active, at, screen>>
      /\ order' = IF n \in Used THEN order ELSE [order EXCEPT ![q] = n]
  BY DEF Insert, clientVars
<1>2. n \in 0..MaxQuestions /\ order \in [Ids -> 0..MaxQuestions]
  BY DEF QuizInv, QQTypeOK
<1>3. QQTypeOK'
  <2>1. req' \in [Requests -> [pc : Phases, id : Ids \cup {None}, order : 0..MaxQuestions,
                               seen : Ids \cup {None}]]
    BY AnsweredType DEF Insert, QuizInv
  <2>2. order' \in [Ids -> 0..MaxQuestions]
    BY <1>1, <1>2
  <2>3. QED BY <1>1, <2>1, <2>2 DEF QuizInv, QQTypeOK
<1>4. OrdersUnique'
  <2>1. SUFFICES ASSUME NEW p \in Ids, NEW r \in Ids, order'[p] # 0, order'[p] = order'[r]
                 PROVE  p = r
    BY DEF OrdersUnique, Live
  <2>2. \A u \in Ids : order[u] # 0 => order[u] \in Used
    BY DEF Used, Live
  <2>3. \A u, v \in Ids : order[u] # 0 /\ order[u] = order[v] => u = v
    BY DEF QuizInv, OrdersUnique, Live
  <2>4. CASE n \in Used
    BY <1>1, <2>1, <2>3, <2>4
  <2>5. CASE n \notin Used
    BY <1>1, <1>2, <2>1, <2>2, <2>3, <2>5
  <2>6. QED BY <2>4, <2>5
<1>5. QED BY <1>1, <1>3, <1>4 DEF QuizInv, QuizIsSeen

\* The row that is deleted frees its order.
LEMMA DeleteRowKeeps ==
  ASSUME QuizInv, NEW c \in Requests, DeleteRow(c)
  PROVE  QuizInv'
<1>1. /\ UNCHANGED <<made, active, at, screen>>
      /\ order' = [order EXCEPT ![req[c].id] = 0]
      /\ order \in [Ids -> 0..MaxQuestions]
  BY DEF clientVars, DeleteRow, QuizInv, QQTypeOK
<1>2. req' \in [Requests -> [pc : Phases, id : Ids \cup {None}, order : 0..MaxQuestions,
                             seen : Ids \cup {None}]]
  <2>1. CASE req' = [req EXCEPT ![c].pc = "deleted"]
    BY <2>1 DEF QuizInv, QQTypeOK, Phases
  <2>2. CASE Answered(c)
    BY <2>2, AnsweredType DEF QuizInv
  <2>3. QED BY <2>1, <2>2 DEF DeleteRow
<1>3. order' \in [Ids -> 0..MaxQuestions]
  <2>1. 0 \in 0..MaxQuestions
    BY QuizQuestionsAssumption
  <2>2. QED BY <1>1, <2>1
<1>4. \A u \in Ids : order'[u] # 0 => order'[u] = order[u]
  BY <1>1
<1>5. OrdersUnique'
  BY <1>4 DEF QuizInv, OrdersUnique, Live
<1>6. QED BY <1>1, <1>2, <1>3, <1>5 DEF QuizInv, QQTypeOK, QuizIsSeen

\* The row that is updated keeps its order.
LEMMA UpdateRowKeeps ==
  ASSUME QuizInv, NEW c \in Requests, UpdateRow(c)
  PROVE  QuizInv'
<1>1. UNCHANGED <<order, made, active, at, screen>>
  BY DEF UpdateRow, questionVars, clientVars
<1>2. req' \in [Requests -> [pc : Phases, id : Ids \cup {None}, order : 0..MaxQuestions,
                             seen : Ids \cup {None}]]
  <2>1. CASE req' = [req EXCEPT ![c].pc = "updated"]
    BY <2>1 DEF QuizInv, QQTypeOK, Phases
  <2>2. CASE Answered(c)
    BY <2>2, AnsweredType DEF QuizInv
  <2>3. QED BY <2>1, <2>2 DEF UpdateRow
<1>3. QED BY <1>1, <1>2 DEF QuizInv, QQTypeOK, OrdersUnique, Live, QuizIsSeen

\* What everybody in the rooms is told has the type of a question, and all of them
\* are told the same.
LEMMA ToldAll ==
  ASSUME QQTypeOK, NEW q \in Ids \cup {None}
  PROVE  /\ TellActivated(q) => /\ screen' \in [Clients -> Ids \cup {None}]
                                /\ \A u \in Clients : at[u] = "in" => screen'[u] = q
         /\ TellDeactivated(q) => screen' \in [Clients -> Ids \cup {None}]
BY DEF QQTypeOK, TellActivated, TellDeactivated

\* What the clients are told after the wait is what is active then.
LEMMA TellKeeps ==
  ASSUME QuizInv, NEW c \in Requests, UpdateTell(c) \/ DeleteTell(c) \/ Activate(c)
  PROVE  QuizInv'
<1>1. order' = order /\ made' = made /\ at' = at /\ Answered(c)
  BY DEF UpdateTell, DeleteTell, Activate, questionVars
<1>2. req' \in [Requests -> [pc : Phases, id : Ids \cup {None}, order : 0..MaxQuestions,
                             seen : Ids \cup {None}]]
  BY <1>1, AnsweredType DEF QuizInv
<1>3. req[c].id \in Ids \cup {None} /\ QQTypeOK /\ QuizIsSeen
  BY DEF QuizInv, QQTypeOK
<1>4. /\ active' \in Ids \cup {None} /\ screen' \in [Clients -> Ids \cup {None}]
      /\ QuizIsSeen'
  <2>1. CASE UpdateTell(c)
    <3>1. CASE active = req[c].id
      <4>1. TellActivated(active) /\ active' = active
        BY <2>1, <3>1 DEF UpdateTell
      <4>2. active \in Ids \cup {None}
        BY <1>3 DEF QQTypeOK
      <4>3. QED BY <1>1, <1>3, <4>1, <4>2, ToldAll DEF QuizIsSeen
    <3>2. CASE active # req[c].id
      <4>1. UNCHANGED <<active, screen>>
        BY <2>1, <3>2 DEF UpdateTell
      <4>2. QED BY <1>1, <1>3, <4>1 DEF QQTypeOK, QuizIsSeen
    <3>3. QED BY <3>1, <3>2
  <2>2. CASE DeleteTell(c)
    <3>1. CASE req[c].seen = req[c].id
      <4>1. active' = None /\ TellDeactivated(req[c].id)
        BY <2>2, <3>1 DEF DeleteTell
      <4>2. QED BY <1>3, <4>1, ToldAll DEF QuizIsSeen
    <3>2. CASE req[c].seen # req[c].id
      <4>1. UNCHANGED <<active, screen>>
        BY <2>2, <3>2 DEF DeleteTell
      <4>2. QED BY <1>1, <1>3, <4>1 DEF QQTypeOK, QuizIsSeen
    <3>3. QED BY <3>1, <3>2
  <2>3. CASE Activate(c)
    <3>1. active' = req[c].id /\ TellActivated(req[c].id)
      BY <2>3 DEF Activate
    <3>2. QED BY <1>1, <1>3, <3>1, ToldAll DEF QuizIsSeen
  <2>4. QED BY <2>1, <2>2, <2>3
<1>5. QQTypeOK'
  BY <1>1, <1>2, <1>3, <1>4 DEF QQTypeOK
<1>6. QED BY <1>1, <1>4, <1>5 DEF QuizInv, OrdersUnique, Live

\* When nothing is active any more, there is nothing to be seen.
LEMMA CloseKeeps ==
  ASSUME QuizInv, Deactivate \/ LeaveQuiz \/ Restart
  PROVE  QuizInv'
<1>1. UNCHANGED <<order, made>> /\ active' = None /\ QQTypeOK
  BY DEF Deactivate, LeaveQuiz, Restart, QuizInv, questionVars
<1>2. /\ screen' \in [Clients -> Ids \cup {None}]
      /\ at' \in [Clients -> {"out", "joining", "in", "crossing", "crossed"}]
      /\ req' \in [Requests -> [pc : Phases, id : Ids \cup {None}, order : 0..MaxQuestions,
                                seen : Ids \cup {None}]]
  <2>1. CASE Deactivate
    <3>1. TellDeactivated(active) /\ active \in Ids \cup {None} /\ UNCHANGED <<req, at>>
      BY <1>1, <2>1 DEF Deactivate, QQTypeOK
    <3>2. QED BY <1>1, <3>1, ToldAll DEF QQTypeOK
  <2>2. CASE LeaveQuiz
    BY <1>1, <2>2 DEF LeaveQuiz, QQTypeOK
  <2>3. CASE Restart
    <3>1. Idle \in [pc : Phases, id : Ids \cup {None}, order : 0..MaxQuestions, seen : Ids \cup {None}]
      BY QuizQuestionsAssumption DEF Idle, Phases
    <3>2. QED BY <1>1, <2>3, <3>1 DEF Restart, QQTypeOK
  <2>4. QED BY <2>1, <2>2, <2>3
<1>3. QED BY <1>1, <1>2 DEF QuizInv, QQTypeOK, OrdersUnique, Live, QuizIsSeen

\* Who comes hears of the active question before it counts as having joined, and
\* of every change from the moment it is in the rooms.
LEMMA ClientKeeps ==
  ASSUME QuizInv, NEW u \in Clients, Enter(u) \/ Greet(u) \/ GreetElsewhere(u) \/ Leave(u)
  PROVE  QuizInv'
<1>1. UNCHANGED <<order, made, active, req>> /\ QQTypeOK /\ QuizIsSeen
  BY DEF Enter, Greet, GreetElsewhere, Leave, QuizInv, questionVars
<1>2. /\ at' \in [Clients -> {"out", "joining", "in", "crossing", "crossed"}]
      /\ screen' \in [Clients -> Ids \cup {None}]
  <2>1. Joined(at[u]) \in {"in", "crossed"}
    BY DEF Joined
  <2>2. CASE Greet(u)
    BY <1>1, <2>1, <2>2 DEF Greet, QQTypeOK
  <2>3. CASE Enter(u) \/ GreetElsewhere(u) \/ Leave(u)
    BY <1>1, <2>3 DEF Enter, GreetElsewhere, Leave, QQTypeOK
  <2>4. QED BY <2>2, <2>3
<1>3. QuizIsSeen'
  <2>1. CASE Greet(u)
    BY <1>1, <2>1 DEF Greet, QQTypeOK, QuizIsSeen
  <2>2. CASE Enter(u) \/ GreetElsewhere(u) \/ Leave(u)
    BY <1>1, <2>2 DEF Enter, GreetElsewhere, Leave, QQTypeOK, QuizIsSeen
  <2>3. QED BY <2>1, <2>2
<1>4. QED BY <1>1, <1>2, <1>3 DEF QuizInv, QQTypeOK, OrdersUnique, Live

\* Every step of every handler keeps the invariant.
LEMMA NextQuiz == QuizInv /\ [QQNext]_qqVars => QuizInv'
<1> SUFFICES ASSUME QuizInv, [QQNext]_qqVars PROVE QuizInv'
  OBVIOUS
<1>1. ASSUME NEW c \in Requests, NEW q \in Ids,
             CreateCheck(c, q) \/ UpdateFind(c, q) \/ DeleteFind(c, q) \/ ActivateFind(c, q)
      PROVE  QuizInv'
  BY <1>1, FindKeeps
<1>2. ASSUME NEW c \in Requests, Handler(c) PROVE QuizInv'
  BY <1>2, InsertKeeps, UpdateRowKeeps, DeleteRowKeeps, TellKeeps DEF Handler
<1>3. CASE Deactivate \/ LeaveQuiz \/ Restart
  BY <1>3, CloseKeeps
<1>4. CASE UNCHANGED qqVars
  BY <1>4 DEF qqVars, questionVars, clientVars, QuizInv, QQTypeOK, OrdersUnique, Live, QuizIsSeen
<1>5. ASSUME NEW u \in Clients, Enter(u) \/ Greet(u) \/ GreetElsewhere(u) \/ Leave(u) PROVE QuizInv'
  BY <1>5, ClientKeeps
<1>6. QED BY <1>1, <1>2, <1>3, <1>4, <1>5 DEF QQNext

\* The invariant holds in every state of every execution.
THEOREM QuizCorrect == QQSpec => []QuizInv
<1>1. QED BY InitQuiz, NextQuiz, PTL DEF QQSpec

\* Every variable of the quiz questions has its type.
THEOREM QuizTypeCorrect == QQSpec => []QQTypeOK
<1>1. QuizInv => QQTypeOK
  BY DEF QuizInv
<1>2. QED BY <1>1, QuizCorrect, PTL

\* However many requests count the questions before any of them inserts, a
\* session has at most MAX_QUIZ_QUESTIONS: the orders of its questions are
\* different numbers up to that one.
THEOREM LimitOfQuestions == QQSpec => []AtMostThree
<1>1. QuizInv => AtMostThree
  <2> SUFFICES ASSUME QuizInv PROVE Cardinality(Live) <= MaxQuestions
    BY DEF AtMostThree
  <2> DEFINE f == [q \in Live |-> order[q]]
  <2>1. f \in Injection(Live, 1..MaxQuestions)
    <3>1. f \in [Live -> 1..MaxQuestions]
      BY QuizQuestionsAssumption DEF QuizInv, QQTypeOK, Live
    <3>2. \A p, q \in Live : f[p] = f[q] => p = q
      BY DEF QuizInv, OrdersUnique
    <3>3. QED BY <3>1, <3>2 DEF Injection, IsInjective
  <2>2. IsFiniteSet(1..MaxQuestions) /\ Cardinality(1..MaxQuestions) = MaxQuestions
    BY QuizQuestionsAssumption, FS_Interval
  <2>3. QED BY <2>1, <2>2, FS_Injection
<1>2. QED BY <1>1, QuizCorrect, PTL

\* Whenever a client came or came back, and whatever was edited, deleted, activated
\* and deactivated meanwhile, also over restarts: what it was told of last is the
\* question the server takes answers for, when it takes any.
THEOREM QuizSeen == QQSpec => []QuizIsSeen
<1>1. QuizInv => QuizIsSeen
  BY DEF QuizInv
<1>2. QED BY <1>1, QuizCorrect, PTL

=============================================================================
