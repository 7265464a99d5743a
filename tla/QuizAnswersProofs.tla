-------------------------- MODULE QuizAnswersProofs --------------------------
(***************************************************************************)
(* Proofs about QuizAnswers for any number of students, questions and     *)
(* submissions in flight: every property of the run.                       *)
(***************************************************************************)
EXTENDS QuizAnswers, FiniteSetTheorems, TLAPS

\* A submission in flight names a student, a question and a verdict.
InFlight ==
  \A c \in Requests :
    req[c].pc # "idle" => req[c].user \in Students /\ req[c].q \in Questions /\ req[c].verdict \in Verdicts

\* HTTP takes answers only once the session is archived.
AfterEnd == \A c \in Requests : req[c].pc \in {"hcount", "upsert"} => archived

TypeInv == TypeOK /\ InFlight /\ AfterEnd

\* The counter is at least the number of submissions it let through.
LimitInv == \A s \in Students : passed[s] <= MaxDaily /\ passed[s] <= count[s]

\* Of one student and question at most one submission is between its row and
\* the statistics,
OneAhead ==
  \A c, d \in Requests :
    (req[c].pc = "tally" /\ req[d].pc = "tally" /\ Row(c) = Row(d)) => c = d

\* whose row is stored and which is not counted yet.
Ahead ==
  \A c \in Requests :
    req[c].pc = "tally" =>
      /\ tally[req[c].q].answers[req[c].user] = None
      /\ req[c].q \in questions => stored[Row(c)] # None
      /\ (req[c].q \in questions /\ ~archived) => stored[Row(c)] = req[c].verdict

\* What was counted is stored, unless its question was deleted.
Counts ==
  \A q \in questions, s \in Students :
    tally[q].answers[s] # None =>
      stored[<<s, q>>] # None /\ (~archived => stored[<<s, q>>] = tally[q].answers[s])

\* The counts of a question are those of its answers.
Sums(t) ==
  /\ t.total = Cardinality({s \in Students : t.answers[s] \in Verdicts})
  /\ t.correct = Cardinality({s \in Students : t.answers[s] \in {"right"}})
SumsAgree == \A q \in Questions : Sums(tally[q])

StatsInv == OneAhead /\ Ahead /\ Counts /\ SumsAgree

-----------------------------------------------------------------------------
(* Slots *)

\* The slot of c changes, and goes on with the submission it had or is free.
Moves(c) ==
  /\ req' \in [Requests -> Submissions]
  /\ \A d \in Requests : d # c => req'[d] = req[d]
  /\ req'[c].pc # "idle" =>
       /\ req[c].pc # "idle" /\ req'[c].user = req[c].user
       /\ req'[c].q = req[c].q /\ req'[c].verdict = req[c].verdict

\* The slot of c, free before, takes a submission.
Enters(c, pc, u, q, v) ==
  /\ req' \in [Requests -> Submissions]
  /\ \A d \in Requests : d # c => req'[d] = req[d]
  /\ req'[c].pc = pc /\ req'[c].user = u /\ req'[c].q = q /\ req'[c].verdict = v

\* An empty slot has the type of one.
LEMMA IdleType == Idle \in Submissions /\ Idle.pc = "idle"
BY DEF Idle, Submission, Submissions, Phases, Verdict0

\* What To, Done and Again do to the slots.
LEMMA ToMoves ==
  ASSUME TypeOK, NEW c \in Requests, NEW pc \in Phases, To(c, pc), req[c].pc # "idle"
  PROVE  Moves(c) /\ req'[c].pc = pc
BY DEF TypeOK, To, Moves, Submissions

LEMMA DoneMoves ==
  ASSUME TypeOK, NEW c \in Requests, Done(c)
  PROVE  Moves(c) /\ req'[c].pc = "idle"
BY IdleType DEF TypeOK, Done, Moves

LEMMA AgainMoves ==
  ASSUME TypeOK, NEW c \in Requests, Again(c), req[c].pc = "create"
  PROVE  Moves(c) /\ req'[c].pc \in {"idle", "create"}
<1>1. CASE req[c].attempt = 1
  BY <1>1 DEF TypeOK, Again, Moves, Submissions
<1>2. CASE req[c].attempt # 1
  BY <1>2, DoneMoves DEF Again
<1>3. QED BY <1>1, <1>2

\* What the counter does.
LEMMA CountedMoves ==
  ASSUME TypeOK, NEW c \in Requests, NEW pc \in {"fetch", "upsert"}, InFlight, req[c].pc # "idle",
         \/ Counted(c, pc)
         \/ CountFails(c, pc)
  PROVE  /\ Moves(c) /\ req'[c].pc \in {"idle", pc}
         /\ count' \in [Students -> 0..MaxCount] /\ passed' \in [Students -> Nat]
<1> DEFINE u == req[c].user
<1>0. u \in Students /\ pc \in Phases
  BY DEF InFlight, Phases
<1>1. Incr(u) \in [Students -> 0..MaxCount]
  BY <1>0, QuizAnswersAssumption DEF Incr, TypeOK
<1>2. CASE Counted(c, pc)
  <2>1. count' = Incr(u)
    BY <1>2 DEF Counted
  <2>2. CASE count'[u] > MaxDaily
    BY <1>1, <1>2, <2>1, <2>2, DoneMoves DEF Counted, TypeOK
  <2>3. CASE ~(count'[u] > MaxDaily)
    <3>1. To(c, pc) /\ passed' = [passed EXCEPT ![u] = @ + 1]
      BY <1>2, <2>1, <2>3 DEF Counted
    <3>2. passed' \in [Students -> Nat]
      BY <1>0, <3>1 DEF TypeOK
    <3>3. QED BY <1>0, <1>1, <2>1, <3>1, <3>2, ToMoves
  <2>4. QED BY <2>2, <2>3
<1>3. CASE CountFails(c, pc)
  <2>1. To(c, pc) /\ passed' = passed /\ count' \in {count, Incr(u)}
    BY <1>3 DEF CountFails
  <2>2. QED BY <1>0, <1>1, <2>1, ToMoves DEF TypeOK
<1>4. QED BY <1>2, <1>3

\* A slot that moves on keeps what its submission names; none is on its way
\* over HTTP before the end.
LEMMA MovesInFlight ==
  ASSUME TypeInv, NEW c \in Requests, Moves(c), archived => archived',
         req'[c].pc \in {"hcount", "upsert"} => archived'
  PROVE  InFlight' /\ AfterEnd'
BY DEF TypeInv, InFlight, AfterEnd, Moves

LEMMA EntersInFlight ==
  ASSUME TypeInv, NEW c \in Requests, NEW pc, NEW u \in Students, NEW q \in Questions, NEW v \in Verdicts,
         Enters(c, pc, u, q, v), archived => archived', pc \in {"hcount", "upsert"} => archived'
  PROVE  InFlight' /\ AfterEnd'
BY DEF TypeInv, InFlight, AfterEnd, Enters

\* The submission that Submit or HttpSubmit puts into a free slot.
LEMMA NewEnters ==
  ASSUME TypeOK, NEW c \in Requests, NEW pc \in Phases, NEW u \in Students, NEW q \in Questions, NEW v \in Verdicts,
         req' = [req EXCEPT ![c] = Submission(pc, u, q, v)]
  PROVE  Enters(c, pc, u, q, v)
<1> DEFINE r == Submission(pc, u, q, v)
<1>1. r \in Submissions /\ r.pc = pc /\ r.user = u /\ r.q = q /\ r.verdict = v
  BY DEF Submission, Submissions, Verdict0
<1> HIDE DEF r
<1>2. req' \in [Requests -> Submissions] /\ req'[c] = r /\ \A d \in Requests : d # c => req'[d] = req[d]
  BY <1>1 DEF TypeOK, r
<1>3. QED BY <1>1, <1>2 DEF Enters

-----------------------------------------------------------------------------
(* The steps, in a form that names what changes                            *)

LEMMA SubmitEnters ==
  ASSUME TypeOK, NEW c \in Requests, NEW u \in Students, NEW q \in Questions, NEW v \in Verdicts, Submit(c, u, q, v)
  PROVE  Enters(c, "count", u, q, v)
BY NewEnters DEF Submit, Phases

LEMMA HttpSubmitEnters ==
  ASSUME TypeOK, NEW c \in Requests, NEW u \in Students, NEW q \in Questions, NEW v \in Verdicts,
         NEW retry \in BOOLEAN, HttpSubmit(c, u, q, v, retry)
  PROVE  \E pc \in {"hcount", "upsert"} : Enters(c, pc, u, q, v)
<1> DEFINE pc == IF retry THEN "hcount" ELSE "upsert"
<1>1. pc \in Phases /\ pc \in {"hcount", "upsert"}
  BY DEF Phases
<1>2. Enters(c, pc, u, q, v)
  <2> HIDE DEF pc
  <2>1. req' = [req EXCEPT ![c] = Submission(pc, u, q, v)]
    BY DEF HttpSubmit, pc
  <2>2. QED BY <1>1, <2>1, NewEnters
<1>3. QED BY <1>1, <1>2

\* The statistics of a question take a counted submission.
LEMMA TallyAdds ==
  ASSUME TypeInv, NEW c \in Requests, Tally(c)
  PROVE  /\ req[c].q \in Questions /\ req[c].user \in Students /\ req[c].verdict \in Verdicts
         /\ Added(tally[req[c].q], req[c].user, req[c].verdict) \in Tallies
         /\ tally' \in [Questions -> Tallies]
         /\ tally'[req[c].q] = Added(tally[req[c].q], req[c].user, req[c].verdict)
         /\ \A q \in Questions : q # req[c].q => tally'[q] = tally[q]
<1> DEFINE q == req[c].q
           u == req[c].user
           v == req[c].verdict
<1>1. q \in Questions /\ u \in Students /\ v \in Verdicts
  BY DEF TypeInv, InFlight, Tally
<1>2. tally \in [Questions -> Tallies]
  BY DEF TypeInv, TypeOK
<1>3. Added(tally[q], u, v) \in Tallies
  <2>1. tally[q] \in Tallies
    BY <1>1, <1>2
  <2>2. [tally[q].answers EXCEPT ![u] = v] \in [Students -> Verdict0]
    BY <1>1, <2>1 DEF Tallies, Verdict0
  <2>3. tally[q].total + 1 \in Nat /\ (tally[q].correct + IF v = "right" THEN 1 ELSE 0) \in Nat
    BY <2>1 DEF Tallies
  <2>4. QED BY <2>2, <2>3 DEF Added, Tallies
<1>4. tally' = [tally EXCEPT ![q] = Added(tally[q], u, v)]
  BY DEF Tally
<1>5. QED BY <1>1, <1>2, <1>3, <1>4

\* Its answer is the one that changes.
LEMMA AddedAnswers ==
  ASSUME NEW t \in Tallies, NEW u \in Students, NEW v \in Verdicts
  PROVE  /\ Added(t, u, v).answers[u] = v /\ Added(t, u, v).answers[u] # None
         /\ \A s \in Students : s # u => Added(t, u, v).answers[s] = t.answers[s]
<1>1. Added(t, u, v).answers = [t.answers EXCEPT ![u] = v]
  BY DEF Added
<1>2. t.answers \in [Students -> Verdict0] /\ v # None
  BY DEF Tallies, Verdicts, None
<1>3. QED BY <1>1, <1>2

LEMMA TallyAnswers ==
  ASSUME TypeInv, NEW c \in Requests, Tally(c), NEW s \in Students, NEW q \in Questions
  PROVE  IF q = req[c].q /\ s = req[c].user
         THEN tally'[q].answers[s] = req[c].verdict /\ tally'[q].answers[s] # None
         ELSE tally'[q].answers[s] = tally[q].answers[s]
<1>1. tally[req[c].q] \in Tallies
  BY TallyAdds DEF TypeInv, TypeOK
<1>2. CASE q # req[c].q
  BY <1>2, TallyAdds
<1>3. CASE q = req[c].q
  <2> DEFINE a == Added(tally[q], req[c].user, req[c].verdict)
  <2>1. tally'[q] = a /\ req[c].user \in Students /\ req[c].verdict \in Verdicts
    BY <1>3, TallyAdds
  <2>2. /\ a.answers[req[c].user] = req[c].verdict /\ a.answers[req[c].user] # None
        /\ s # req[c].user => a.answers[s] = tally[q].answers[s]
    <3>1. tally[q] \in Tallies
      BY <1>1, <1>3
    <3>2. QED BY <2>1, <3>1, AddedAnswers
  <2> HIDE DEF a
  <2>3. QED BY <1>3, <2>1, <2>2
<1>4. QED BY <1>2, <1>3

\* New statistics are empty.
LEMMA NoTallyType ==
  NoTally \in Tallies /\ NoTally.total = 0 /\ NoTally.correct = 0 /\ \A s \in Students : NoTally.answers[s] = None
BY DEF NoTally, Tallies, Verdict0

\* What the handlers of submissions in flight do.
LEMMA HandlerMoves ==
  ASSUME TypeInv, NEW c \in Requests, Handler(c)
  PROVE  Moves(c) /\ archived' = archived
<1>1. ASSUME SubmitCount(c) PROVE Moves(c) /\ archived' = archived
  BY <1>1, CountedMoves DEF SubmitCount, TypeInv
<1>2. ASSUME SubmitFetch(c) PROVE Moves(c) /\ archived' = archived
  <2>1. To(c, "create") \/ Done(c)
    BY <1>2 DEF SubmitFetch
  <2>2. req[c].pc = "fetch" /\ archived' = archived
    BY <1>2 DEF SubmitFetch
  <2>3. QED BY <2>1, <2>2, ToMoves, DoneMoves DEF TypeInv, Phases
<1>3. ASSUME SubmitCreate(c) PROVE Moves(c) /\ archived' = archived
  <2>1. To(c, "tally") \/ Done(c)
    BY <1>3 DEF SubmitCreate
  <2>2. req[c].pc = "create" /\ archived' = archived
    BY <1>3 DEF SubmitCreate
  <2>3. QED BY <2>1, <2>2, ToMoves, DoneMoves DEF TypeInv, Phases
<1>4. ASSUME CreateFails(c) PROVE Moves(c) /\ archived' = archived
  BY <1>4, AgainMoves DEF CreateFails, TypeInv
<1>5. ASSUME CreateOrphan(c) PROVE Moves(c) /\ archived' = archived
  BY <1>5, AgainMoves DEF CreateOrphan, TypeInv
<1>6. ASSUME Tally(c) PROVE Moves(c) /\ archived' = archived
  BY <1>6, DoneMoves DEF Tally, TypeInv
<1>7. ASSUME HttpCount(c) PROVE Moves(c) /\ archived' = archived
  BY <1>7, CountedMoves DEF HttpCount, TypeInv
<1>8. ASSUME Upsert(c) PROVE Moves(c) /\ archived' = archived
  BY <1>8, DoneMoves DEF Upsert, TypeInv
<1>9. QED
  BY <1>1, <1>2, <1>3, <1>4, <1>5, <1>6, <1>7, <1>8 DEF Handler

\* Where they go on to.
LEMMA HandlerGoes ==
  ASSUME TypeInv, NEW c \in Requests, Handler(c)
  PROVE  /\ req'[c].pc \in {"hcount", "upsert"} => archived
         /\ req'[c].pc = "tally" => SubmitCreate(c) /\ stored[Row(c)] = None
<1>1. ASSUME SubmitCount(c) PROVE req'[c].pc \in {"idle", "fetch"}
  BY <1>1, CountedMoves DEF SubmitCount, TypeInv
<1>2. ASSUME SubmitFetch(c) PROVE req'[c].pc \in {"idle", "create"}
  <2>1. To(c, "create") \/ Done(c)
    BY <1>2 DEF SubmitFetch
  <2>2. req[c].pc = "fetch"
    BY <1>2 DEF SubmitFetch
  <2>3. QED BY <2>1, <2>2, ToMoves, DoneMoves DEF TypeInv, Phases
<1>3. ASSUME SubmitCreate(c)
      PROVE  req'[c].pc \in {"idle", "tally"} /\ (req'[c].pc = "tally" => stored[Row(c)] = None)
  <2>1. req[c].pc = "create"
    BY <1>3 DEF SubmitCreate
  <2>2. CASE stored[Row(c)] = None
    BY <1>3, <2>1, <2>2, ToMoves DEF SubmitCreate, TypeInv, Phases
  <2>3. CASE stored[Row(c)] # None
    BY <1>3, <2>1, <2>3, DoneMoves DEF SubmitCreate, TypeInv
  <2>4. QED BY <2>2, <2>3
<1>4. ASSUME CreateFails(c) \/ CreateOrphan(c) PROVE req'[c].pc \in {"idle", "create"}
  BY <1>4, AgainMoves DEF CreateFails, CreateOrphan, TypeInv
<1>5. ASSUME Tally(c) \/ Upsert(c) PROVE req'[c].pc = "idle"
  BY <1>5, DoneMoves DEF Tally, Upsert, TypeInv
<1>6. ASSUME HttpCount(c) PROVE req'[c].pc \in {"idle", "upsert"} /\ archived
  <2>1. req'[c].pc \in {"idle", "upsert"}
    BY <1>6, CountedMoves DEF HttpCount, TypeInv
  <2>2. archived
    BY <1>6 DEF HttpCount, TypeInv, AfterEnd
  <2>3. QED BY <2>1, <2>2
<1>7. QED
  BY <1>1, <1>2, <1>3, <1>4, <1>5, <1>6 DEF Handler

\* What they store.
LEMMA HandlerStores ==
  ASSUME TypeInv, NEW c \in Requests, Handler(c)
  PROVE  /\ stored' \in [Pairs -> Verdict0]
         /\ questions' = questions
         /\ \A p \in Pairs : stored'[p] # stored[p] =>
              /\ p = Row(c) /\ stored'[p] = req[c].verdict /\ req[c].verdict \in Verdicts
              /\ (~archived => stored[p] = None)
         /\ SubmitCreate(c) /\ stored[Row(c)] = None => stored'[Row(c)] = req[c].verdict
<1>0. stored \in [Pairs -> Verdict0] /\ questions' = questions
  BY DEF TypeInv, TypeOK, Handler, SubmitCount, SubmitFetch, SubmitCreate, CreateFails, CreateOrphan,
         Tally, HttpCount, Upsert, answers
<1>1. CASE stored' = stored /\ ~SubmitCreate(c)
  BY <1>0, <1>1
<1>2. CASE SubmitCreate(c) \/ stored' # stored
  <2>1. req[c].pc \in {"create", "upsert"}
    BY <1>2 DEF Handler, SubmitCount, SubmitFetch, SubmitCreate, CreateFails, CreateOrphan,
         Tally, HttpCount, Upsert, answers
  <2>2. Row(c) \in Pairs /\ req[c].verdict \in Verdicts
    BY <2>1 DEF TypeInv, InFlight, Row, Pairs
  <2>3. [stored EXCEPT ![Row(c)] = req[c].verdict] \in [Pairs -> Verdict0]
    BY <1>0, <2>2 DEF Verdict0
  <2>4. CASE SubmitCreate(c)
    <3>1. CASE stored[Row(c)] = None
      BY <1>0, <2>2, <2>3, <2>4, <3>1 DEF SubmitCreate
    <3>2. CASE stored[Row(c)] # None
      BY <1>0, <2>4, <3>2 DEF SubmitCreate
    <3>3. QED BY <3>1, <3>2
  <2>5. CASE ~SubmitCreate(c) /\ stored' # stored
    <3>1. stored' = [stored EXCEPT ![Row(c)] = req[c].verdict]
      BY <2>5 DEF Handler, SubmitCount, SubmitFetch, CreateFails, CreateOrphan, Tally, HttpCount, Upsert, answers
    <3>2. stored[Row(c)] = None \/ archived
      BY <2>5 DEF Handler, SubmitCount, SubmitFetch, CreateFails, CreateOrphan, Tally, HttpCount, Upsert, answers,
         TypeInv, AfterEnd
    <3>3. QED BY <1>0, <2>2, <2>3, <2>5, <3>1, <3>2
  <2>6. QED BY <1>2, <2>4, <2>5
<1>3. QED BY <1>1, <1>2

-----------------------------------------------------------------------------
(* Types *)

LEMMA InitType == Init => TypeInv
<1> SUFFICES ASSUME Init PROVE TypeInv
  OBVIOUS
<1>1. questions \subseteq Questions /\ stored \in [Pairs -> Verdict0] /\ active \in Questions \cup {None}
  BY DEF Init, Verdict0
<1>2. tally \in [Questions -> Tallies] /\ req \in [Requests -> Submissions] /\ \A c \in Requests : req[c].pc = "idle"
  BY IdleType, NoTallyType DEF Init
<1>3. /\ count \in [Students -> 0..MaxCount] /\ passed \in [Students -> Nat]
      /\ faults \in 0..MaxFaults /\ days \in 0..MaxDays /\ lost \subseteq Pairs
  BY QuizAnswersAssumption DEF Init, Zero
<1>4. archived \in BOOLEAN
  BY Zenon DEF Init
<1>5. QED BY <1>1, <1>2, <1>3, <1>4 DEF TypeInv, TypeOK, InFlight, AfterEnd

\* The step of a handler keeps the types.
LEMMA HandlerType ==
  ASSUME TypeInv, NEW c \in Requests, Handler(c)
  PROVE  TypeInv'
<1> USE DEF TypeInv
<1>1. req' \in [Requests -> Submissions]
  BY HandlerMoves DEF Moves
<1>2. InFlight' /\ AfterEnd'
  BY HandlerMoves, HandlerGoes, MovesInFlight
<1>3. questions' \subseteq Questions /\ stored' \in [Pairs -> Verdict0]
  BY HandlerStores DEF TypeOK
<1>4. active' = active /\ archived' = archived /\ days' = days
  BY DEF Handler, SubmitCount, SubmitFetch, SubmitCreate, CreateFails, CreateOrphan, Tally, HttpCount, Upsert
<1>5. tally' \in [Questions -> Tallies]
  <2>1. CASE Tally(c)
    BY <2>1, TallyAdds
  <2>2. CASE ~Tally(c)
    BY <2>2 DEF TypeOK, answers, Handler, SubmitCount, SubmitFetch, SubmitCreate, CreateFails, CreateOrphan,
                HttpCount, Upsert
  <2>3. QED BY <2>1, <2>2
<1>6. count' \in [Students -> 0..MaxCount] /\ passed' \in [Students -> Nat]
  <2>1. CASE SubmitCount(c) \/ HttpCount(c)
    BY <2>1, CountedMoves DEF SubmitCount, HttpCount
  <2>2. CASE ~(SubmitCount(c) \/ HttpCount(c))
    BY <2>2 DEF TypeOK, Handler, SubmitFetch, SubmitCreate, CreateFails, CreateOrphan, Tally, Upsert
  <2>3. QED BY <2>1, <2>2
<1>7. faults' \in 0..MaxFaults
  <2>1. faults' = faults \/ Fault
    BY DEF Handler, SubmitCount, SubmitFetch, SubmitCreate, CreateFails, CreateOrphan, Tally, HttpCount, Upsert,
           CountFails
  <2>2. QED BY <2>1, QuizAnswersAssumption DEF TypeOK, Fault
<1>8. lost' \subseteq Pairs
  <2>1. CASE lost' = lost
    BY <2>1 DEF TypeOK
  <2>2. CASE lost' # lost
    <3>1. CreateFails(c)
      BY <2>2 DEF Handler, SubmitCount, SubmitFetch, SubmitCreate, CreateOrphan, Tally, HttpCount, Upsert
    <3>2. Row(c) \in Pairs
      BY <3>1 DEF CreateFails, InFlight, Row, Pairs
    <3>3. QED BY <2>2, <3>1, <3>2 DEF CreateFails, TypeOK
  <2>3. QED BY <2>1, <2>2
<1>9. QED
  BY <1>1, <1>2, <1>3, <1>4, <1>5, <1>6, <1>7, <1>8 DEF TypeOK

\* A new submission keeps the types.
LEMMA EnterType ==
  ASSUME TypeInv, NEW c \in Requests, NEW u \in Students, NEW q \in Questions, NEW v \in Verdicts,
         \/ Submit(c, u, q, v)
         \/ \E retry \in BOOLEAN : HttpSubmit(c, u, q, v, retry)
  PROVE  TypeInv'
<1>1. UNCHANGED <<answers, active, archived, count, faults, days, passed, lost>>
  BY DEF Submit, HttpSubmit
<1>2. req' \in [Requests -> Submissions] /\ InFlight' /\ AfterEnd'
  <2>1. CASE Submit(c, u, q, v)
    <3>1. Enters(c, "count", u, q, v) /\ archived' = archived
      BY <2>1, <1>1, SubmitEnters DEF TypeInv
    <3>2. QED BY <3>1, EntersInFlight DEF Enters
  <2>2. CASE \E retry \in BOOLEAN : HttpSubmit(c, u, q, v, retry)
    <3>1. archived /\ archived' = archived
      BY <2>2, <1>1 DEF HttpSubmit
    <3>2. PICK pc \in {"hcount", "upsert"} : Enters(c, pc, u, q, v)
      BY <2>2, HttpSubmitEnters DEF TypeInv
    <3>3. QED BY <3>1, <3>2, EntersInFlight DEF Enters
  <2>3. QED BY <2>1, <2>2
<1>3. QED BY <1>1, <1>2 DEF TypeInv, TypeOK, answers

\* So do the others.
LEMMA OthersType ==
  ASSUME TypeInv,
         \/ \E q \in Questions : Activate(q) \/ DeleteQuestion(q)
         \/ Deactivate \/ EndSession \/ Restart \/ Midnight
  PROVE  TypeInv'
<1> USE DEF TypeInv
<1>1. ASSUME NEW q \in Questions, Activate(q) PROVE TypeInv'
  BY <1>1 DEF Activate, TypeOK, InFlight, AfterEnd, answers
<1>2. ASSUME NEW q \in Questions, DeleteQuestion(q) PROVE TypeInv'
  <2>1. stored' \in [Pairs -> Verdict0]
    BY <1>2 DEF DeleteQuestion, TypeOK, Verdict0
  <2>2. active' \in Questions \cup {None} /\ questions' \subseteq Questions
    BY <1>2 DEF DeleteQuestion, TypeOK
  <2>3. QED BY <1>2, <2>1, <2>2 DEF DeleteQuestion, TypeOK, InFlight, AfterEnd
<1>3. ASSUME Deactivate PROVE TypeInv'
  BY <1>3 DEF Deactivate, TypeOK, InFlight, AfterEnd, answers
<1>4. ASSUME EndSession PROVE TypeInv'
  <2>1. tally' \in [Questions -> Tallies]
    BY <1>4, NoTallyType DEF EndSession
  <2>2. archived' \in BOOLEAN
    BY <1>4, Zenon DEF EndSession
  <2>3. archived' /\ req' = req
    BY <1>4 DEF EndSession
  <2>4. InFlight' /\ AfterEnd'
    BY <2>3 DEF InFlight, AfterEnd
  <2>5. QED BY <1>4, <2>1, <2>2, <2>4 DEF EndSession, TypeOK
<1>5. ASSUME Restart PROVE TypeInv'
  <2>1. tally' \in [Questions -> Tallies] /\ req' \in [Requests -> Submissions]
    BY <1>5, NoTallyType, IdleType DEF Restart
  <2>2. InFlight' /\ AfterEnd'
    BY <1>5, IdleType DEF Restart, InFlight, AfterEnd
  <2>3. lost' \subseteq Pairs /\ faults' \in 0..MaxFaults
    BY <1>5, QuizAnswersAssumption DEF Restart, TypeOK, Fault
  <2>4. QED BY <1>5, <2>1, <2>2, <2>3 DEF Restart, TypeOK
<1>6. ASSUME Midnight PROVE TypeInv'
  BY <1>6, QuizAnswersAssumption DEF Midnight, TypeOK, InFlight, AfterEnd, answers, Zero
<1>7. QED BY <1>1, <1>2, <1>3, <1>4, <1>5, <1>6

LEMMA StepType == TypeInv /\ [Next]_vars => TypeInv'
<1> SUFFICES ASSUME TypeInv, [Next]_vars PROVE TypeInv'
  OBVIOUS
<1>1. CASE Next
  BY <1>1, HandlerType, EnterType, OthersType DEF Next
<1>2. CASE UNCHANGED vars
  BY <1>2 DEF vars, answers, TypeInv, TypeOK, InFlight, AfterEnd
<1>3. QED BY <1>1, <1>2

\* Every reachable state has the types of the server's state.
THEOREM TypeCorrect == Spec => []TypeOK
<1>1. TypeInv => TypeOK
  BY DEF TypeInv
<1>2. QED BY <1>1, InitType, StepType, PTL DEF Spec

LEMMA TypeAlways == Spec => []TypeInv
BY InitType, StepType, PTL DEF Spec

-----------------------------------------------------------------------------
(* The daily limit *)

LEMMA LimitStep == TypeInv /\ LimitInv /\ [Next]_vars => LimitInv'
<1> SUFFICES ASSUME TypeInv, LimitInv, [Next]_vars PROVE LimitInv'
  OBVIOUS
<1>1. CASE UNCHANGED <<count, passed>>
  BY <1>1 DEF LimitInv
<1>2. ASSUME NEW c \in Requests, NEW pc, req[c].pc # "idle", Counted(c, pc) PROVE LimitInv'
  <2> DEFINE u == req[c].user
  <2>1. u \in Students
    BY <1>2 DEF TypeInv, InFlight
  <2>2. count' = [count EXCEPT ![u] = IF count[u] = MaxCount THEN count[u] ELSE count[u] + 1]
    BY <1>2 DEF Counted, Incr
  <2>3. CASE count'[u] > MaxDaily
    <3>1. passed' = passed
      BY <1>2, <2>3 DEF Counted
    <3>2. \A s \in Students : count'[s] >= count[s]
      BY <2>1, <2>2, QuizAnswersAssumption DEF TypeInv, TypeOK
    <3>3. \A s \in Students : count[s] \in Int /\ count'[s] \in Int /\ passed[s] \in Int
      BY <2>1, <2>2, QuizAnswersAssumption DEF TypeInv, TypeOK
    <3>4. QED BY <3>1, <3>2, <3>3 DEF LimitInv
  <2>4. CASE ~(count'[u] > MaxDaily)
    <3>1. passed' = [passed EXCEPT ![u] = passed[u] + 1]
      BY <1>2, <2>4 DEF Counted
    <3>2. count'[u] = count[u] + 1
      BY <2>1, <2>2, <2>4, QuizAnswersAssumption DEF TypeInv, TypeOK
    <3>3. \A s \in Students : s # u => count'[s] = count[s] /\ passed'[s] = passed[s]
      BY <2>2, <3>1 DEF TypeInv, TypeOK
    <3>4. passed'[u] = passed[u] + 1 /\ passed[u] \in Nat /\ count[u] \in Nat
      BY <2>1, <3>1, QuizAnswersAssumption DEF TypeInv, TypeOK
    <3>5. passed'[u] <= count'[u] /\ passed'[u] <= MaxDaily
      BY <2>1, <2>4, <3>2, <3>4, QuizAnswersAssumption DEF LimitInv
    <3>6. QED BY <3>3, <3>5 DEF LimitInv
  <2>5. QED BY <2>3, <2>4
<1>3. ASSUME NEW c \in Requests, NEW pc, req[c].pc # "idle", CountFails(c, pc) PROVE LimitInv'
  <2>1. req[c].user \in Students /\ passed' = passed
    BY <1>3 DEF TypeInv, InFlight, CountFails
  <2>2. \A s \in Students : count'[s] >= count[s] /\ count[s] \in Int /\ count'[s] \in Int /\ passed[s] \in Int
    BY <1>3, <2>1, QuizAnswersAssumption DEF TypeInv, TypeOK, CountFails, Incr
  <2>3. QED BY <2>1, <2>2 DEF LimitInv
<1>4. CASE Midnight
  BY <1>4, QuizAnswersAssumption DEF Midnight, Zero, LimitInv
<1>5. CASE \E c \in Requests : SubmitCount(c) \/ HttpCount(c)
  BY <1>2, <1>3, <1>5 DEF SubmitCount, HttpCount
<1>6. QED
  BY <1>1, <1>4, <1>5 DEF Next, Handler, Submit, HttpSubmit, SubmitFetch, SubmitCreate, CreateFails, CreateOrphan,
     Tally, Upsert, Activate, DeleteQuestion, Deactivate, EndSession, Restart, vars

\* The counter lets no student through more often than the limit in a day,
\* however many submissions are on their way at once.
THEOREM LimitHolds == Spec => []DailyLimit
<1>1. Init => LimitInv
  BY QuizAnswersAssumption DEF Init, Zero, LimitInv
<1>2. LimitInv => DailyLimit
  BY DEF LimitInv, DailyLimit
<1>3. QED BY <1>1, <1>2, LimitStep, TypeAlways, PTL DEF Spec

-----------------------------------------------------------------------------
(* The stored answers *)

\* What may happen to a stored answer in one step.
LEMMA StoredStep ==
  ASSUME TypeInv, [Next]_vars
  PROVE  /\ questions' \subseteq questions
         /\ archived => archived'
         /\ \A p \in Pairs : (p[2] \in questions' /\ stored'[p] # stored[p]) =>
              stored'[p] # None /\ (~archived => stored[p] = None)
<1>1. ASSUME NEW c \in Requests, Handler(c)
      PROVE  /\ questions' = questions /\ archived' = archived
             /\ \A p \in Pairs : stored'[p] # stored[p] => stored'[p] # None /\ (~archived => stored[p] = None)
  BY <1>1, HandlerStores, HandlerMoves DEF Verdicts, None
<1>2. ASSUME NEW q \in Questions, DeleteQuestion(q)
      PROVE  /\ questions' = questions \ {q} /\ archived' = archived
             /\ \A p \in Pairs : p[2] # q => stored'[p] = stored[p]
  BY <1>2 DEF DeleteQuestion
<1>3. CASE /\ ~\E c \in Requests : Handler(c)
           /\ ~\E q \in Questions : DeleteQuestion(q)
  BY <1>3 DEF Next, Submit, HttpSubmit, Activate, Deactivate, EndSession, Restart, Midnight, vars, answers
<1>4. QED BY <1>1, <1>2, <1>3

\* The first answer in class stands: no step changes the row of an answer
\* before the session is archived, whatever submissions are in flight.
THEOREM FirstStands == Spec => FirstAnswerStands
<1>1. ASSUME TypeInv, [Next]_vars
      PROVE  \A p \in Pairs : (stored[p] # None /\ ~archived /\ p[2] \in questions') => stored'[p] = stored[p]
  BY <1>1, StoredStep
<1>2. QED BY <1>1, TypeAlways, PTL DEF Spec, FirstAnswerStands

-----------------------------------------------------------------------------
(* Nothing uncounted *)

LEMMA UncountedStep == TypeInv /\ NothingUncounted /\ [Next]_vars => NothingUncounted'
<1> SUFFICES ASSUME TypeInv, NothingUncounted, [Next]_vars,
                    NEW s \in Students, NEW q \in Questions,
                    stored'[<<s, q>>] # None, ~archived', <<s, q>> \notin lost'
             PROVE  \/ tally'[q].answers[s] # None
                    \/ \E c \in Requests : req'[c].pc = "tally" /\ Row(c)' = <<s, q>>
  BY DEF NothingUncounted
<1> DEFINE p == <<s, q>>
           Counted1 == tally[q].answers[s] # None
           Waits(c) == req[c].pc = "tally" /\ Row(c) = p
<1>0. p \in Pairs /\ ~archived
  BY StoredStep DEF Pairs
<1>a. (stored[p] # None /\ p \notin lost) => Counted1 \/ \E c \in Requests : Waits(c)
  BY <1>0 DEF NothingUncounted
<1>1. ASSUME NEW c \in Requests, Handler(c)
      PROVE  tally'[q].answers[s] # None \/ \E d \in Requests : req'[d].pc = "tally" /\ Row(d)' = p
  <2>1. Moves(c) /\ \A d \in Requests : d # c => req'[d] = req[d]
    BY <1>1, HandlerMoves DEF Moves
  <2>2. CASE stored[p] = None
    <3>1. p = Row(c)
      BY <1>0, <1>1, <2>2, HandlerStores
    <3>2. SubmitCreate(c)
      <4>1. ~CreateFails(c)
        BY <1>0, <2>2, <3>1 DEF CreateFails
      <4>2. ~Upsert(c)
        BY <1>0 DEF Upsert, TypeInv, AfterEnd
      <4>3. QED
        BY <1>1, <2>2, <4>1, <4>2 DEF Handler, SubmitCount, SubmitFetch, CreateOrphan, Tally, HttpCount, answers
    <3>3. req'[c].pc = "tally"
      BY <2>2, <3>1, <3>2, ToMoves DEF SubmitCreate, TypeInv, Phases
    <3>4. Row(c)' = Row(c)
      BY <2>1, <3>3 DEF Moves, Row
    <3>5. QED BY <3>1, <3>3, <3>4
  <2>3. CASE stored[p] # None
    <3>1. p \notin lost
      BY <1>1 DEF Handler, SubmitCount, SubmitFetch, SubmitCreate, CreateFails, CreateOrphan, Tally, HttpCount, Upsert
    <3>2. CASE Tally(c)
      <4>1. CASE q = req[c].q /\ s = req[c].user
        BY <3>2, <4>1, TallyAnswers
      <4>2. CASE ~(q = req[c].q /\ s = req[c].user)
        <5>1. Row(c) # p
          BY <4>2 DEF Row
        <5>2. \A d \in Requests : Waits(d) => d # c /\ req'[d] = req[d] /\ Row(d)' = Row(d)
          BY <2>1, <5>1 DEF Row
        <5>3. tally'[q].answers[s] = tally[q].answers[s]
          BY <3>2, <4>2, TallyAnswers
        <5>4. QED BY <1>a, <2>3, <3>1, <5>2, <5>3
      <4>3. QED BY <4>1, <4>2
    <3>3. CASE ~Tally(c)
      <4>1. tally' = tally
        BY <1>1, <3>3 DEF Handler, SubmitCount, SubmitFetch, SubmitCreate, CreateFails, CreateOrphan, HttpCount, Upsert, answers
      <4>2. req[c].pc # "tally"
        BY <1>1, <3>3 DEF Handler, SubmitCount, SubmitFetch, SubmitCreate, CreateFails, CreateOrphan, HttpCount, Upsert
      <4>3. \A d \in Requests : Waits(d) => req'[d].pc = "tally" /\ Row(d)' = p
        BY <2>1, <4>2 DEF Row
      <4>4. QED BY <1>a, <2>3, <3>1, <4>1, <4>3
    <3>4. QED BY <3>2, <3>3
  <2>4. QED BY <2>2, <2>3
<1>2. ASSUME NEW c \in Requests, NEW u \in Students, NEW r \in Questions, NEW v \in Verdicts,
             \/ Submit(c, u, r, v)
             \/ \E retry \in BOOLEAN : HttpSubmit(c, u, r, v, retry)
      PROVE  tally'[q].answers[s] # None \/ \E d \in Requests : req'[d].pc = "tally" /\ Row(d)' = p
  <2>1. req[c].pc = "idle" /\ UNCHANGED <<stored, tally, lost>>
    BY <1>2 DEF Submit, HttpSubmit, answers
  <2>2. \A d \in Requests : d # c => req'[d] = req[d]
    BY <1>2, SubmitEnters, HttpSubmitEnters DEF Enters, TypeInv
  <2>3. \A d \in Requests : Waits(d) => req'[d].pc = "tally" /\ Row(d)' = p
    BY <2>1, <2>2 DEF Row
  <2>4. QED BY <1>a, <2>1, <2>3
<1>3. ASSUME Restart PROVE FALSE
  BY <1>0, <1>3 DEF Restart
<1>4. ASSUME EndSession PROVE FALSE
  BY <1>4 DEF EndSession
<1>5. ASSUME NEW r \in Questions, DeleteQuestion(r) PROVE stored[p] # None /\ UNCHANGED <<tally, req, lost>>
  BY <1>0, <1>5 DEF DeleteQuestion
<1>6. CASE UNCHANGED <<stored, tally, req, lost>> \/ (\E r \in Questions : DeleteQuestion(r))
  <2>1. stored[p] # None /\ UNCHANGED <<tally, req, lost>>
    BY <1>5, <1>6
  <2>2. \A d \in Requests : Waits(d) => req'[d].pc = "tally" /\ Row(d)' = p
    BY <2>1 DEF Row
  <2>3. QED BY <1>a, <2>1, <2>2
<1>7. QED
  BY <1>1, <1>2, <1>3, <1>4, <1>6 DEF Next, Activate, Deactivate, Midnight, vars, answers

\* While the session runs no stored answer is missing from the statistics, but
\* those whose acknowledgement was lost or that a restart made them forget.
THEOREM AllCounted == Spec => []NothingUncounted
<1>1. Init => NothingUncounted
  BY DEF Init, NothingUncounted, Pairs
<1>2. QED BY <1>1, UncountedStep, TypeAlways, PTL DEF Spec

-----------------------------------------------------------------------------
(* The statistics *)

\* One more answer, of a student not counted before, adds one to the counts.
LEMMA SumsAdded ==
  ASSUME NEW t \in Tallies, NEW u \in Students, NEW v \in Verdicts, t.answers[u] = None, Sums(t)
  PROVE  Sums(Added(t, u, v))
<1> DEFINE a == Added(t, u, v)
           With(f, V) == {s \in Students : f.answers[s] \in V}
<1>1. ASSUME NEW V, None \notin V
      PROVE  Cardinality(With(a, V)) = Cardinality(With(t, V)) + IF v \in V THEN 1 ELSE 0
  <2>1. u \notin With(t, V)
    BY <1>1
  <2>2. IsFiniteSet(With(t, V))
    BY QuizAnswersAssumption, FS_Subset
  <2>3. a.answers[u] = v /\ \A s \in Students : s # u => a.answers[s] = t.answers[s]
    BY AddedAnswers
  <2> HIDE DEF a
  <2>4. CASE v \in V
    <3>1. With(a, V) = With(t, V) \cup {u}
      BY <2>3, <2>4
    <3>2. Cardinality(With(t, V) \cup {u}) = Cardinality(With(t, V)) + 1
      BY <2>1, <2>2, FS_AddElement
    <3>3. QED BY <2>4, <3>1, <3>2
  <2>5. CASE v \notin V
    <3>1. With(a, V) = With(t, V)
      BY <2>1, <2>3, <2>5
    <3>2. Cardinality(With(t, V)) \in Nat
      BY <2>2, FS_CardinalityType
    <3>3. QED BY <2>5, <3>1, <3>2
  <2>6. QED BY <2>4, <2>5
<1>2. None \notin Verdicts /\ None \notin {"right"}
  BY DEF Verdicts, None
<1>3. /\ Cardinality(With(a, Verdicts)) = Cardinality(With(t, Verdicts)) + 1
      /\ Cardinality(With(a, {"right"})) = Cardinality(With(t, {"right"})) + IF v = "right" THEN 1 ELSE 0
  BY <1>1, <1>2
<1>4. a.total = t.total + 1 /\ a.correct = t.correct + IF v = "right" THEN 1 ELSE 0
  BY DEF Added
<1>5. t.total = Cardinality(With(t, Verdicts)) /\ t.correct = Cardinality(With(t, {"right"}))
  BY DEF Sums
<1> HIDE DEF a
<1>6. a.total = Cardinality(With(a, Verdicts)) /\ a.correct = Cardinality(With(a, {"right"}))
  BY <1>3, <1>4, <1>5
<1>7. QED BY <1>6 DEF Sums, a

\* Empty statistics count nothing.
LEMMA SumsEmpty == Sums(NoTally)
<1>1. \A V \in {Verdicts, {"right"}} : {s \in Students : NoTally.answers[s] \in V} = {}
  BY NoTallyType DEF Verdicts, None
<1>2. QED BY <1>1, NoTallyType, FS_EmptySet DEF Sums

\* The step of a handler keeps the statistics true to the rows.
LEMMA HandlerStats ==
  ASSUME TypeInv, StatsInv, NEW c \in Requests, Handler(c)
  PROVE  StatsInv'
<1> USE DEF StatsInv
<1>0. /\ Moves(c) /\ questions' = questions /\ archived' = archived
      /\ questions \subseteq Questions /\ stored \in [Pairs -> Verdict0]
  BY HandlerMoves, HandlerStores DEF TypeInv, TypeOK
<1>1. \A d \in Requests : req'[d].pc = "tally" =>
        /\ Row(d)' = Row(d) /\ Row(d) \in Pairs /\ Row(d) = <<req[d].user, req[d].q>>
        /\ req'[d].user = req[d].user /\ req'[d].q = req[d].q /\ req'[d].verdict = req[d].verdict
        /\ req[d].user \in Students /\ req[d].q \in Questions /\ req[d].verdict \in Verdicts
        /\ (req[d].pc = "tally" /\ d # c) \/ (d = c /\ SubmitCreate(c) /\ stored[Row(c)] = None)
  BY <1>0, HandlerGoes DEF TypeInv, InFlight, Moves, Row, Pairs
<1>2. ASSUME SubmitCreate(c), stored[Row(c)] = None
      PROVE  /\ req[c].q \in questions /\ tally' = tally
             /\ \A d \in Requests : req[d].pc = "tally" => Row(d) # Row(c)
             /\ stored'[Row(c)] = req[c].verdict /\ req[c].verdict \in Verdicts
             /\ tally[req[c].q].answers[req[c].user] = None
  <2>1. req[c].q \in questions /\ tally' = tally /\ req[c].pc = "create"
    BY <1>2 DEF SubmitCreate
  <2>2. req[c].user \in Students /\ req[c].verdict \in Verdicts
    BY <2>1 DEF TypeInv, InFlight
  <2>3. \A d \in Requests : req[d].pc = "tally" => Row(d) # Row(c)
    BY <1>2, <2>1 DEF Ahead, Row
  <2>4. tally[req[c].q].answers[req[c].user] = None
    BY <1>2, <2>1, <2>2 DEF Counts, Row
  <2>5. QED BY <1>2, <2>1, <2>2, <2>3, <2>4, HandlerStores
<1>3. OneAhead'
  BY <1>1, <1>2 DEF OneAhead
<1>4. \A p \in Pairs : (stored[p] # None) =>
         stored'[p] # None /\ (~archived => stored'[p] = stored[p])
  BY HandlerStores DEF Verdicts, None
<1>5. CASE Tally(c)
  <2> DEFINE q == req[c].q
             u == req[c].user
  <2>0. q \in Questions /\ u \in Students /\ req[c].pc = "tally" /\ stored' = stored /\ Row(c) = <<u, q>>
    BY <1>5, TallyAdds DEF Tally, Row
  <2>1. Ahead'
    <3> SUFFICES ASSUME NEW d \in Requests, req'[d].pc = "tally"
                 PROVE  /\ tally'[req'[d].q].answers[req'[d].user] = None
                        /\ req'[d].q \in questions' => stored'[Row(d)'] # None
                        /\ (req'[d].q \in questions' /\ ~archived') => stored'[Row(d)'] = req'[d].verdict
      BY DEF Ahead
    <3>1. req[d].pc = "tally" /\ d # c /\ Row(d) # Row(c)
      BY <1>1, <1>5, <2>0 DEF OneAhead, SubmitCreate
    <3>2. tally'[req[d].q].answers[req[d].user] = tally[req[d].q].answers[req[d].user]
      <4>1. req[d].user \in Students /\ req[d].q \in Questions /\ ~(req[d].q = q /\ req[d].user = u)
        BY <1>1, <3>1 DEF Row
      <4>2. QED BY <1>5, <4>1, TallyAnswers
    <3>3. /\ tally[req[d].q].answers[req[d].user] = None
          /\ req[d].q \in questions => stored[Row(d)] # None
          /\ (req[d].q \in questions /\ ~archived) => stored[Row(d)] = req[d].verdict
      BY <3>1 DEF Ahead
    <3>4. Row(d)' = Row(d) /\ req'[d].user = req[d].user /\ req'[d].q = req[d].q /\ req'[d].verdict = req[d].verdict
      BY <1>1
    <3>5. QED BY <1>0, <2>0, <3>2, <3>3, <3>4
  <2>2. Counts'
    <3> SUFFICES ASSUME NEW r \in questions, NEW s \in Students, tally'[r].answers[s] # None
                 PROVE  /\ stored[<<s, r>>] # None
                        /\ ~archived => stored[<<s, r>>] = tally'[r].answers[s]
      BY <1>0, <2>0 DEF Counts
    <3>1. CASE r = q /\ s = u
      <4>1. tally'[r].answers[s] = req[c].verdict
        BY <1>0, <1>5, <3>1, TallyAnswers
      <4>2. QED BY <2>0, <3>1, <4>1 DEF Ahead
    <3>2. CASE ~(r = q /\ s = u)
      <4>1. tally'[r].answers[s] = tally[r].answers[s]
        BY <1>0, <1>5, <3>2, TallyAnswers
      <4>2. QED BY <4>1 DEF Counts
    <3>3. QED BY <3>1, <3>2
  <2>3. SumsAgree'
    <3>1. Sums(tally'[q])
      BY <1>5, <2>0, TallyAdds, SumsAdded DEF SumsAgree, Ahead, TypeInv, TypeOK
    <3>2. \A r \in Questions : r # q => Sums(tally'[r])
      BY <1>5, TallyAdds DEF SumsAgree
    <3>3. QED BY <3>1, <3>2 DEF SumsAgree
  <2>4. QED BY <1>3, <2>1, <2>2, <2>3
<1>6. CASE ~Tally(c)
  <2>0. tally' = tally
    BY <1>6 DEF Handler, SubmitCount, SubmitFetch, SubmitCreate, CreateFails, CreateOrphan, HttpCount, Upsert, answers
  <2>1. Ahead'
    <3> SUFFICES ASSUME NEW d \in Requests, req'[d].pc = "tally"
                 PROVE  /\ tally'[req'[d].q].answers[req'[d].user] = None
                        /\ req'[d].q \in questions' => stored'[Row(d)'] # None
                        /\ (req'[d].q \in questions' /\ ~archived') => stored'[Row(d)'] = req'[d].verdict
      BY DEF Ahead
    <3>1. CASE req[d].pc = "tally" /\ d # c
      BY <1>0, <1>1, <1>4, <2>0, <3>1 DEF Ahead
    <3>2. CASE d = c /\ SubmitCreate(c) /\ stored[Row(c)] = None
      <4>1. stored'[Row(c)] = req[c].verdict /\ req[c].verdict # None /\ tally[req[c].q].answers[req[c].user] = None
        BY <1>2, <3>2 DEF Verdicts, None
      <4>2. QED BY <1>1, <2>0, <3>2, <4>1
    <3>3. QED BY <1>1, <3>1, <3>2
  <2>2. Counts'
    <3>1. \A r \in questions, s \in Students : <<s, r>> \in Pairs
      BY <1>0 DEF Pairs
    <3>2. QED BY <1>0, <1>4, <2>0, <3>1 DEF Counts
  <2>3. SumsAgree'
    BY <2>0 DEF SumsAgree
  <2>4. QED BY <1>3, <2>1, <2>2, <2>3
<1>7. QED BY <1>5, <1>6

\* So do a new submission and what the other handlers do.
LEMMA EnterStats ==
  ASSUME TypeInv, StatsInv, NEW c \in Requests, NEW u \in Students, NEW q \in Questions, NEW v \in Verdicts,
         \/ Submit(c, u, q, v)
         \/ \E retry \in BOOLEAN : HttpSubmit(c, u, q, v, retry)
  PROVE  StatsInv'
<1>1. UNCHANGED <<questions, stored, tally, archived>>
  BY DEF Submit, HttpSubmit, answers
<1>2. req'[c].pc # "tally" /\ \A d \in Requests : d # c => req'[d] = req[d]
  BY SubmitEnters, HttpSubmitEnters DEF Enters, TypeInv
<1>3. \A d \in Requests : req'[d].pc = "tally" => req'[d] = req[d] /\ Row(d)' = Row(d)
  BY <1>2 DEF Row
<1>4. OneAhead' /\ Ahead'
  BY <1>1, <1>3 DEF StatsInv, OneAhead, Ahead
<1>5. Counts' /\ SumsAgree'
  BY <1>1 DEF StatsInv, Counts, SumsAgree
<1>6. QED BY <1>4, <1>5 DEF StatsInv

LEMMA OthersStats ==
  ASSUME TypeInv, StatsInv,
         \/ \E q \in Questions : Activate(q) \/ DeleteQuestion(q)
         \/ Deactivate \/ EndSession \/ Restart \/ Midnight
  PROVE  StatsInv'
<1>1. CASE UNCHANGED <<questions, stored, tally, archived, req>>
  BY <1>1 DEF StatsInv, OneAhead, Ahead, Counts, SumsAgree, Row
<1>2. ASSUME NEW q \in Questions, DeleteQuestion(q) PROVE StatsInv'
  <2>1. questions' = questions \ {q} /\ UNCHANGED <<tally, archived, req>>
    BY <1>2 DEF DeleteQuestion
  <2>2. \A s \in Students, r \in Questions : r # q => stored'[<<s, r>>] = stored[<<s, r>>]
    BY <1>2 DEF DeleteQuestion, Pairs
  <2>3. OneAhead' /\ SumsAgree'
    BY <2>1 DEF StatsInv, OneAhead, SumsAgree, Row
  <2>4. Ahead'
    BY <2>1, <2>2 DEF StatsInv, Ahead, Row, TypeInv, InFlight
  <2>5. Counts'
    BY <2>1, <2>2 DEF StatsInv, Counts, TypeInv, TypeOK
  <2>6. QED BY <2>3, <2>4, <2>5 DEF StatsInv
<1>3. ASSUME tally' = [q \in Questions |-> NoTally], questions' = questions
      PROVE  Counts' /\ SumsAgree' /\ \A q \in Questions, s \in Students : tally'[q].answers[s] = None
  <2>1. \A q \in Questions, s \in Students : tally'[q].answers[s] = None
    BY <1>3, NoTallyType
  <2>2. SumsAgree'
    BY <1>3, SumsEmpty DEF SumsAgree
  <2>3. Counts'
    BY <1>3, <2>1 DEF Counts, TypeInv, TypeOK
  <2>4. QED BY <2>1, <2>2, <2>3
<1>4. ASSUME EndSession PROVE StatsInv'
  <2>1. UNCHANGED <<questions, stored, req>> /\ archived'
    BY <1>4 DEF EndSession
  <2>2. OneAhead' /\ Ahead' /\ Counts' /\ SumsAgree'
    BY <1>3, <1>4, <2>1 DEF EndSession, StatsInv, OneAhead, Ahead, Row, TypeInv, InFlight
  <2>3. QED BY <2>2 DEF StatsInv
<1>5. ASSUME Restart PROVE StatsInv'
  <2>1. \A c \in Requests : req'[c].pc = "idle"
    BY <1>5, IdleType DEF Restart
  <2>2. Counts' /\ SumsAgree'
    BY <1>3, <1>5 DEF Restart
  <2>3. QED BY <2>1, <2>2 DEF StatsInv, OneAhead, Ahead
<1>6. QED
  BY <1>1, <1>2, <1>4, <1>5 DEF Activate, Deactivate, Midnight, answers

LEMMA StatsStep == TypeInv /\ StatsInv /\ [Next]_vars => StatsInv'
<1> SUFFICES ASSUME TypeInv, StatsInv, [Next]_vars PROVE StatsInv'
  OBVIOUS
<1>1. CASE Next
  BY <1>1, HandlerStats, EnterStats, OthersStats DEF Next
<1>2. CASE UNCHANGED vars
  BY <1>2 DEF vars, answers, StatsInv, OneAhead, Ahead, Counts, SumsAgree, Row
<1>3. QED BY <1>1, <1>2

LEMMA InitStats == Init => StatsInv
<1> SUFFICES ASSUME Init PROVE StatsInv
  OBVIOUS
<1>1. \A c \in Requests : req[c].pc = "idle"
  BY IdleType DEF Init
<1>2. SumsAgree /\ \A q \in Questions, s \in Students : tally[q].answers[s] = None
  BY SumsEmpty, NoTallyType DEF Init, SumsAgree
<1>3. Counts
  BY <1>2 DEF Init, Counts
<1>4. QED BY <1>1, <1>2, <1>3 DEF StatsInv, OneAhead, Ahead

\* The statistics count each student once and under the verdict of the stored
\* row, for any number of submissions of one student at a time.
THEOREM StatsTrue == Spec => []StatsAgree
<1>1. ASSUME TypeInv, StatsInv PROVE StatsAgree
  <2>1. \A q \in Questions : Sums(tally[q])
    BY <1>1 DEF StatsInv, SumsAgree
  <2>2. ASSUME NEW q \in Questions, ~archived, q \in questions, NEW s \in Students, tally[q].answers[s] \in Verdicts
        PROVE  stored[<<s, q>>] = tally[q].answers[s]
    BY <1>1, <2>2 DEF StatsInv, Counts, Verdicts, None
  <2>3. QED BY <2>1, <2>2 DEF StatsAgree, Sums
<1>2. QED BY <1>1, InitStats, StatsStep, TypeAlways, PTL DEF Spec
=============================================================================
