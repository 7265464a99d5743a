---------------------------- MODULE QuizAnswers ----------------------------
(***************************************************************************)
(* The answers to the quiz questions of one session: submitted in class    *)
(* over the socket, again over HTTP once the session is archived; the      *)
(* attempts of a day, counted in Redis; and the statistics in memory that  *)
(* the teachers watch.                                                     *)
(*                                                                         *)
(* An answer is its verdict.  A command and the code its reply resumes are *)
(* one action, except that the statistics are updated some time after the  *)
(* row was created.                                                        *)
(***************************************************************************)
EXTENDS Naturals, FiniteSets

CONSTANTS
  Students, Questions,
  Requests,   \* slots for submissions in flight
  MaxDaily,   \* MAX_QUIZ_DAILY_ATTEMPTS, 2 in the code
  MaxCount,   \* the daily counter stays here: all higher values act alike
  MaxFaults,  \* bound: commands that fail, restarts
  MaxDays     \* bound: midnights

ASSUME QuizAnswersAssumption ==
  /\ {MaxDaily, MaxCount, MaxFaults, MaxDays} \subseteq Nat /\ MaxCount > MaxDaily
  /\ IsFiniteSet(Students) /\ "none" \notin Questions

VARIABLES
  questions,  \* QuizQuestion rows
  stored,     \* QuizAnswer rows: the verdict of a student's answer
  active,     \* activeQuizzes
  tally,      \* quizStats: [total, correct, answers] of a question
  archived,   \* the session is ARCHIVED
  count,      \* the keys quiz:count:<user>:<today>
  req,        \* submissions in flight: [pc, user, q, verdict, attempt]
  faults, days,
  passed,     \* history: submissions a student's counter let through today
  lost        \* history: rows whose submitter was not told of them

answers == <<questions, stored, tally>>
vars == <<answers, active, archived, count, req, faults, days, passed, lost>>

None == "none"
Verdicts == {"right", "wrong"}
Pairs == Students \X Questions
Submission(pc, u, q, v) == [pc |-> pc, user |-> u, q |-> q, verdict |-> v, attempt |-> 1]
Idle == Submission("idle", None, None, None)
NoTally == [total |-> 0, correct |-> 0, answers |-> [s \in Students |-> None]]
Zero == [s \in Students |-> 0]

Init ==
  /\ questions = Questions /\ stored = [p \in Pairs |-> None]
  /\ active = None /\ tally = [q \in Questions |-> NoTally] /\ archived = FALSE
  /\ count = Zero /\ req = [c \in Requests |-> Idle] /\ faults = 0 /\ days = 0
  /\ passed = Zero /\ lost = {}

Row(c) == <<req[c].user, req[c].q>>
To(c, pc) == req' = [req EXCEPT ![c].pc = pc]
Done(c) == req' = [req EXCEPT ![c] = Idle]
Fault == faults < MaxFaults /\ faults' = faults + 1

-----------------------------------------------------------------------------
(* The daily counter, the same for both ways in.                           *)

Incr(u) == [count EXCEPT ![u] = IF @ = MaxCount THEN @ ELSE @ + 1]

\* Mutant: the attempt after the last one is let through.
CountedOneMore(c, next) ==
  LET u == req[c].user IN
  /\ count' = Incr(u)
  /\ IF count'[u] > MaxDaily + 1
     THEN Done(c) /\ UNCHANGED passed
     ELSE To(c, next) /\ passed' = [passed EXCEPT ![u] = @ + 1]

\* INCR comes first, and an attempt that is refused is counted too.
Counted(c, next) ==
  LET u == req[c].user IN
  /\ count' = Incr(u)
  /\ IF count'[u] > MaxDaily
     THEN Done(c) /\ UNCHANGED passed
     ELSE To(c, next) /\ passed' = [passed EXCEPT ![u] = @ + 1]

\* When Redis fails the submission goes on, whether or not INCR took effect.
CountFails(c, next) ==
  /\ Fault /\ To(c, next)
  /\ \/ UNCHANGED count
     \/ count' = Incr(req[c].user)
  /\ UNCHANGED passed

-----------------------------------------------------------------------------
(* quiz:submit, in class                                                   *)

Submit(c, u, q, v) ==
  /\ req[c].pc = "idle"
  /\ active = q /\ tally[q].answers[u] = None
  /\ req' = [req EXCEPT ![c] = Submission("count", u, q, v)]
  /\ UNCHANGED <<answers, active, archived, count, faults, days, passed, lost>>

SubmitCount(c) ==
  /\ req[c].pc = "count"
  /\ \/ Counted(c, "fetch") /\ UNCHANGED faults
     \/ CountFails(c, "fetch")
  /\ UNCHANGED <<answers, active, archived, days, lost>>

SubmitFetch(c) ==
  /\ req[c].pc = "fetch"
  /\ \/ /\ IF req[c].q \in questions THEN To(c, "create") ELSE Done(c)
        /\ UNCHANGED faults
     \/ Done(c) /\ Fault
  /\ UNCHANGED <<answers, active, archived, count, days, passed, lost>>

\* Mutant: the row is overwritten.
CreateOver(c) ==
  /\ req[c].pc = "create" /\ req[c].q \in questions
  /\ stored' = [stored EXCEPT ![Row(c)] = req[c].verdict]
  /\ To(c, "tally")
  /\ UNCHANGED <<questions, tally, active, archived, count, faults, days, passed, lost>>

\* Mutant: meeting the unique key is taken for success.
CreateOrGoOn(c) ==
  /\ req[c].pc = "create" /\ req[c].q \in questions
  /\ stored' = IF stored[Row(c)] = None THEN [stored EXCEPT ![Row(c)] = req[c].verdict] ELSE stored
  /\ To(c, "tally")
  /\ UNCHANGED <<questions, tally, active, archived, count, faults, days, passed, lost>>

\* The unique key decides; whoever meets it is told the stored answer.
SubmitCreate(c) ==
  /\ req[c].pc = "create" /\ req[c].q \in questions
  /\ IF stored[Row(c)] = None
     THEN stored' = [stored EXCEPT ![Row(c)] = req[c].verdict] /\ To(c, "tally")
     ELSE UNCHANGED stored /\ Done(c)
  /\ UNCHANGED <<questions, tally, active, archived, count, faults, days, passed, lost>>

\* Mutant: the attempts are not limited to two.
AgainAndAgain(c) == req' = [req EXCEPT ![c].attempt = @ + 1]

Again(c) ==
  IF req[c].attempt = 1 THEN req' = [req EXCEPT ![c].attempt = 2] ELSE Done(c)

\* The connection fails before or after the commit; one more attempt is made.
CreateFails(c) ==
  /\ req[c].pc = "create" /\ Fault /\ Again(c)
  /\ \/ UNCHANGED <<stored, lost>>
     \/ /\ req[c].q \in questions /\ stored[Row(c)] = None
        /\ stored' = [stored EXCEPT ![Row(c)] = req[c].verdict]
        /\ lost' = lost \cup {Row(c)}
  /\ UNCHANGED <<questions, tally, active, archived, count, days, passed>>

\* The question was deleted: a foreign key without a row.
CreateOrphan(c) ==
  /\ req[c].pc = "create" /\ req[c].q \notin questions /\ Again(c)
  /\ UNCHANGED <<answers, active, archived, count, faults, days, passed, lost>>

Added(t, u, v) ==
  [total |-> t.total + 1, correct |-> t.correct + IF v = "right" THEN 1 ELSE 0,
   answers |-> [t.answers EXCEPT ![u] = v]]

\* Mutant: the statistics of the question are made anew for each answer.
TallyAnew(c) ==
  /\ req[c].pc = "tally"
  /\ tally' = [tally EXCEPT ![req[c].q] = Added(NoTally, req[c].user, req[c].verdict)]
  /\ Done(c)
  /\ UNCHANGED <<questions, stored, active, archived, count, faults, days, passed, lost>>

Tally(c) ==
  /\ req[c].pc = "tally"
  /\ tally' = [tally EXCEPT ![req[c].q] = Added(@, req[c].user, req[c].verdict)]
  /\ Done(c)
  /\ UNCHANGED <<questions, stored, active, archived, count, faults, days, passed, lost>>

-----------------------------------------------------------------------------
(* POST /quiz/submit, once the session is archived                         *)

HttpSubmit(c, u, q, v, retry) ==
  /\ req[c].pc = "idle" /\ archived
  /\ q \in questions
  /\ req' = [req EXCEPT ![c] = Submission(IF retry THEN "hcount" ELSE "upsert", u, q, v)]
  /\ UNCHANGED <<answers, active, archived, count, faults, days, passed, lost>>

HttpCount(c) ==
  /\ req[c].pc = "hcount"
  /\ \/ Counted(c, "upsert") /\ UNCHANGED faults
     \/ CountFails(c, "upsert")
  /\ UNCHANGED <<answers, active, archived, days, lost>>

\* The last answer counts; an error is answered 500, whatever was committed.
Upsert(c) ==
  /\ req[c].pc = "upsert" /\ Done(c)
  /\ \/ /\ req[c].q \in questions
        /\ stored' = [stored EXCEPT ![Row(c)] = req[c].verdict]
        /\ UNCHANGED faults
     \/ UNCHANGED stored /\ (Fault \/ (req[c].q \notin questions /\ UNCHANGED faults))
  /\ UNCHANGED <<questions, tally, active, archived, count, days, passed, lost>>

-----------------------------------------------------------------------------
(* What the other handlers do to this state                                *)

Activate(q) ==
  /\ q \in questions /\ active # q
  /\ active' = q
  /\ UNCHANGED <<answers, archived, count, req, faults, days, passed, lost>>

Deactivate ==
  /\ active # None /\ active' = None
  /\ UNCHANGED <<answers, archived, count, req, faults, days, passed, lost>>

\* The rows of a deleted question go with it, its statistics stay.
DeleteQuestion(q) ==
  /\ q \in questions
  /\ questions' = questions \ {q}
  /\ stored' = [p \in Pairs |-> IF p[2] = q THEN None ELSE stored[p]]
  /\ active' = IF active = q THEN None ELSE active
  /\ UNCHANGED <<tally, archived, count, req, faults, days, passed, lost>>

EndSession ==
  /\ ~archived /\ archived' = TRUE
  /\ active' = None /\ tally' = [q \in Questions |-> NoTally]
  /\ UNCHANGED <<questions, stored, count, req, faults, days, passed, lost>>

\* The process dies: the statistics are gone, and so is what was active.
Restart ==
  /\ Fault
  /\ active' = None /\ tally' = [q \in Questions |-> NoTally]
  /\ req' = [c \in Requests |-> Idle]
  /\ lost' = lost \cup {p \in Pairs : stored[p] # None}
  /\ UNCHANGED <<questions, stored, archived, count, days, passed>>

\* The keys of the day expire, and the next day has keys of its own.
Midnight ==
  /\ days < MaxDays /\ days' = days + 1
  /\ count' = Zero /\ passed' = Zero
  /\ UNCHANGED <<answers, active, archived, req, faults, lost>>

Handler(c) ==
  \/ SubmitCount(c) \/ SubmitFetch(c) \/ SubmitCreate(c) \/ CreateFails(c) \/ CreateOrphan(c)
  \/ Tally(c) \/ HttpCount(c) \/ Upsert(c)

Next ==
  \/ \E c \in Requests, u \in Students, q \in Questions, v \in Verdicts :
       Submit(c, u, q, v) \/ \E retry \in BOOLEAN : HttpSubmit(c, u, q, v, retry)
  \/ \E c \in Requests : Handler(c)
  \/ \E q \in Questions : Activate(q) \/ DeleteQuestion(q)
  \/ Deactivate \/ EndSession \/ Restart \/ Midnight

Spec == Init /\ [][Next]_vars

-----------------------------------------------------------------------------
(* Properties *)

Phases == {"idle", "count", "fetch", "create", "tally", "hcount", "upsert"}
Verdict0 == Verdicts \cup {None}
Submissions == [pc : Phases, user : Students \cup {None}, q : Questions \cup {None},
                verdict : Verdict0, attempt : {1, 2}]
Tallies == [total : Nat, correct : Nat, answers : [Students -> Verdict0]]

TypeOK ==
  /\ questions \subseteq Questions /\ stored \in [Pairs -> Verdict0]
  /\ active \in Questions \cup {None} /\ archived \in BOOLEAN
  /\ tally \in [Questions -> Tallies]
  /\ count \in [Students -> 0..MaxCount] /\ faults \in 0..MaxFaults /\ days \in 0..MaxDays
  /\ req \in [Requests -> Submissions]
  /\ passed \in [Students -> Nat] /\ lost \subseteq Pairs

\* The statistics of a question count each student once and under the verdict
\* of the stored row, although two submissions of one student can both have
\* passed the check in memory.
StatsAgree ==
  \A q \in Questions :
    LET t == tally[q]
        With(V) == {s \in Students : t.answers[s] \in V} IN
    /\ t.total = Cardinality(With(Verdicts)) /\ t.correct = Cardinality(With({"right"}))
    /\ (~archived /\ q \in questions) => \A s \in With(Verdicts) : stored[<<s, q>>] = t.answers[s]

\* While the session runs the statistics miss no stored answer, except one
\* whose acknowledgement was lost or that was counted before a restart.
NothingUncounted ==
  \A s \in Students, q \in Questions :
    (stored[<<s, q>>] # None /\ ~archived /\ <<s, q>> \notin lost) =>
      \/ tally[q].answers[s] # None
      \/ \E c \in Requests : req[c].pc = "tally" /\ Row(c) = <<s, q>>

\* The counter lets no student through more often than the limit in a day.
DailyLimit == \A s \in Students : passed[s] <= MaxDaily

\* The first answer in class stands: until the session is archived a row is
\* only removed with its question.
FirstAnswerStands ==
  [][\A p \in Pairs :
       (stored[p] # None /\ ~archived /\ p[2] \in questions') => stored'[p] = stored[p]]_vars

=============================================================================
