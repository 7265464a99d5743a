-------------------------------- MODULE Poll --------------------------------
(***************************************************************************)
(* The poll of one session: activePolls, its timer, and the answers of the *)
(* students.  Every handler runs without a wait, so it is one action; what *)
(* overlaps is the timer, answers that arrive late or twice, and the end   *)
(* of the session.                                                         *)
(***************************************************************************)
EXTENDS Naturals, FiniteSets

CONSTANTS
  Students,  \* users with the student role
  Options,   \* option ids
  MaxPolls,  \* bound: polls started
  MaxSent    \* bound: answers on their way at a time

ASSUME PollAssumption ==
  /\ MaxPolls \in Nat /\ MaxSent \in Nat
  /\ IsFiniteSet(Students) /\ "none" \notin Options

VARIABLES
  poll,      \* activePolls: [on, id, timed, answers, counts]
  timers,    \* polls whose setTimeout has neither fired nor been cleared
  started,   \* polls started so far; the next pollId
  sent,      \* poll:answer events on their way: [user, id, option]
  archived,  \* the session was ended
  choices,   \* history: every answer the students have sent
  ends       \* history: what ended each poll, once for each poll:end

vars == <<poll, timers, started, sent, archived, choices, ends>>

Unanswered == "none"
NoAnswers == [u \in Students |-> Unanswered]
NoCounts  == [o \in Options |-> 0]
NoPoll    == [on |-> FALSE, id |-> 0, timed |-> FALSE, answers |-> NoAnswers, counts |-> NoCounts]

Init ==
  /\ poll = NoPoll /\ timers = {} /\ started = 0 /\ sent = {} /\ archived = FALSE
  /\ choices = {} /\ ends = {}

-----------------------------------------------------------------------------
(* poll:start is not refused when the session has ended. *)
PollStart(timed) ==
  /\ ~poll.on /\ started < MaxPolls
  /\ started' = started + 1
  /\ poll' = [NoPoll EXCEPT !.on = TRUE, !.id = started', !.timed = timed]
  /\ timers' = IF timed THEN timers \cup {started'} ELSE timers
  /\ UNCHANGED <<sent, archived, choices, ends>>

\* A student who sees poll i sends an answer, perhaps more than one.
Send(u, i, o) ==
  /\ i \in 1..started /\ Cardinality(sent) < MaxSent
  /\ sent' = sent \cup {[user |-> u, id |-> i, option |-> o]}
  /\ choices' = choices \cup {[user |-> u, id |-> i, option |-> o]}
  /\ UNCHANGED <<poll, timers, started, archived, ends>>

\* Mutant: an answer to any poll is taken for an answer to this one.
AcceptsAnyPoll(m) == poll.on /\ poll.answers[m.user] = Unanswered

\* Mutant: the user's earlier answer is not looked for.
AcceptsAgain(m) == poll.on /\ poll.id = m.id

\* The poll is the one that runs, and the user has not answered it.
Accepts(m) == poll.on /\ poll.id = m.id /\ poll.answers[m.user] = Unanswered

\* poll:answer
Answer(m) ==
  /\ m \in sent
  /\ sent' = sent \ {m}
  /\ poll' = IF Accepts(m)
               THEN [poll EXCEPT !.answers[m.user] = m.option, !.counts[m.option] = @ + 1]
               ELSE poll
  /\ UNCHANGED <<timers, started, archived, choices, ends>>

\* Mutant: the timer of a poll that ends early is left running.
EndPollKeepingTimer(by) ==
  /\ poll' = NoPoll
  /\ ends' = ends \cup {[id |-> poll.id, by |-> by, counts |-> poll.counts]}
  /\ timers' = timers \ {by}

\* Mutant: a poll nobody has answered goes on.
EndPollIfAnswered(by) ==
  IF poll.answers = NoAnswers
    THEN timers' = timers \ {by} /\ UNCHANGED <<poll, ends>>
    ELSE /\ poll' = NoPoll
         /\ timers' = timers \ {by, poll.id}
         /\ ends' = ends \cup {[id |-> poll.id, by |-> by, counts |-> poll.counts]}

\* endPoll, called by a teacher, the end of the session ("by" is 0) or a timer
\* ("by" is the poll it was set for): clear the timer, forget the poll, tell
\* the rooms the final counts.
EndPoll(by) ==
  /\ poll' = NoPoll
  /\ timers' = timers \ {by, poll.id}
  /\ ends' = ends \cup {[id |-> poll.id, by |-> by, counts |-> poll.counts]}

\* poll:end names the poll; one that names another changes nothing.
PollEnd ==
  /\ poll.on
  /\ EndPoll(0)
  /\ UNCHANGED <<started, sent, archived, choices>>

\* The callback ends whatever poll the session has.
TimerFires(i) ==
  /\ i \in timers
  /\ IF poll.on THEN EndPoll(i) ELSE timers' = timers \ {i} /\ UNCHANGED <<poll, ends>>
  /\ UNCHANGED <<started, sent, archived, choices>>

\* Mutant: endPoll runs without a poll.
SessionEndsBlindly ==
  /\ ~archived
  /\ archived' = TRUE
  /\ EndPoll(0)
  /\ UNCHANGED <<started, sent, choices>>

\* The end of the session ends its poll, too.
SessionEnds ==
  /\ ~archived
  /\ archived' = TRUE
  /\ IF poll.on THEN EndPoll(0) ELSE UNCHANGED <<poll, timers, ends>>
  /\ UNCHANGED <<started, sent, choices>>

Next ==
  \/ \E timed \in BOOLEAN : PollStart(timed)
  \/ \E u \in Students, i \in 1..MaxPolls, o \in Options : Send(u, i, o) \/ Answer([user |-> u, id |-> i, option |-> o])
  \/ \E i \in 1..MaxPolls : TimerFires(i)
  \/ PollEnd \/ SessionEnds

Spec == Init /\ [][Next]_vars

\* A timer that is due fires.
FairSpec == Spec /\ \A i \in 1..MaxPolls : WF_vars(TimerFires(i))

-----------------------------------------------------------------------------
(* Properties *)

Answers == [user : Students, id : 1..MaxPolls, option : Options]
Counts  == [Options -> Nat]

TypeOK ==
  /\ poll \in [on : BOOLEAN, id : 0..MaxPolls, timed : BOOLEAN,
              answers : [Students -> Options \cup {Unanswered}], counts : Counts]
  /\ timers \subseteq 1..MaxPolls /\ started \in 0..MaxPolls /\ archived \in BOOLEAN
  /\ sent \subseteq Answers /\ choices \subseteq Answers
  /\ ends \subseteq [id : 1..MaxPolls, by : 0..MaxPolls, counts : Counts]

\* The counts are those of the answers, one for each student: two answers of a
\* student, on two sockets or by two clicks, count once.
CountsAgree ==
  \A o \in Options : poll.counts[o] = Cardinality({u \in Students : poll.answers[u] = o})

\* What is counted was sent for this poll: a late answer to the poll before,
\* whose options may have the same ids, is not.
CountsThisPoll ==
  \A u \in Students :
    poll.answers[u] # Unanswered
      => [user |-> u, id |-> poll.id, option |-> poll.answers[u]] \in choices

\* No poll is cut short by the timer of an earlier one, and every poll is
\* announced as ended once, with one result.
OwnTimer == \A e \in ends : e.by \in {0, e.id}
EndsOnce == \A e1, e2 \in ends : e1.id = e2.id => e1 = e2
TimersAreExact == OwnTimer /\ EndsOnce

\* A poll with a duration ends, whatever teachers and students do.
TimedPollEnds == \A i \in 1..MaxPolls : (poll.on /\ poll.id = i /\ poll.timed) ~> poll.id # i
=============================================================================
