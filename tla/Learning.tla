------------------------------- MODULE Learning -------------------------------
(***************************************************************************)
(* Progress and completion of one class: what a learner is told of the     *)
(* sessions of a class, while its host opens and ends them and learners    *)
(* come, go, enroll and leave the class.                                   *)
(*                                                                         *)
(* Both lists are one SELECT each, hence operators on the current state.   *)
(* Learners are people other than the host, whose row comes with the       *)
(* session.                                                                *)
(* A join reads the session's status first and inserts its row later.      *)
(***************************************************************************)
EXTENDS Naturals, FiniteSets, FiniteSetsExt

CONSTANTS
    Learner,
    Lesson,      \* bound: sessions the class will ever have
    MaxPending,  \* bound: joins under way at once
    Never        \* no time

ASSUME NeverAssumption == Never \notin Nat
ASSUME PendingAssumption == MaxPending \in Nat
ASSUME LessonAssumption == IsFiniteSet(Lesson)

VARIABLES
    enrolled,    \* class_members
    lesson,      \* status of each session, "none" before it is created
    admitted,    \* joins that have read the status and not yet inserted
    joinedAt,    \* session_participants: joined_at of a row, Never without one
    left,        \* rows with left_at
    joins        \* the clock: joins so far

learnVars == <<enrolled, lesson, admitted, joinedAt, left, joins>>

LearnTypeOK ==
    /\ enrolled \subseteq Learner
    /\ lesson \in [Lesson -> {"none", "scheduled", "live", "ended"}]
    /\ admitted \subseteq Learner \X Lesson
    /\ joinedAt \in [Learner \X Lesson -> 1..joins \cup {Never}]
    /\ left \subseteq {x \in Learner \X Lesson : joinedAt[x] # Never}
    /\ joins \in Nat

LearnInit ==
    /\ enrolled = {}
    /\ lesson = [s \in Lesson |-> "none"]
    /\ admitted = {}
    /\ joinedAt = [x \in Learner \X Lesson |-> Never]
    /\ left = {}
    /\ joins = 0

-----------------------------------------------------------------------------
JoinClass(u) ==
    /\ enrolled' = enrolled \cup {u}
    /\ UNCHANGED <<lesson, admitted, joinedAt, left, joins>>

LeaveClass(u) ==
    /\ enrolled' = enrolled \ {u}
    /\ UNCHANGED <<lesson, admitted, joinedAt, left, joins>>

CreateLesson(s) ==
    /\ lesson[s] = "none"
    /\ lesson' = [lesson EXCEPT ![s] = "scheduled"]
    /\ UNCHANGED <<enrolled, admitted, joinedAt, left, joins>>

\* The UPDATEs of StartSession and EndSession look at no status.
StartLesson(s) ==
    /\ lesson[s] # "none"
    /\ lesson' = [lesson EXCEPT ![s] = "live"]
    /\ UNCHANGED <<enrolled, admitted, joinedAt, left, joins>>

EndLesson(s) ==
    /\ lesson[s] # "none"
    /\ lesson' = [lesson EXCEPT ![s] = "ended"]
    /\ UNCHANGED <<enrolled, admitted, joinedAt, left, joins>>

\* Service.Join up to the roster: the session has not ended.
Admit(u, s) ==
    /\ lesson[s] \in {"scheduled", "live"}
    /\ admitted' = admitted \cup {<<u, s>>}
    /\ Cardinality(admitted') <= MaxPending
    /\ UNCHANGED <<enrolled, lesson, joinedAt, left, joins>>

\* AddParticipant: the row of a first join; a second one meets the primary key.
AddRow(u, s) ==
    /\ <<u, s>> \in admitted
    /\ admitted' = admitted \ {<<u, s>>}
    /\ \/ /\ joinedAt[<<u, s>>] = Never
          /\ joins' = joins + 1
          /\ joinedAt' = [joinedAt EXCEPT ![<<u, s>>] = joins']
       \/ joinedAt[<<u, s>>] # Never /\ UNCHANGED <<joins, joinedAt>>
    /\ UNCHANGED <<enrolled, lesson, left>>

\* Leave stamps left_at and keeps the row.
LeaveLesson(u, s) ==
    /\ joinedAt[<<u, s>>] # Never
    /\ left' = left \cup {<<u, s>>}
    /\ UNCHANGED <<enrolled, lesson, admitted, joinedAt, joins>>

LearnNext ==
    \/ \E s \in Lesson : CreateLesson(s) \/ StartLesson(s) \/ EndLesson(s)
    \/ \E u \in Learner :
         \/ JoinClass(u) \/ LeaveClass(u)
         \/ \E s \in Lesson : Admit(u, s) \/ AddRow(u, s) \/ LeaveLesson(u, s)

LearnSpec == LearnInit /\ [][LearnNext]_learnVars

-----------------------------------------------------------------------------
(* What the learner is told                                                *)

Given == {s \in Lesson : lesson[s] # "none"}
Ended == {s \in Lesson : lesson[s] = "ended"}

\* Mutant: only those still in the room count.
AttendedPresent(u) ==
    {s \in Given : joinedAt[<<u, s>>] # Never /\ <<u, s>> \notin left}

Attended(u) == {s \in Given : joinedAt[<<u, s>>] # Never}

\* ListClassProgress: attended and total of an enrolled class.
Progress(u) == [attended |-> Cardinality(Attended(u)), total |-> Cardinality(Given)]

\* ListClassCompletions compares three counts of an enrolled class ...
Complete(u) ==
    /\ u \in enrolled
    /\ Cardinality(Given) > 0
    /\ Cardinality(Ended) = Cardinality(Given)
    /\ Cardinality(Attended(u) \cap Ended) = Cardinality(Ended)

\* ... and dates a completion by the learner's last join.
CompletedAt(u) == Max({joinedAt[<<u, s>>] : s \in Attended(u) \cap Ended})

-----------------------------------------------------------------------------
(* Properties                                                              *)

\* The counts say what the comment on ListClassCompletions says: there are sessions,
\* all have ended and the learner was in every one; and then the progress is full.
CompleteMeansAll(u) ==
    /\ Complete(u) <=>
          u \in enrolled /\ Given # {}
          /\ \A s \in Given : lesson[s] = "ended" /\ joinedAt[<<u, s>>] # Never
    /\ Complete(u) => Progress(u).attended = Progress(u).total

\* A certificate is lost again in three ways only: the class gets another session, an
\* ended session is started again, or the learner leaves the class.  Leaving a
\* session, a late row of another join or a second end takes nothing away.
CompletionIsKept(u) ==
    Complete(u) /\ ~Complete(u)' =>
        \/ \E s \in Lesson : CreateLesson(s)
        \/ \E s \in Lesson : lesson[s] = "ended" /\ StartLesson(s)
        \/ LeaveClass(u)

\* The date on a certificate does not move while the certificate stands, whatever
\* joins are still under way (ListClassCompletions, AddParticipant).
DateStands(u) == Complete(u) /\ Complete(u)' => CompletedAt(u)' = CompletedAt(u)

\* A certificate means what it says and stands: full attendance, lost in three ways only,
\* with a date that does not move (ListClassCompletions).
CompletionStands ==
    [][\A u \in Learner :
          CompleteMeansAll(u)' /\ CompletionIsKept(u) /\ DateStands(u)]_learnVars
=============================================================================
