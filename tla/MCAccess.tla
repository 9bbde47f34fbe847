------------------------------- MODULE MCAccess -------------------------------
(* Instances of Access for TLC.  Enrollment reads nothing that playback writes,  *)
(* nor the other way round; what they share are the entitlements.  Each is       *)
(* explored with the entitlements and without the other, and what a learner is   *)
(* told of a class on its own: part says which.                                  *)
EXTENDS Access, Learning, TLC

VARIABLE part

MCInit ==
    /\ Init /\ LearnInit
    /\ part \in {"enroll", "play", "learn"}
    /\ part = "learn" => ~paid

MCNext ==
    \/ /\ \/ part # "learn" /\ EntitlementNext
          \/ part = "enroll" /\ EnrollNext
          \/ part = "play" /\ PlayNext
          \/ \E h \in Handler : Fail(h)
       /\ UNCHANGED <<learnVars, part>>
    \/ part = "learn" /\ LearnNext /\ UNCHANGED <<vars, part>>

MCSpec == MCInit /\ [][MCNext]_<<vars, learnVars, part>>

\* Three people are needed to overrun the cap of a class, two to tell views apart.
TwoViewers ==
    part = "play" =>
        Cardinality({u \in User : trail[u] # <<>> \/ u \in tokens \cup seen \cup recorded \cup failed}) <= 2

\* Every part keeps the types of its state, the columns with a CHECK included.
TypesOK == TypeOK /\ LearnTypeOK

\* Requests are interchangeable, and so are people.
Interchangeable == Permutations(Handler) \cup Permutations(User)
=============================================================================
