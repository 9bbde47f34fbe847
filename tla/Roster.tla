------------------------------- MODULE Roster -------------------------------
(***************************************************************************)
(* What a session promises about who is in it: a person enters at most     *)
(* once, with a role that stays, leaves at most once, and a capped session *)
(* never seats more people than its cap.  The recording gate and the       *)
(* presence trail are built on this promise; LiveSession implements it.    *)
(***************************************************************************)
EXTENDS Naturals, FiniteSets

CONSTANTS User, Role, NoRole

VARIABLES row, present, cap

Init ==
    /\ row = [u \in User |-> NoRole]
    /\ present = {}
    /\ cap = 0

\* A session that exists has its cap for good.
Open ==
    /\ cap = 0
    /\ cap' \in Nat \ {0}
    /\ UNCHANGED <<row, present>>

Enter(u) ==
    /\ row[u] = NoRole
    /\ Cardinality(present \cup {u}) <= cap
    /\ \E r \in Role : row' = [row EXCEPT ![u] = r]
    /\ present' = present \cup {u}
    /\ UNCHANGED cap

Depart(u) ==
    /\ present' = present \ {u}
    /\ UNCHANGED <<row, cap>>

Next == Open \/ \E u \in User : Enter(u) \/ Depart(u)

Spec == Init /\ [][Next]_<<row, present, cap>>
=============================================================================
