------------------------------- MODULE MCLogin -------------------------------
(* Instances of Login for TLC. *)
EXTENDS Login, TLC

\* At most two sessions given out, of the same or of different accounts.
TwoSessions == Cardinality(issued) + Cardinality(grants) <= 2 /\ \A d \in ChId, e \in ChId : d # e => uses[d] + uses[e] <= 2

\* Requests are interchangeable, and so are account ids.
Interchangeable == Permutations(Handler) \cup Permutations(User)
=============================================================================
