---------------------------- MODULE MCLiveSession ----------------------------
(* Instances of LiveSession for TLC. *)
EXTENDS LiveSession, TLC

\* Requests are interchangeable, and so are people who do not own the class.
Interchangeable == Permutations(Handler) \cup Permutations(User \ {ClassOwner})

\* Three people are needed where two are the cap, two where there is none.
SmallClass == kind = "class" => Cardinality({u \in User : row[u] # "none"}) <= 2
=============================================================================
