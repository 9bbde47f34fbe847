---------------------------- MODULE MCRecording ----------------------------
(* Instances of Recording for TLC. *)
EXTENDS Recording, TLC

\* Recordings, requests and couriers are interchangeable; people are not (one is host).
Interchangeable == Permutations(Rec) \cup Permutations(Handler)
=============================================================================
