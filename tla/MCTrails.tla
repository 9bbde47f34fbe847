------------------------------ MODULE MCTrails ------------------------------
(* The evidence trails for TLC: the hash-chained logs, the presence trail with *)
(* its checkpoints, and the trees under the checkpoints.  None reads what      *)
(* another writes; they are explored one after the other: part says which.     *)
EXTENDS AuditChain, Presence, Merkle, TLC

VARIABLE part

trailsVars == <<vars, presenceVars, leaves, part>>

InLog(A) == part = "log" /\ A /\ UNCHANGED <<presenceVars, leaves, part>>
InPresence(A) == part = "presence" /\ A /\ UNCHANGED <<vars, leaves, part>>
InTree(A) == part = "tree" /\ A /\ UNCHANGED <<vars, presenceVars, part>>

TrailsInit ==
    /\ Init /\ PresenceInit /\ MerkleInit
    /\ part \in {"log", "presence", "tree"}

TrailsNext == InLog(Next) \/ InPresence(PresenceNext) \/ InTree(MerkleNext)

\* Fairness of AuditChain and PresenceFairness of Presence, each in its part.
TrailsFairness ==
    /\ \A w \in Writer :
         SF_trailsVars(InLog(Advance(w) \/ (Deadlocked(w) /\ Abort(w))))
    /\ \A s \in SeqNo : WF_trailsVars(InPresence(CommitEvent(s) \/ RollbackEvent(s)))
    /\ \A w \in Worker :
         /\ WF_trailsVars(InPresence(Tick(w)))
         /\ SF_trailsVars(InPresence(ReadEvents(w)))
         /\ SF_trailsVars(InPresence(WritePresenceCheckpoint(w)))

TrailsSpec == TrailsInit /\ [][TrailsNext]_trailsVars /\ TrailsFairness
=============================================================================
