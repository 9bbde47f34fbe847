------------------------------ MODULE Presence ------------------------------
(***************************************************************************)
(* The presence trail and its Merkle checkpoints.  A join or leave is a    *)
(* plain INSERT with no lock: its seq is drawn from the bigserial first    *)
(* and the row becomes visible at its commit, so rows may become visible   *)
(* out of order.  The worker reads the last covered seq, reads the rows    *)
(* after it, and writes a checkpoint and its signed audit entry in one     *)
(* transaction (for the audit side of it see AuditChain).                  *)
(*                                                                         *)
(* The root of a list of rows is identified with the rows: leafBytes is    *)
(* injective and includes seq, and the tree hash is collision-free.        *)
(***************************************************************************)
EXTENDS Naturals, FiniteSets

CONSTANTS
    Worker,  \* checkpoint workers, one for each authd process
    Batch,   \* rows one checkpoint covers at most
    MaxEvent   \* bound on the sequence

ASSUME BatchAssumption == Batch \in Nat \ {0}
ASSUME MaxEventAssumption == MaxEvent \in Nat

VARIABLES
    nextEvent, \* the bigserial
    open,    \* seqs drawn by inserts that have not ended
    events,  \* seqs of committed presence_events rows
    points,  \* presence_checkpoints rows, each with its signed root
    wPc, wLast, wRows

presenceVars == <<nextEvent, open, events, points, wPc, wLast, wRows>>
trailVars == <<nextEvent, open, events>>

SeqNo == 1 .. MaxEvent
Checkpoint == [from : SeqNo, to : SeqNo, root : SUBSET SeqNo]

PresenceTypeOK ==
    /\ nextEvent \in 1 .. (MaxEvent + 1)
    /\ open \subseteq SeqNo
    /\ events \subseteq SeqNo
    /\ points \subseteq Checkpoint
    /\ wPc \in [Worker -> {"idle", "read", "write"}]
    /\ wLast \in [Worker -> 0 .. MaxEvent]
    /\ wRows \in [Worker -> SUBSET SeqNo]

PresenceInit ==
    /\ nextEvent = 1
    /\ open = {}
    /\ events = {}
    /\ points = {}
    /\ wPc = [w \in Worker |-> "idle"]
    /\ wLast = [w \in Worker |-> 0]
    /\ wRows = [w \in Worker |-> {}]

-----------------------------------------------------------------------------
(* AppendPresenceEvent                                                     *)

DrawSeq ==
    /\ nextEvent <= MaxEvent
    /\ open' = open \cup {nextEvent}
    /\ nextEvent' = nextEvent + 1
    /\ UNCHANGED <<events, points, wPc, wLast, wRows>>

CommitEvent(s) ==
    /\ s \in open
    /\ open' = open \ {s}
    /\ events' = events \cup {s}
    /\ UNCHANGED <<nextEvent, points, wPc, wLast, wRows>>

\* The insert fails; Join fails closed and the seq is a gap.
RollbackEvent(s) ==
    /\ s \in open
    /\ open' = open \ {s}
    /\ UNCHANGED <<nextEvent, events, points, wPc, wLast, wRows>>

-----------------------------------------------------------------------------
(* Checkpoint                                                              *)

\* SELECT ... WHERE seq > last ORDER BY seq LIMIT batch
PresenceEventsAfter(last) ==
    {s \in events :
        s > last /\ Cardinality({t \in events : t > last /\ t <= s}) <= Batch}

\* Mutant: the resume point is the end of the lowest checkpoint.
LatestPresenceCheckpointSeqFirst(n) ==
    /\ n \in {c.to : c \in points} \cup {0}
    /\ \A c \in points : 0 < n /\ n <= c.to

\* SELECT COALESCE(MAX(to_seq), 0): n is the greatest covered seq, 0 if none.
LatestPresenceCheckpointSeq(n) ==
    /\ n \in {c.to : c \in points} \cup {0}
    /\ \A c \in points : c.to <= n

ReadLatest(w) ==
    /\ wPc[w] = "idle"
    /\ \E n \in 0 .. MaxEvent :
         /\ LatestPresenceCheckpointSeq(n)
         /\ wLast' = [wLast EXCEPT ![w] = n]
    /\ wPc' = [wPc EXCEPT ![w] = "read"]
    /\ UNCHANGED <<trailVars, points, wRows>>

ReadEvents(w) ==
    /\ wPc[w] = "read"
    /\ PresenceEventsAfter(wLast[w]) # {}
    /\ wRows' = [wRows EXCEPT ![w] = PresenceEventsAfter(wLast[w])]
    /\ wPc' = [wPc EXCEPT ![w] = "write"]
    /\ UNCHANGED <<trailVars, points, wLast>>

\* The worker is back at its ticker with nothing in hand.
Rest(w) ==
    /\ wPc' = [wPc EXCEPT ![w] = "idle"]
    /\ wLast' = [wLast EXCEPT ![w] = 0]
    /\ wRows' = [wRows EXCEPT ![w] = {}]

NothingNew(w) ==
    /\ wPc[w] = "read"
    /\ PresenceEventsAfter(wLast[w]) = {}
    /\ Rest(w)
    /\ UNCHANGED <<trailVars, points>>

\* Mutant: the range starts at the resume point, which is already covered.
WritePresenceCheckpointOverlap(w) ==
    /\ wPc[w] = "write"
    /\ \E last \in wRows[w] :
         /\ \A s \in wRows[w] : s <= last
         /\ points' = points \cup
              {[from |-> IF wLast[w] = 0 THEN 1 ELSE wLast[w],
                to |-> last, root |-> wRows[w]]}
    /\ Rest(w)
    /\ UNCHANGED trailVars

\* Checkpoint row and signed audit entry commit together.
WritePresenceCheckpoint(w) ==
    /\ wPc[w] = "write"
    /\ \E first, last \in wRows[w] :
         /\ \A s \in wRows[w] : first <= s /\ s <= last
         /\ points' = points \cup
              {[from |-> first, to |-> last, root |-> wRows[w]]}
    /\ Rest(w)
    /\ UNCHANGED trailVars

\* A read, the signer or the transaction fails, or the process restarts; the
\* next tick begins again.
WorkerFails(w) ==
    /\ wPc[w] # "idle"
    /\ Rest(w)
    /\ UNCHANGED <<trailVars, points>>

-----------------------------------------------------------------------------
Tick(w) ==
    ReadLatest(w) \/ ReadEvents(w) \/ NothingNew(w) \/ WritePresenceCheckpoint(w)

PresenceNext ==
    \/ DrawSeq
    \/ \E s \in SeqNo : CommitEvent(s) \/ RollbackEvent(s)
    \/ \E w \in Worker : Tick(w) \/ WorkerFails(w)

PresenceSpec == PresenceInit /\ [][PresenceNext]_presenceVars

\* An insert ends; the ticker goes on; a write that is tried again and again
\* does not fail for ever.
PresenceFairness ==
    /\ \A s \in SeqNo : WF_presenceVars(CommitEvent(s) \/ RollbackEvent(s))
    /\ \A w \in Worker : WF_presenceVars(Tick(w)) /\ SF_presenceVars(ReadEvents(w))
                            /\ SF_presenceVars(WritePresenceCheckpoint(w))

PresenceFairSpec == PresenceSpec /\ PresenceFairness

-----------------------------------------------------------------------------
(* Properties                                                              *)

\* PresenceEventsInRange
InRange(c) == {s \in events : c.from <= s /\ s <= c.to}

Covers(c, s) == c.from <= s /\ s <= c.to

\* Verify(seq) succeeds: of the checkpoints that cover seq one with the
\* greatest to_seq is taken, and the rows now in its range have its root.
Verify(s) ==
    \E c \in points :
        /\ Covers(c, s)
        /\ \A d \in points : Covers(d, s) => d.to <= c.to
        /\ s \in events
        /\ InRange(c) = c.root

(***************************************************************************)
(* A worker that fails anywhere and starts again never covers a row twice: *)
(* the ranges of its checkpoints are disjoint and grow upwards, and every  *)
(* row under a signed root is in the trail.                                *)
(***************************************************************************)
NeverDoubleCovers ==
    /\ \A c, d \in points : c # d => c.to < d.from \/ d.to < c.from
    /\ \A c \in points : c.root \subseteq InRange(c)

(***************************************************************************)
(* A row that verifies goes on to verify, unless a row of the same range,  *)
(* whose seq was drawn before the checkpoint, is committed after it.       *)
(***************************************************************************)
VerifiedStays ==
    [][\A s \in SeqNo :
          Verify(s) /\ ~Verify(s)' =>
              \E t \in events' \ events, c \in points : Covers(c, t)]_presenceVars

\* No insert is still open below the end of a checkpoint, written or in hand.
NoneOvertaken ==
    \A s \in open :
        /\ \A c \in points : c.to < s
        /\ \A w \in Worker : \A t \in wRows[w] : t < s

(***************************************************************************)
(* Where no insert is overtaken by a checkpoint, every row comes to be     *)
(* covered and to verify, in batches, through any failures of the worker.  *)
(***************************************************************************)
RowsGetVerified ==
    []NoneOvertaken => \A s \in SeqNo : s \in events ~> Verify(s)

(***************************************************************************)
(* What a comment of the code says of the same operation.                  *)
(***************************************************************************)

\* "Checkpoint folds all presence events since the last checkpoint into one
\* signed Merkle root in the audit chain": no committed row is left behind.
AllEventsFolded ==
    \A s \in SeqNo : s \in events ~> \E c \in points : s \in c.root
=============================================================================
