---------------------------- MODULE Trails_proofs ----------------------------
(***************************************************************************)
(* Proofs about the two trails and the trees over them: the audit chain,   *)
(* for any number of writers, targets and entries; the presence trail with *)
(* its checkpoints, for any batch size and order of commits; the Merkle    *)
(* trees, for lists of any length.                                         *)
(***************************************************************************)
EXTENDS AuditChain, Presence, Merkle, WellFoundedInduction, SequenceTheorems, TLAPS

-----------------------------------------------------------------------------
(* The audit chain.  IInv is inductive: the advisory lock makes the writer *)
(* between its tail read and its commit the only one, so what it read is   *)
(* still the tail and the seq it drew is above every committed one when    *)
(* its row appears.                                                        *)

\* The invariant holds of the empty log.
LEMMA InitIInv == Init => IInv
  BY EntryAssumption
  DEF Init, IInv, TypeOK, Step, Row, WritersInv, Holding, LogInv,
      SeqIsCommitOrder

\* What a commit does to a log: one more row, the others where they were.
LEMMA AppendRow ==
    ASSUME NEW s \in Seq(Row), NEW r \in Row
    PROVE  /\ Append(s, r) \in Seq(Row)
           /\ Len(Append(s, r)) = Len(s) + 1
           /\ DOMAIN Append(s, r) = 1 .. (Len(s) + 1)
           /\ DOMAIN s = 1 .. Len(s)
           /\ Append(s, r)[Len(s) + 1] = r
           /\ \A i \in 1 .. Len(s) : Append(s, r)[i] = s[i]
  OBVIOUS

\* A committed row has a number.
LEMMA RowSeq ==
    ASSUME NEW s \in Seq(Row), NEW i \in DOMAIN s
    PROVE  s[i] \in Row /\ s[i].seq \in Nat
  <1>1. s[i] \in Row
    OBVIOUS
  <1> QED
    BY <1>1 DEF Row

\* Every step, one case per action, keeps the invariant.
LEMMA NextIInv == IInv /\ [Next]_vars => IInv'
  <1> SUFFICES ASSUME IInv, [Next]_vars PROVE IInv'
    OBVIOUS
  <1> USE WriterAssumption, EntryAssumption, MaxSeqAssumption
      DEF IInv, TypeOK, Step, WritersInv, Holding, LogInv, SeqIsCommitOrder,
          Goto, EndTx, localVars
  <1>1. ASSUME NEW w \in Writer, NEW e \in Entry, NEW T \in SUBSET Target,
               Begin(w, e, T)
        PROVE IInv'
    BY <1>1 DEF Begin
  <1>2. ASSUME NEW w \in Writer, NEW t \in Target, Mutate(w, t) PROVE IInv'
    BY <1>2 DEF Mutate
  <1>9. ASSUME NEW w \in Writer, Mutated(w) PROVE IInv'
    BY <1>9 DEF Mutated
  <1>3. ASSUME NEW w \in Writer, TakeLock(w) PROVE IInv'
    BY <1>3 DEF TakeLock
  <1>4. ASSUME NEW w \in Writer, ReadTail(w) PROVE IInv'
    <2>1. PICK e \in Entry \cup {Genesis} :
            IsTail(e) /\ hPrev' = [hPrev EXCEPT ![w] = e]
      BY <1>4 DEF ReadTail
    <2>2. e = Ledger!TailOf(log)
      <3>1. CASE log = <<>>
        BY <2>1, <3>1 DEF IsTail, Ledger!TailOf
      <3>2. CASE log # <<>>
        <4>1. DOMAIN log = 1 .. Len(log) /\ Len(log) \in Nat \ {0}
          BY <3>2
        <4>2. PICK i \in DOMAIN log :
                log[i].hash = e /\ \A j \in DOMAIN log : log[j].seq <= log[i].seq
          BY <2>1, <3>2 DEF IsTail
        <4>3. \A j \in DOMAIN log : log[j].seq \in Nat
          BY RowSeq
        <4>4. Len(log) \in DOMAIN log /\ i \in Nat /\ i <= Len(log)
          BY <4>1
        <4>5. ~(log[i].seq < log[Len(log)].seq)
          BY <4>2, <4>3, <4>4
        <4>6. i = Len(log)
          BY <4>4, <4>5
        <4> QED
          BY <3>2, <4>2, <4>6 DEF Ledger!TailOf
      <3> QED
        BY <3>1, <3>2
    <2> QED
      BY <1>4, <2>1, <2>2 DEF ReadTail
  <1>5. ASSUME NEW w \in Writer, Insert(w) PROVE IInv'
    <2>1. \A i \in DOMAIN log : log[i].seq \in Nat
      BY RowSeq
    <2>2. TypeOK'
      BY <1>5 DEF Insert
    <2>3. nextSeq < nextSeq' /\ nextSeq \in Nat /\ log' = log
      BY <1>5 DEF Insert
    <2>4. LogInv'
      <3>1. \A i \in DOMAIN log : log[i].seq < nextSeq'
        BY <2>1, <2>3, <2>2
      <3> QED
        BY <2>3, <3>1
    <2>5. WritersInv'
      BY <1>5, <2>1, <2>3 DEF Insert
    <2> QED
      BY <2>2, <2>4, <2>5
  <1>6. ASSUME NEW w \in Writer, Commit(w) PROVE IInv'
    <2> DEFINE r == [hash |-> hEntry[w], prev |-> hPrev[w], seq |-> hSeq[w]]
    <2>1. r \in Row /\ log' = Append(log, r)
      BY <1>6 DEF Commit, Row
    <2>2. TypeOK'
      BY <1>6, <2>1, AppendRow DEF Commit
    <2>3. \A v \in Writer : v # w => ~Holding(v)
      BY <1>6 DEF Commit
    <2>4. WritersInv'
      BY <1>6, <2>3 DEF Commit
    <2>5. LogInv'
      <3>1. Len(log) \in Nat
        OBVIOUS
      <3>2. \A i \in 1 .. Len(log) : log'[i] = log[i] /\ i \in DOMAIN log
        BY <2>1, AppendRow
      <3>3. DOMAIN log' = 1 .. (Len(log) + 1) /\ log'[Len(log) + 1] = r
        BY <2>1, AppendRow
      <3>4. r.prev = IF Len(log) = 0 THEN Genesis ELSE log[Len(log)].hash
        BY <1>6 DEF Commit, Ledger!TailOf
      <3>5. nextSeq' = nextSeq /\ r.seq < nextSeq
              /\ \A i \in DOMAIN log : log[i].seq < r.seq
        BY <1>6 DEF Commit
      <3>6. ASSUME NEW i \in DOMAIN log'
            PROVE /\ log'[i].seq < nextSeq'
                  /\ log'[i].prev = IF i = 1 THEN Genesis ELSE log'[i - 1].hash
        <4>1. CASE i = Len(log) + 1
          BY <3>1, <3>2, <3>3, <3>4, <3>5, <4>1
        <4>2. CASE i # Len(log) + 1
          <5>1. i \in 1 .. Len(log) /\ (i = 1 \/ i - 1 \in 1 .. Len(log))
            BY <3>1, <3>3, <3>6, <4>2
          <5> QED
            BY <3>2, <3>5, <5>1
        <4> QED
          BY <4>1, <4>2
      <3>7. SeqIsCommitOrder'
        <4> SUFFICES ASSUME NEW i \in DOMAIN log', NEW j \in DOMAIN log', i < j
                     PROVE  log'[i].seq < log'[j].seq
          OBVIOUS
        <4>1. i \in 1 .. Len(log)
          BY <3>1, <3>3
        <4>2. CASE j = Len(log) + 1
          BY <3>2, <3>3, <3>5, <4>1, <4>2
        <4>3. CASE j # Len(log) + 1
          <5>1. j \in 1 .. Len(log)
            BY <3>1, <3>3, <4>3
          <5> QED
            BY <3>2, <4>1, <5>1
        <4> QED
          BY <4>2, <4>3
      <3> QED
        BY <3>6, <3>7
    <2> QED
      BY <2>2, <2>4, <2>5
  <1>7. ASSUME NEW w \in Writer, Abort(w) PROVE IInv'
    BY <1>7 DEF Abort
  <1>8. CASE UNCHANGED vars
    BY <1>8 DEF vars
  <1> QED
    BY <1>1, <1>2, <1>3, <1>4, <1>5, <1>6, <1>7, <1>8, <1>9 DEF Next, Advance

\* The inductive invariant is an invariant of every behaviour.
THEOREM Invariance == Spec => []IInv
  BY InitIInv, NextIInv, PTL DEF Spec

\* appendAuditTx under its lock hands out seq in the order of commits.
THEOREM CommitOrder == Spec => []SeqIsCommitOrder
  <1>1. IInv => SeqIsCommitOrder
    BY DEF IInv, LogInv
  <1> QED
    BY Invariance, <1>1, PTL

\* VerifyChain accepts the audit log (and the consent ledger) in every
\* reachable state: concurrency and failures alone never look like tampering.
THEOREM ChainIsIntact == Spec => []ChainVerifies
  <1>1. ASSUME IInv PROVE ChainVerifies
    <2>1. \A i \in DOMAIN log : log[i].seq \in Nat
      BY <1>1, RowSeq DEF IInv, TypeOK
    <2>2. Len(log) \in Nat /\ DOMAIN log = 1 .. Len(log)
      BY <1>1 DEF IInv, TypeOK
    <2>3. ASSUME NEW i \in DOMAIN log, i = 1
          PROVE log[i].prev = Genesis /\ \A j \in DOMAIN log : log[j].seq >= log[i].seq
      <3>1. \A j \in DOMAIN log : j = i \/ i < j
        BY <2>2, <2>3
      <3>2. \A j \in DOMAIN log : i < j => log[i].seq < log[j].seq
        BY <1>1 DEF IInv, LogInv, SeqIsCommitOrder
      <3> QED
        BY <1>1, <2>1, <2>3, <3>1, <3>2 DEF IInv, LogInv
    <2>4. ASSUME NEW i \in DOMAIN log, i # 1
          PROVE /\ i - 1 \in DOMAIN log
                /\ log[i - 1].hash = log[i].prev
                /\ log[i - 1].seq < log[i].seq
                /\ \A j \in DOMAIN log :
                     log[j].seq <= log[i - 1].seq \/ log[j].seq >= log[i].seq
      <3>1. i - 1 \in DOMAIN log /\ i - 1 < i
        BY <2>2, <2>4
      <3>2. \A j, k \in DOMAIN log : j < k => log[j].seq < log[k].seq
        BY <1>1 DEF IInv, LogInv, SeqIsCommitOrder
      <3>3. \A j \in DOMAIN log : j < i - 1 \/ j = i - 1 \/ j = i \/ i < j
        BY <2>2, <2>4
      <3>4. log[i - 1].hash = log[i].prev
        BY <1>1, <2>4 DEF IInv, LogInv
      <3>5. log[i - 1].seq < log[i].seq
        BY <3>1, <3>2
      <3>6. ASSUME NEW j \in DOMAIN log
            PROVE log[j].seq <= log[i - 1].seq \/ log[j].seq >= log[i].seq
        BY <2>1, <3>1, <3>2, <3>3, <3>6
      <3> QED
        BY <3>1, <3>4, <3>5, <3>6
    <2> QED
      BY <2>3, <2>4 DEF ChainVerifies
  <1> QED
    BY Invariance, <1>1, PTL

\* Refinement: an audited transaction is an append to an append-only log.
THEOREM Refinement == Spec => ImplementsLedger
  <1>1. Init => Ledger!Init
    BY DEF Init, Ledger!Init, entries
  <1>2. IInv /\ [Next]_vars => [Ledger!Next]_entries
    <2> SUFFICES ASSUME IInv, [Next]_vars PROVE [Ledger!Next]_entries
      OBVIOUS
    <2>1. ASSUME NEW w \in Writer, Commit(w) PROVE Ledger!Next
      <3> DEFINE r == [hash |-> hEntry[w], prev |-> hPrev[w], seq |-> hSeq[w]]
                 a == [hash |-> hEntry[w], prev |-> hPrev[w]]
      <3>1. hEntry[w] \in Entry /\ hPrev[w] = Ledger!TailOf(log)
        BY <2>1 DEF Commit, IInv, WritersInv
      <3>2. log \in Seq(Row) /\ r \in Row /\ log' = Append(log, r)
        BY <2>1, <3>1 DEF Commit, IInv, TypeOK, Row
      <3>3. Len(log) \in Nat /\ DOMAIN log = 1 .. Len(log)
        BY <3>2
      <3>4. entries = [i \in 1 .. Len(log) |->
                         [hash |-> log[i].hash, prev |-> log[i].prev]]
        BY <3>3 DEF entries
      <3>5. Len(entries) = Len(log) /\ entries \in Seq([hash : Entry, prev : Entry \cup {Genesis}])
        <4>1. \A i \in 1 .. Len(log) : log[i] \in Row
          BY <3>2, <3>3, RowSeq
        <4> QED
          BY <3>3, <3>4, <4>1 DEF Row
      <3>6. Ledger!TailOf(entries) = Ledger!TailOf(log)
        BY <3>2, <3>3, <3>4, <3>5 DEF Ledger!TailOf
      <3>7. entries' = Append(entries, a)
        <4>1. DOMAIN log' = 1 .. (Len(log) + 1) /\ log'[Len(log) + 1] = r
                /\ \A i \in 1 .. Len(log) : log'[i] = log[i]
          BY <3>2, AppendRow
        <4>2. entries' = [i \in 1 .. (Len(log) + 1) |->
                            [hash |-> log'[i].hash, prev |-> log'[i].prev]]
          BY <4>1 DEF entries
        <4>3. Append(entries, a) = [i \in 1 .. (Len(log) + 1) |->
                                      IF i = Len(log) + 1 THEN a ELSE entries[i]]
          BY <3>3, <3>5
        <4>4. \A i \in 1 .. (Len(log) + 1) :
                [hash |-> log'[i].hash, prev |-> log'[i].prev]
                  = IF i = Len(log) + 1 THEN a ELSE entries[i]
          BY <3>3, <3>4, <4>1
        <4> QED
          BY <4>2, <4>3, <4>4
      <3> QED
        BY <3>1, <3>6, <3>7 DEF Ledger!Next, Ledger!AppendEntry
    <2>2. ASSUME log' = log PROVE entries' = entries
      BY <2>2 DEF entries
    <2>3. [Next]_vars => log' = log \/ \E w \in Writer : Commit(w)
      BY DEF Next, Advance, Begin, Mutate, Mutated, TakeLock, ReadTail, Insert, Abort, vars
    <2> QED
      BY <2>1, <2>2, <2>3
  <1> QED
    BY <1>1, <1>2, Invariance, PTL DEF Spec, ImplementsLedger, Ledger!Spec

-----------------------------------------------------------------------------
(* The presence trail.  One checkpoint worker never covers a row twice,    *)
(* whatever its failures and the order in which the inserts commit.        *)

\* A single authd process runs the worker.  Nothing in the schema enforces it.
OneWorker == \A v, w \in Worker : v = w

\* What a worker holds between its reads and its write is still current.
InHand ==
    \A w \in Worker :
        /\ wPc[w] # "idle" => \A c \in points : c.to <= wLast[w]
        /\ wPc[w] = "write" =>
             /\ wRows[w] \subseteq events
             /\ \A s \in wRows[w] : wLast[w] < s

PresenceInv == PresenceTypeOK /\ NeverDoubleCovers /\ InHand

LEMMA PresenceInitInv == PresenceInit => PresenceInv
BY MaxEventAssumption DEF PresenceInit, PresenceInv, PresenceTypeOK, NeverDoubleCovers, InHand, SeqNo

\* Inserts only add rows, so what is signed stays in the trail.
LEMMA TrailGrows ==
    ASSUME PresenceInv, events \subseteq events', events' \subseteq SeqNo,
           open' \subseteq SeqNo, nextEvent' \in 1 .. (MaxEvent + 1),
           UNCHANGED <<points, wPc, wLast, wRows>>
    PROVE  PresenceInv'
<1>1. PresenceTypeOK'
  BY DEF PresenceInv, PresenceTypeOK
<1>2. NeverDoubleCovers'
  BY DEF PresenceInv, PresenceTypeOK, NeverDoubleCovers, InRange
<1>3. InHand'
  BY DEF PresenceInv, PresenceTypeOK, InHand
<1> QED BY <1>1, <1>2, <1>3 DEF PresenceInv

\* The worker back at its ticker, with the checkpoints unchanged.
LEMMA WorkerRests ==
    ASSUME PresenceInv, NEW w \in Worker, Rest(w), UNCHANGED <<trailVars, points>>
    PROVE  PresenceInv'
<1>1. PresenceTypeOK'
  BY MaxEventAssumption DEF PresenceInv, PresenceTypeOK, Rest, trailVars
<1>2. NeverDoubleCovers'
  BY DEF PresenceInv, NeverDoubleCovers, InRange, trailVars
<1>3. InHand'
  BY DEF PresenceInv, PresenceTypeOK, InHand, Rest, trailVars
<1> QED BY <1>1, <1>2, <1>3 DEF PresenceInv

\* The step that could cover a row twice: its range begins above everything
\* that was covered when the worker read, and nobody else has written since.
LEMMA WorkerWrites ==
    ASSUME OneWorker, PresenceInv, NEW w \in Worker, WritePresenceCheckpoint(w)
    PROVE  PresenceInv'
<1> USE DEF PresenceInv
<1>1. PICK first \in wRows[w], last \in wRows[w] :
        /\ \A s \in wRows[w] : first <= s /\ s <= last
        /\ points' = points \cup
             {[from |-> first, to |-> last, root |-> wRows[w]]}
  BY DEF WritePresenceCheckpoint
<1> DEFINE new == [from |-> first, to |-> last, root |-> wRows[w]]
<1>2. /\ wPc[w] = "write"
      /\ Rest(w)
      /\ UNCHANGED trailVars
  BY DEF WritePresenceCheckpoint
<1>3. wRows[w] \subseteq SeqNo /\ wRows[w] \subseteq events
  BY <1>2 DEF PresenceTypeOK, InHand
<1>4. new \in Checkpoint
  BY <1>3 DEF Checkpoint
<1>5. PresenceTypeOK'
  BY <1>1, <1>2, <1>4, MaxEventAssumption DEF PresenceTypeOK, Rest, trailVars
<1>6. \A c \in points : c.to < new.from
  <2> SUFFICES ASSUME NEW c \in points PROVE c.to < first
    OBVIOUS
  <2>1. c.to <= wLast[w] /\ wLast[w] < first
    BY <1>2 DEF InHand
  <2>2. c.to \in Nat /\ wLast[w] \in Nat /\ first \in Nat
    BY <1>3, MaxEventAssumption DEF PresenceTypeOK, Checkpoint, SeqNo
  <2> QED BY <2>1, <2>2
<1>7. \A c, d \in points' : c # d => c.to < d.from \/ d.to < c.from
  BY <1>1, <1>6 DEF NeverDoubleCovers
<1>8. \A c \in points' : c.root \subseteq InRange(c)'
  <2>1. events' = events
    BY <1>2 DEF trailVars
  <2>2. new.root \subseteq InRange(new)'
    BY <1>1, <1>3, <2>1 DEF InRange
  <2>3. \A c \in points : c.root \subseteq InRange(c)'
    BY <2>1 DEF NeverDoubleCovers, InRange
  <2> QED BY <1>1, <2>1, <2>2, <2>3 DEF InRange
<1>9. InHand'
  BY <1>2 DEF PresenceTypeOK, InHand, Rest, OneWorker
<1> QED BY <1>5, <1>7, <1>8, <1>9 DEF NeverDoubleCovers

LEMMA PresenceNextInv == OneWorker /\ PresenceInv /\ [PresenceNext]_presenceVars => PresenceInv'
<1> SUFFICES ASSUME OneWorker, PresenceInv, [PresenceNext]_presenceVars PROVE PresenceInv'
  OBVIOUS
<1> USE DEF PresenceInv
<1>1. CASE DrawSeq
  BY <1>1, TrailGrows, MaxEventAssumption DEF DrawSeq, PresenceTypeOK, SeqNo
<1>2. ASSUME NEW s \in SeqNo, CommitEvent(s) PROVE PresenceInv'
  BY <1>2, TrailGrows DEF CommitEvent, PresenceTypeOK
<1>3. ASSUME NEW s \in SeqNo, RollbackEvent(s) PROVE PresenceInv'
  BY <1>3, TrailGrows DEF RollbackEvent, PresenceTypeOK
<1>4. ASSUME NEW w \in Worker, ReadLatest(w) PROVE PresenceInv'
  <2>1. PICK n \in 0 .. MaxEvent :
          /\ LatestPresenceCheckpointSeq(n)
          /\ wLast' = [wLast EXCEPT ![w] = n]
    BY <1>4 DEF ReadLatest
  <2>2. PresenceTypeOK'
    BY <1>4, <2>1 DEF PresenceTypeOK, ReadLatest, trailVars
  <2>3. NeverDoubleCovers'
    BY <1>4 DEF ReadLatest, NeverDoubleCovers, InRange, trailVars
  <2>4. InHand'
    BY <1>4, <2>1 DEF PresenceTypeOK, InHand, ReadLatest, LatestPresenceCheckpointSeq,
                      trailVars, OneWorker
  <2> QED BY <2>2, <2>3, <2>4
<1>5. ASSUME NEW w \in Worker, ReadEvents(w) PROVE PresenceInv'
  <2> DEFINE rows == PresenceEventsAfter(wLast[w])
  <2>1. rows \subseteq events /\ \A s \in rows : wLast[w] < s
    <3>1. wLast[w] \in Nat /\ \A s \in events : s \in Nat
      BY MaxEventAssumption DEF PresenceTypeOK, SeqNo
    <3> QED BY <3>1 DEF PresenceEventsAfter
  <2> HIDE DEF rows
  <2>2. /\ wPc[w] = "read"
        /\ wRows' = [wRows EXCEPT ![w] = rows]
        /\ wPc' = [wPc EXCEPT ![w] = "write"]
        /\ UNCHANGED <<trailVars, points, wLast>>
    BY <1>5 DEF ReadEvents, rows
  <2>3. PresenceTypeOK'
    BY <2>1, <2>2 DEF PresenceTypeOK, trailVars
  <2>4. NeverDoubleCovers'
    BY <2>2 DEF NeverDoubleCovers, InRange, trailVars
  <2>5. InHand'
    BY <2>1, <2>2 DEF PresenceTypeOK, InHand, trailVars
  <2> QED BY <2>3, <2>4, <2>5
<1>6. ASSUME NEW w \in Worker, NothingNew(w) PROVE PresenceInv'
  BY <1>6, WorkerRests DEF NothingNew
<1>7. ASSUME NEW w \in Worker, WritePresenceCheckpoint(w) PROVE PresenceInv'
  BY <1>7, WorkerWrites
<1>8. ASSUME NEW w \in Worker, WorkerFails(w) PROVE PresenceInv'
  BY <1>8, WorkerRests DEF WorkerFails
<1>9. CASE UNCHANGED presenceVars
  BY <1>9 DEF presenceVars, PresenceTypeOK, NeverDoubleCovers, InRange, InHand
<1> QED
  BY <1>1, <1>2, <1>3, <1>4, <1>5, <1>6, <1>7, <1>8, <1>9 DEF PresenceNext, Tick

\* LatestPresenceCheckpointSeq, PresenceEventsAfter and WritePresenceCheckpoint
\* are three separate transactions, and any of them may fail: with one worker
\* the checkpoints' ranges are still disjoint, and every signed row is in the
\* trail.
THEOREM NoDoubleCover == OneWorker /\ PresenceSpec => []NeverDoubleCovers
<1> SUFFICES ASSUME OneWorker PROVE PresenceSpec => []NeverDoubleCovers
  OBVIOUS
<1>1. PresenceInit => PresenceInv
  BY PresenceInitInv
<1>2. PresenceInv /\ [PresenceNext]_presenceVars => PresenceInv'
  BY PresenceNextInv
<1>3. PresenceInv => NeverDoubleCovers
  BY DEF PresenceInv
<1> QED BY <1>1, <1>2, <1>3, PTL DEF PresenceSpec

(***************************************************************************)
(* A row that verifies goes on to verify.                                  *)
(***************************************************************************)

\* New rows outside a checkpoint's range leave the root over the range as it is.
LEMMA RangeUntouched ==
    ASSUME NEW c \in points, events \subseteq events',
           \A t \in events' \ events : ~Covers(c, t)
    PROVE  InRange(c)' = InRange(c)
BY DEF InRange, Covers

\* A checkpoint that one worker writes begins above every earlier one: it covers no
\* row that they cover.
LEMMA NewAboveOld ==
    ASSUME PresenceInv, NEW w \in Worker, WritePresenceCheckpoint(w),
           NEW c \in points, NEW s \in SeqNo, Covers(c, s),
           NEW d \in points', Covers(d, s)
    PROVE  d \in points
<1>1. PICK first \in wRows[w], last \in wRows[w] :
        points' = points \cup {[from |-> first, to |-> last, root |-> wRows[w]]}
  BY DEF WritePresenceCheckpoint
<1>2. wPc[w] = "write"
  BY DEF WritePresenceCheckpoint
<1>3. c.to <= wLast[w] /\ wLast[w] < first
  BY <1>2 DEF PresenceInv, InHand
<1>4. c.to \in Nat /\ wLast[w] \in Nat /\ first \in Nat /\ s \in Nat
  BY MaxEventAssumption DEF PresenceInv, PresenceTypeOK, Checkpoint, SeqNo
<1>5. ~(first <= s)
  BY <1>3, <1>4 DEF Covers
<1> QED BY <1>1, <1>5 DEF Covers

\* What every step that could spoil a verified row has to do: bring a row late into
\* the range of a checkpoint.
LEMMA VerifiedStep ==
    ASSUME OneWorker, PresenceInv, PresenceNext,
           NEW s \in SeqNo, Verify(s), ~Verify(s)'
    PROVE  \E t \in events' \ events, c \in points : Covers(c, t)
<1> SUFFICES ASSUME \A t \in events' \ events : \A c \in points : ~Covers(c, t)
             PROVE  FALSE
  OBVIOUS
<1>1. PICK c \in points :
        /\ Covers(c, s)
        /\ \A d \in points : Covers(d, s) => d.to <= c.to
        /\ s \in events
        /\ InRange(c) = c.root
  BY DEF Verify
<1>2. events \subseteq events'
  BY DEF PresenceNext, Tick, DrawSeq, CommitEvent, RollbackEvent, ReadLatest, ReadEvents,
         NothingNew, WritePresenceCheckpoint, WorkerFails, trailVars
<1>3. InRange(c)' = c.root
  BY <1>1, <1>2, RangeUntouched
<1>4. points \subseteq points'
  BY DEF PresenceNext, Tick, DrawSeq, CommitEvent, RollbackEvent, ReadLatest, ReadEvents,
         NothingNew, WritePresenceCheckpoint, WorkerFails
<1>5. \A d \in points' : Covers(d, s) => d \in points
  <2>1. CASE \E w \in Worker : WritePresenceCheckpoint(w)
    BY <1>1, <2>1, NewAboveOld
  <2>2. CASE ~\E w \in Worker : WritePresenceCheckpoint(w)
    <3>1. points' = points
      BY <2>2 DEF PresenceNext, Tick, DrawSeq, CommitEvent, RollbackEvent, ReadLatest,
                  ReadEvents, NothingNew, WorkerFails
    <3> QED BY <3>1
  <2> QED BY <2>1, <2>2
<1>6. Verify(s)'
  <2>1. c \in points' /\ s \in events'
    BY <1>1, <1>2, <1>4
  <2>2. \A d \in points' : Covers(d, s) => d.to <= c.to
    BY <1>1, <1>5
  <2> QED BY <1>1, <1>3, <2>1, <2>2 DEF Verify, Covers, InRange
<1> QED BY <1>6

\* With one worker, a participant whose presence verifies keeps that evidence: no later
\* checkpoint, failure or restart takes it, only a row of the same range that was drawn
\* before the checkpoint and commits after it (Verify, Checkpoint).
THEOREM VerifiedRowsStay == OneWorker /\ PresenceSpec => VerifiedStays
<1> SUFFICES ASSUME OneWorker PROVE PresenceSpec => VerifiedStays
  OBVIOUS
<1>1. PresenceInit => PresenceInv
  BY PresenceInitInv
<1>2. PresenceInv /\ [PresenceNext]_presenceVars => PresenceInv'
  BY PresenceNextInv
<1>3. PresenceInv /\ [PresenceNext]_presenceVars =>
        [\A s \in SeqNo :
            Verify(s) /\ ~Verify(s)' =>
                \E t \in events' \ events, c \in points : Covers(c, t)]_presenceVars
  BY VerifiedStep
<1> QED BY <1>1, <1>2, <1>3, PTL DEF PresenceSpec, VerifiedStays

-----------------------------------------------------------------------------
(* The trees of the checkpoints, for lists of every length. A recursive    *)
(* function is a CHOOSE: each is shown to exist, by one argument for all   *)
(* of them (the loop of largestPow2LessThan, rootOf, pathOf, upOf, and the *)
(* reference's levelsOf and two), because its body looks only at smaller   *)
(* numbers. Sound and complete proofs, and roots that stand for their      *)
(* rows, follow by strong induction on the number of leaves.               *)

\* Strong induction, for a set of numbers.
LEMMA SetInduction ==
    ASSUME NEW T, \A n \in Nat : (\A m \in 0..(n - 1) : m \in T) => n \in T
    PROVE  \A n \in Nat : n \in T
<1> SUFFICES ASSUME NEW n0 \in Nat, n0 \notin T PROVE FALSE
  OBVIOUS
<1> DEFINE B == Nat \ T
<1>1. PICK x \in B : \A y \in B : ~(<<y, x>> \in OpToRel(<, Nat))
  <2>1. B \subseteq Nat /\ B # {}
    OBVIOUS
  <2> HIDE DEF B
  <2> QED BY <2>1, NatLessThanWellFounded, WFMin
<1>2. \A m \in 0..(x - 1) : m \in T
  <2> SUFFICES ASSUME NEW m \in 0..(x - 1), m \notin T PROVE FALSE
    OBVIOUS
  <2>1. m \in B /\ m < x /\ x \in Nat /\ m \in Nat
    OBVIOUS
  <2>2. OpToRel(<, Nat) = {p \in Nat \X Nat : p[1] < p[2]}
    BY DEF OpToRel
  <2>3. <<m, x>> \in {p \in Nat \X Nat : p[1] < p[2]}
    BY <2>1
  <2> QED BY <1>1, <2>1, <2>2, <2>3
<1> QED BY <1>1, <1>2

\* The bodies of the recursions, with the function that they call as a parameter.
Round(n, k, round) ==
    IF round = 0 THEN 1
    ELSE LET before == k[round - 1]
         IN  IF 2 * before < n THEN 2 * before ELSE before

RootStep(f, n) ==
    [d \in [1..n -> Leaf] |->
        CASE n = 0 -> EmptyRoot
          [] n = 1 -> leafHash(d[1])
          [] OTHER ->
               LET k == largestPow2LessThan(n)
               IN  nodeHash(f[k][SubSeq(d, 1, k)], f[n - k][SubSeq(d, k + 1, n)])]

PathStep(f, n) ==
    [x \in (0..(n - 1)) \X [1..n -> Leaf] |->
        IF n = 1 THEN <<>>
        ELSE LET m == x[1]
                 k == largestPow2LessThan(n)
                 left == SubSeq(x[2], 1, k)
                 right == SubSeq(x[2], k + 1, n)
             IN  IF m < k THEN Append(f[k][<<m, left>>], Root(right))
                          ELSE Append(f[n - k][<<m - k, right>>], Root(left))]

UpStep(leafH, proof, f, size) ==
    [x \in (0..(size - 1)) \X (0..Len(proof)) |->
        IF size = 1 THEN IF x[2] = 0 THEN {leafH} ELSE {}
        ELSE IF x[2] = 0 THEN {}
        ELSE LET m == x[1]
                 sib == proof[x[2]]
                 rest == x[2] - 1
                 k == largestPow2LessThan(size)
             IN  IF m < k THEN {nodeHash(h, sib) : h \in f[k][<<m, rest>>]}
                 ELSE {nodeHash(sib, h) : h \in f[size - k][<<m - k, rest>>]}]

Double(f, i) == IF i = 0 THEN 1 ELSE 2 * f[i - 1]

LevelStep(nodes, f, height) == IF height = 0 THEN nodes ELSE join(f[height - 1])

\* The same under one name, so that what is shown of it holds of each.
Body(kind, p, f, n) ==
    CASE kind = "round" -> Round(p, f, n)
      [] kind = "root" -> RootStep(f, n)
      [] kind = "path" -> PathStep(f, n)
      [] kind = "two" -> Double(f, n)
      [] kind = "level" -> LevelStep(p, f, n)
      [] OTHER -> UpStep(p[1], p[2], f, n)

\* A body that looks only at what lies below n.
LooksDown(kind, p) ==
    \A n \in Nat : \A f, g :
        (\A m \in 0..(n - 1) : f[m] = g[m]) => Body(kind, p, f, n) = Body(kind, p, g, n)

\* g solves the recursion up to n.
Solves(kind, p, g, n) == \A m \in 0..n : g[m] = Body(kind, p, g, m)

LEMMA SolutionsAgree ==
    ASSUME NEW kind, NEW p, LooksDown(kind, p), NEW n \in Nat, NEW q \in Nat, NEW g, NEW h,
           Solves(kind, p, g, n), Solves(kind, p, h, q)
    PROVE  \A m \in Nat : m <= n /\ m <= q => g[m] = h[m]
<1> DEFINE T == {m \in Nat : m <= n /\ m <= q => g[m] = h[m]}
<1>1. ASSUME NEW m \in Nat, \A j \in 0..(m - 1) : j \in T PROVE m \in T
  <2> SUFFICES ASSUME m <= n, m <= q PROVE g[m] = h[m]
    OBVIOUS
  <2>1. \A j \in 0..(m - 1) : g[j] = h[j]
    BY <1>1
  <2>2. Body(kind, p, g, m) = Body(kind, p, h, m)
    BY <2>1 DEF LooksDown
  <2>3. m \in 0..n /\ m \in 0..q
    OBVIOUS
  <2> QED BY <2>2, <2>3 DEF Solves
<1> HIDE DEF T
<1>2. \A m \in Nat : m \in T
  BY <1>1, SetInduction
<1> QED BY <1>2 DEF T

LEMMA SolutionsExist ==
    ASSUME NEW kind, NEW p, LooksDown(kind, p)
    PROVE  \A n \in Nat : \E g : Solves(kind, p, g, n)
<1> DEFINE T == {n \in Nat : \E g : Solves(kind, p, g, n)}
<1>1. ASSUME NEW n \in Nat, \A m \in 0..(n - 1) : m \in T PROVE n \in T
  <2>1. PICK g : \A m \in 0..(n - 1) : g[m] = Body(kind, p, g, m)
    <3>1. CASE n = 0
      <4>1. \A m \in 0..(n - 1) : <<>>[m] = Body(kind, p, <<>>, m)
        BY <3>1
      <4> QED BY <4>1
    <3>2. CASE n # 0
      <4>1. n - 1 \in 0..(n - 1) /\ n - 1 \in T
        BY <1>1, <3>2
      <4> QED BY <4>1 DEF Solves
    <3> QED BY <3>1, <3>2
  <2> DEFINE h == [m \in 0..n |-> IF m < n THEN g[m] ELSE Body(kind, p, g, n)]
  <2>2. \A m \in 0..(n - 1) : h[m] = g[m]
    OBVIOUS
  <2>3. h[n] = Body(kind, p, g, n)
    OBVIOUS
  <2> HIDE DEF h
  <2>4. \A m \in 0..n : Body(kind, p, h, m) = Body(kind, p, g, m)
    <3> SUFFICES ASSUME NEW m \in 0..n PROVE Body(kind, p, h, m) = Body(kind, p, g, m)
      OBVIOUS
    <3>1. \A j \in 0..(m - 1) : h[j] = g[j]
      BY <2>2
    <3> QED BY <3>1 DEF LooksDown
  <2>5. \A m \in 0..n : h[m] = Body(kind, p, h, m)
    <3> SUFFICES ASSUME NEW m \in 0..n PROVE h[m] = Body(kind, p, h, m)
      OBVIOUS
    <3>1. CASE m = n
      BY <3>1, <2>3, <2>4
    <3>2. CASE m # n
      <4>1. m \in 0..(n - 1)
        BY <3>2
      <4> QED BY <4>1, <2>1, <2>2, <2>4
    <3> QED BY <3>1, <3>2
  <2> QED BY <2>5 DEF Solves
<1> HIDE DEF T
<1>2. \A n \in Nat : n \in T
  BY <1>1, SetInduction
<1> QED BY <1>2 DEF T

\* A recursion that looks down defines a function on all numbers.
LEMMA RecursionDefines ==
    ASSUME NEW kind, NEW p, LooksDown(kind, p)
    PROVE  \E f : f = [n \in Nat |-> Body(kind, p, f, n)]
<1> DEFINE g(n) == CHOOSE g : Solves(kind, p, g, n)
           f == [n \in Nat |-> g(n)[n]]
<1>1. \A n \in Nat : Solves(kind, p, g(n), n)
  BY SolutionsExist
<1>2. \A n \in Nat : \A m \in 0..n : f[m] = g(n)[m]
  <2> SUFFICES ASSUME NEW n \in Nat, NEW m \in 0..n PROVE f[m] = g(n)[m]
    OBVIOUS
  <2>1. m \in Nat /\ m <= m /\ m <= n
    OBVIOUS
  <2>2. f[m] = g(m)[m]
    BY <2>1
  <2> HIDE DEF g
  <2>3. g(m)[m] = g(n)[m]
    BY <1>1, <2>1, SolutionsAgree
  <2> QED BY <2>2, <2>3
<1>3. \A n \in Nat : f[n] = Body(kind, p, f, n)
  <2> SUFFICES ASSUME NEW n \in Nat PROVE f[n] = Body(kind, p, f, n)
    OBVIOUS
  <2> HIDE DEF f
  <2> HIDE DEF g
  <2>1. f[n] = g(n)[n] /\ \A m \in 0..(n - 1) : f[m] = g(n)[m]
    BY <1>2
  <2>2. g(n)[n] = Body(kind, p, g(n), n)
    BY <1>1 DEF Solves
  <2>3. Body(kind, p, f, n) = Body(kind, p, g(n), n)
    BY <2>1 DEF LooksDown
  <2> QED BY <2>1, <2>2, <2>3
<1>4. f = [n \in Nat |-> f[n]]
  OBVIOUS
<1> HIDE DEF f
<1>5. f = [n \in Nat |-> Body(kind, p, f, n)]
  BY <1>3, <1>4
<1> QED BY <1>5

-----------------------------------------------------------------------------
(* What each recursion computes.                                           *)

\* The loop's k: at least one, less than n.
LEMMA RoundsDown == \A n \in Nat : LooksDown("round", n)
<1> SUFFICES ASSUME NEW p \in Nat, NEW n \in Nat, NEW f, NEW g,
                    \A m \in 0..(n - 1) : f[m] = g[m]
             PROVE  Body("round", p, f, n) = Body("round", p, g, n)
  BY DEF LooksDown
<1>1. n # 0 => f[n - 1] = g[n - 1]
  OBVIOUS
<1> QED BY <1>1 DEF Body, Round

LEMMA LoopRuns ==
    ASSUME NEW n \in Nat
    PROVE  \E loop : /\ largestPow2LessThan(n) = loop[n]
                     /\ \A round \in Nat : loop[round] = Round(n, loop, round)
<1> DEFINE loop == CHOOSE k : k = [round \in Nat |-> Round(n, k, round)]
<1>1. \E k : k = [round \in Nat |-> Round(n, k, round)]
  <2>1. PICK k : k = [round \in Nat |-> Body("round", n, k, round)]
    BY RoundsDown, RecursionDefines
  <2>2. \A round : Body("round", n, k, round) = Round(n, k, round)
    BY DEF Body
  <2>3. k = [round \in Nat |-> Round(n, k, round)]
    BY <2>1, <2>2
  <2> QED BY <2>3
<1>2. loop = [round \in Nat |-> Round(n, loop, round)]
  BY <1>1
<1>3. largestPow2LessThan(n) = loop[n]
  BY DEF largestPow2LessThan, Round
<1> HIDE DEF loop
<1>4. \A round \in Nat : loop[round] = Round(n, loop, round)
  BY <1>2
<1> QED BY <1>3, <1>4

LEMMA SplitBounds ==
    ASSUME NEW n \in Nat, 2 <= n
    PROVE  largestPow2LessThan(n) \in 1..(n - 1)
<1>1. PICK loop : /\ largestPow2LessThan(n) = loop[n]
                  /\ \A round \in Nat : loop[round] = Round(n, loop, round)
  BY LoopRuns
<1> DEFINE T == {r \in Nat : loop[r] \in 1..(n - 1)}
<1>2. ASSUME NEW r \in Nat, \A m \in 0..(r - 1) : m \in T PROVE r \in T
  <2>1. loop[r] = Round(n, loop, r)
    BY <1>1
  <2>2. r # 0 => loop[r - 1] \in 1..(n - 1)
    BY <1>2
  <2> QED BY <2>1, <2>2 DEF Round
<1> HIDE DEF T
<1>3. n \in T
  BY <1>2, SetInduction
<1> QED BY <1>1, <1>3 DEF T

\* The two halves of a list.
LEMMA Halves ==
    ASSUME NEW n \in Nat, NEW k \in 0..n, NEW d \in [1..n -> Leaf]
    PROVE  /\ SubSeq(d, 1, k) \in [1..k -> Leaf]
           /\ SubSeq(d, k + 1, n) \in [1..(n - k) -> Leaf]
           /\ \A i \in 1..k : SubSeq(d, 1, k)[i] = d[i]
           /\ \A i \in 1..(n - k) : SubSeq(d, k + 1, n)[i] = d[k + i]
<1>1. /\ SubSeq(d, 1, k) \in Seq(Leaf)
      /\ Len(SubSeq(d, 1, k)) = k
      /\ \A i \in 1..k : SubSeq(d, 1, k)[i] = d[i]
  <2>1. \A i \in 1..k : d[i] \in Leaf
    OBVIOUS
  <2>2. /\ SubSeq(d, 1, k) \in Seq(Leaf)
        /\ Len(SubSeq(d, 1, k)) = IF 1 <= k THEN k - 1 + 1 ELSE 0
        /\ \A i \in 1..(k - 1 + 1) : SubSeq(d, 1, k)[i] = d[1 + i - 1]
    BY <2>1, SubSeqProperties
  <2> QED BY <2>2
<1>2. /\ SubSeq(d, k + 1, n) \in Seq(Leaf)
      /\ Len(SubSeq(d, k + 1, n)) = n - k
      /\ \A i \in 1..(n - k) : SubSeq(d, k + 1, n)[i] = d[k + i]
  <2>1. \A i \in (k + 1)..n : d[i] \in Leaf
    OBVIOUS
  <2>2. /\ SubSeq(d, k + 1, n) \in Seq(Leaf)
        /\ Len(SubSeq(d, k + 1, n)) = IF k + 1 <= n THEN n - (k + 1) + 1 ELSE 0
        /\ \A i \in 1..(n - (k + 1) + 1) : SubSeq(d, k + 1, n)[i] = d[(k + 1) + i - 1]
    BY <2>1, SubSeqProperties
  <2>3. n - (k + 1) + 1 = n - k /\ \A i \in Int : (k + 1) + i - 1 = k + i
    OBVIOUS
  <2>4. \A i \in 1..(n - k) : SubSeq(d, k + 1, n)[i] = d[k + i]
    BY <2>2, <2>3
  <2>5. Len(SubSeq(d, k + 1, n)) = n - k
    BY <2>2
  <2> QED BY <2>2, <2>4, <2>5
<1> QED BY <1>1, <1>2, LenProperties

\* Root and path look at the two halves only, and so does rootFromProof.
LEMMA RootDown == \A p : LooksDown("root", p)
<1> SUFFICES ASSUME NEW n \in Nat, NEW f, NEW g, \A m \in 0..(n - 1) : f[m] = g[m]
             PROVE  RootStep(f, n) = RootStep(g, n)
  BY DEF LooksDown, Body
<1> DEFINE k == largestPow2LessThan(n)
<1>1. n # 0 /\ n # 1 => f[k] = g[k] /\ f[n - k] = g[n - k]
  BY SplitBounds
<1> HIDE DEF k
<1> QED BY <1>1 DEF RootStep, k

LEMMA RootDefined == rootOf = [n \in Nat |-> RootStep(rootOf, n)]
<1>1. \E f : f = [n \in Nat |-> RootStep(f, n)]
  <2>1. PICK f : f = [n \in Nat |-> Body("root", 0, f, n)]
    BY RootDown, RecursionDefines
  <2>2. \A n : Body("root", 0, f, n) = RootStep(f, n)
    BY DEF Body
  <2>3. f = [n \in Nat |-> RootStep(f, n)]
    BY <2>1, <2>2
  <2> QED BY <2>3
<1>2. rootOf = CHOOSE f : f = [n \in Nat |-> RootStep(f, n)]
  BY DEF rootOf, RootStep
<1> QED BY <1>1, <1>2

LEMMA PathDown == \A p : LooksDown("path", p)
<1> SUFFICES ASSUME NEW n \in Nat, NEW f, NEW g, \A m \in 0..(n - 1) : f[m] = g[m]
             PROVE  PathStep(f, n) = PathStep(g, n)
  BY DEF LooksDown, Body
<1> DEFINE k == largestPow2LessThan(n)
<1>1. n # 0 /\ n # 1 => f[k] = g[k] /\ f[n - k] = g[n - k]
  BY SplitBounds
<1>2. n = 0 => (0..(n - 1)) \X [1..n -> Leaf] = {}
  OBVIOUS
<1> HIDE DEF k
<1> QED BY <1>1, <1>2 DEF PathStep, k

LEMMA PathDefined == pathOf = [n \in Nat |-> PathStep(pathOf, n)]
<1>1. \E f : f = [n \in Nat |-> PathStep(f, n)]
  <2>1. PICK f : f = [n \in Nat |-> Body("path", 0, f, n)]
    BY PathDown, RecursionDefines
  <2>2. \A n : Body("path", 0, f, n) = PathStep(f, n)
    BY DEF Body
  <2>3. f = [n \in Nat |-> PathStep(f, n)]
    BY <2>1, <2>2
  <2> QED BY <2>3
<1>2. pathOf = CHOOSE f : f = [n \in Nat |-> PathStep(f, n)]
  BY DEF pathOf, PathStep
<1> QED BY <1>1, <1>2

LEMMA UpDown == \A p : LooksDown("up", p)
<1> SUFFICES ASSUME NEW p, NEW n \in Nat, NEW f, NEW g, \A m \in 0..(n - 1) : f[m] = g[m]
             PROVE  UpStep(p[1], p[2], f, n) = UpStep(p[1], p[2], g, n)
  BY DEF LooksDown, Body
<1> DEFINE k == largestPow2LessThan(n)
<1>1. n # 0 /\ n # 1 => f[k] = g[k] /\ f[n - k] = g[n - k]
  BY SplitBounds
<1>2. n = 0 => (0..(n - 1)) \X (0..Len(p[2])) = {}
  OBVIOUS
<1> HIDE DEF k
<1> QED BY <1>1, <1>2 DEF UpStep, k

LEMMA UpDefined ==
    ASSUME NEW leafH, NEW proof
    PROVE  upOf(leafH, proof) = [n \in Nat |-> UpStep(leafH, proof, upOf(leafH, proof), n)]
<1>1. \E f : f = [n \in Nat |-> UpStep(leafH, proof, f, n)]
  <2> DEFINE p == <<leafH, proof>>
  <2>1. PICK f : f = [n \in Nat |-> Body("up", p, f, n)]
    BY UpDown, RecursionDefines
  <2>2. \A n : Body("up", p, f, n) = UpStep(leafH, proof, f, n)
    BY DEF Body
  <2>3. f = [n \in Nat |-> UpStep(leafH, proof, f, n)]
    BY <2>1, <2>2
  <2> QED BY <2>3
<1>2. upOf(leafH, proof) = CHOOSE f : f = [n \in Nat |-> UpStep(leafH, proof, f, n)]
  BY DEF upOf, UpStep
<1> QED BY <1>1, <1>2

\* Powers of two, and the levels of the pairwise construction.
two[i \in Nat] == Double(two, i)

LEMMA TwoDown == \A p : LooksDown("two", p)
<1> SUFFICES ASSUME NEW n \in Nat, NEW f, NEW g, \A m \in 0..(n - 1) : f[m] = g[m]
             PROVE  Double(f, n) = Double(g, n)
  BY DEF LooksDown, Body
<1>1. n # 0 => f[n - 1] = g[n - 1]
  OBVIOUS
<1> QED BY <1>1 DEF Double

LEMMA TwoDefined == two[0] = 1 /\ \A i \in Nat : two[i + 1] = 2 * two[i]
<1>1. \E f : f = [i \in Nat |-> Double(f, i)]
  <2>1. PICK f : f = [i \in Nat |-> Body("two", 0, f, i)]
    BY TwoDown, RecursionDefines
  <2>2. \A i : Body("two", 0, f, i) = Double(f, i)
    BY DEF Body
  <2>3. f = [i \in Nat |-> Double(f, i)]
    BY <2>1, <2>2
  <2> QED BY <2>3
<1>2. two = CHOOSE f : f = [i \in Nat |-> Double(f, i)]
  BY DEF two
<1>3. two = [i \in Nat |-> Double(two, i)]
  BY <1>1, <1>2
<1>4. \A i \in Nat : two[i] = Double(two, i)
  BY <1>3
<1>5. two[0] = 1
  BY <1>4 DEF Double
<1>6. ASSUME NEW i \in Nat PROVE two[i + 1] = 2 * two[i]
  <2>1. i + 1 \in Nat /\ i + 1 # 0 /\ (i + 1) - 1 = i
    OBVIOUS
  <2>2. two[i + 1] = Double(two, i + 1)
    BY <1>4, <2>1
  <2> QED BY <2>1, <2>2 DEF Double
<1> QED BY <1>5, <1>6

LEMMA LevelDown == \A p : LooksDown("level", p)
<1> SUFFICES ASSUME NEW p, NEW n \in Nat, NEW f, NEW g, \A m \in 0..(n - 1) : f[m] = g[m]
             PROVE  LevelStep(p, f, n) = LevelStep(p, g, n)
  BY DEF LooksDown, Body
<1>1. n # 0 => f[n - 1] = g[n - 1]
  OBVIOUS
<1> QED BY <1>1 DEF LevelStep

LEMMA LevelDefined ==
    ASSUME NEW nodes
    PROVE  /\ levelsOf(nodes)[0] = nodes
           /\ \A h \in Nat : levelsOf(nodes)[h + 1] = join(levelsOf(nodes)[h])
<1> DEFINE level == levelsOf(nodes)
<1>1. \E f : f = [h \in Nat |-> LevelStep(nodes, f, h)]
  <2>1. PICK f : f = [h \in Nat |-> Body("level", nodes, f, h)]
    BY LevelDown, RecursionDefines
  <2>2. \A h : Body("level", nodes, f, h) = LevelStep(nodes, f, h)
    BY DEF Body
  <2>3. f = [h \in Nat |-> LevelStep(nodes, f, h)]
    BY <2>1, <2>2
  <2> QED BY <2>3
<1>2. level = CHOOSE f : f = [h \in Nat |-> LevelStep(nodes, f, h)]
  BY DEF levelsOf, LevelStep
<1>3. level = [h \in Nat |-> LevelStep(nodes, level, h)]
  BY <1>1, <1>2
<1> HIDE DEF level
<1>4. \A h \in Nat : level[h] = LevelStep(nodes, level, h)
  BY <1>3
<1>5. level[0] = nodes
  BY <1>4 DEF LevelStep
<1>6. ASSUME NEW h \in Nat PROVE level[h + 1] = join(level[h])
  <2>1. h + 1 \in Nat /\ h + 1 # 0 /\ (h + 1) - 1 = h
    OBVIOUS
  <2>2. level[h + 1] = LevelStep(nodes, level, h + 1)
    BY <1>4, <2>1
  <2> QED BY <2>1, <2>2 DEF LevelStep
<1> QED BY <1>5, <1>6 DEF level

-----------------------------------------------------------------------------
(* A step of each recursion.                                               *)

\* The two halves of a list of n leaves, as Root and path split it.
Left(n, d) == SubSeq(d, 1, largestPow2LessThan(n))
Right(n, d) == SubSeq(d, largestPow2LessThan(n) + 1, n)

\* A list of two or more is split into shorter lists, neither of them empty.
LEMMA Split ==
    ASSUME NEW n \in Nat, 2 <= n, NEW d \in [1..n -> Leaf]
    PROVE  LET k == largestPow2LessThan(n)
           IN  /\ k \in 1..(n - 1) /\ n - k \in 1..(n - 1)
               /\ Left(n, d) \in [1..k -> Leaf] /\ Right(n, d) \in [1..(n - k) -> Leaf]
               /\ \A i \in 1..k : Left(n, d)[i] = d[i]
               /\ \A i \in 1..(n - k) : Right(n, d)[i] = d[k + i]
<1> DEFINE k == largestPow2LessThan(n)
<1>1. k \in 1..(n - 1)
  BY SplitBounds
<1> HIDE DEF k
<1>2. n - k \in 1..(n - 1) /\ k \in 0..n
  BY <1>1
<1> QED BY <1>1, <1>2, Halves DEF Left, Right, k

\* One unfolding of Root, of path and of rootFromProof.
LEMMA RootCases ==
    ASSUME NEW n \in Nat, NEW d \in [1..n -> Leaf]
    PROVE  LET k == largestPow2LessThan(n)
           IN  /\ n = 0 => rootOf[n][d] = EmptyRoot
               /\ n = 1 => rootOf[n][d] = leafHash(d[1])
               /\ n >= 2 => rootOf[n][d] =
                     nodeHash(rootOf[k][Left(n, d)], rootOf[n - k][Right(n, d)])
<1>1. rootOf[n] = RootStep(rootOf, n)
  BY RootDefined
<1> QED BY <1>1 DEF RootStep, Left, Right

LEMMA PathCases ==
    ASSUME NEW n \in Nat, NEW d \in [1..n -> Leaf], NEW m \in 0..(n - 1)
    PROVE  LET k == largestPow2LessThan(n)
           IN  /\ n = 1 => pathOf[n][<<m, d>>] = <<>>
               /\ n >= 2 /\ m < k =>
                     pathOf[n][<<m, d>>] =
                         Append(pathOf[k][<<m, Left(n, d)>>], rootOf[n - k][Right(n, d)])
               /\ n >= 2 /\ ~(m < k) =>
                     pathOf[n][<<m, d>>] =
                         Append(pathOf[n - k][<<m - k, Right(n, d)>>], rootOf[k][Left(n, d)])
<1> DEFINE k == largestPow2LessThan(n)
<1>1. pathOf[n] = PathStep(pathOf, n)
  BY PathDefined
<1>2. n >= 2 => /\ Root(Left(n, d)) = rootOf[k][Left(n, d)]
                /\ Root(Right(n, d)) = rootOf[n - k][Right(n, d)]
  <2> SUFFICES ASSUME n >= 2 PROVE Len(Left(n, d)) = k /\ Len(Right(n, d)) = n - k
    BY DEF Root
  <2>1. /\ k \in 1..(n - 1) /\ n - k \in 1..(n - 1)
        /\ Left(n, d) \in [1..k -> Leaf] /\ Right(n, d) \in [1..(n - k) -> Leaf]
    BY Split
  <2> HIDE DEF k
  <2> QED BY <2>1
<1>3. <<m, d>> \in (0..(n - 1)) \X [1..n -> Leaf] /\ <<m, d>>[1] = m /\ <<m, d>>[2] = d
  OBVIOUS
<1>4. PathStep(pathOf, n)[<<m, d>>] =
        IF n = 1 THEN <<>>
        ELSE IF m < k THEN Append(pathOf[k][<<m, Left(n, d)>>], Root(Right(n, d)))
                      ELSE Append(pathOf[n - k][<<m - k, Right(n, d)>>], Root(Left(n, d)))
  BY <1>3 DEF PathStep, Left, Right
<1> HIDE DEF k
<1>5. n = 1 => pathOf[n][<<m, d>>] = <<>>
  BY <1>1, <1>4
<1>6. n >= 2 /\ m < k =>
        pathOf[n][<<m, d>>] = Append(pathOf[k][<<m, Left(n, d)>>], rootOf[n - k][Right(n, d)])
  BY <1>1, <1>2, <1>4
<1>7. n >= 2 /\ ~(m < k) =>
        pathOf[n][<<m, d>>] = Append(pathOf[n - k][<<m - k, Right(n, d)>>], rootOf[k][Left(n, d)])
  BY <1>1, <1>2, <1>4
<1> QED BY <1>5, <1>6, <1>7 DEF k

LEMMA UpCases ==
    ASSUME NEW leafH, NEW proof, Len(proof) \in Nat,
           NEW n \in Nat, NEW m \in 0..(n - 1), NEW l \in 0..Len(proof)
    PROVE  LET k == largestPow2LessThan(n)
               up == upOf(leafH, proof)
           IN  /\ n = 1 => up[n][<<m, l>>] = IF l = 0 THEN {leafH} ELSE {}
               /\ n >= 2 /\ l = 0 => up[n][<<m, l>>] = {}
               /\ n >= 2 /\ l # 0 /\ m < k =>
                     up[n][<<m, l>>] = {nodeHash(h, proof[l]) : h \in up[k][<<m, l - 1>>]}
               /\ n >= 2 /\ l # 0 /\ ~(m < k) =>
                     up[n][<<m, l>>] = {nodeHash(proof[l], h) : h \in up[n - k][<<m - k, l - 1>>]}
<1> DEFINE up == upOf(leafH, proof)
<1>1. up = [j \in Nat |-> UpStep(leafH, proof, up, j)]
  BY UpDefined
<1> HIDE DEF up
<1>2. up[n] = UpStep(leafH, proof, up, n)
  BY <1>1
<1>3. <<m, l>> \in (0..(n - 1)) \X (0..Len(proof)) /\ <<m, l>>[1] = m /\ <<m, l>>[2] = l
  OBVIOUS
<1> DEFINE k == largestPow2LessThan(n)
<1>4. UpStep(leafH, proof, up, n)[<<m, l>>] =
        IF n = 1 THEN IF l = 0 THEN {leafH} ELSE {}
        ELSE IF l = 0 THEN {}
        ELSE IF m < k THEN {nodeHash(h, proof[l]) : h \in up[k][<<m, l - 1>>]}
                      ELSE {nodeHash(proof[l], h) : h \in up[n - k][<<m - k, l - 1>>]}
  BY <1>3 DEF UpStep
<1> HIDE DEF k
<1>5. /\ n = 1 => up[n][<<m, l>>] = IF l = 0 THEN {leafH} ELSE {}
      /\ n >= 2 /\ l = 0 => up[n][<<m, l>>] = {}
  BY <1>2, <1>4
<1>6. n >= 2 /\ l # 0 /\ m < k =>
        up[n][<<m, l>>] = {nodeHash(h, proof[l]) : h \in up[k][<<m, l - 1>>]}
  BY <1>2, <1>4
<1>7. n >= 2 /\ l # 0 /\ ~(m < k) =>
        up[n][<<m, l>>] = {nodeHash(proof[l], h) : h \in up[n - k][<<m - k, l - 1>>]}
  BY <1>2, <1>4
<1> QED BY <1>5, <1>6, <1>7 DEF k, up

-----------------------------------------------------------------------------
(* Roots and proofs.                                                       *)

\* Domain separation: a hash determines its kind and what was hashed.
LEMMA LeafBinds == ASSUME NEW x, NEW y, leafHash(x) = leafHash(y) PROVE x = y
BY DEF leafHash

LEMMA NodeBinds ==
    ASSUME NEW a, NEW b, NEW c, NEW e, nodeHash(a, b) = nodeHash(c, e)
    PROVE  a = c /\ b = e
BY DEF nodeHash

LEMMA KindsApart ==
    /\ \A x : leafHash(x) # EmptyRoot
    /\ \A x, y : nodeHash(x, y) # EmptyRoot
    /\ \A x, y, z : nodeHash(x, y) # leafHash(z)
BY DEF leafHash, nodeHash, EmptyRoot

\* Two lists with the same halves are the same.
LEMMA HalvesDetermine ==
    ASSUME NEW n \in Nat, 2 <= n, NEW d \in [1..n -> Leaf],
           NEW q \in Nat, 2 <= q, NEW e \in [1..q -> Leaf],
           Left(n, d) = Left(q, e), Right(n, d) = Right(q, e)
    PROVE  d = e
<1> DEFINE k == largestPow2LessThan(n)
           j == largestPow2LessThan(q)
<1>1. /\ k \in 1..(n - 1) /\ n - k \in 1..(n - 1)
      /\ Left(n, d) \in [1..k -> Leaf] /\ Right(n, d) \in [1..(n - k) -> Leaf]
      /\ \A i \in 1..k : Left(n, d)[i] = d[i]
      /\ \A i \in 1..(n - k) : Right(n, d)[i] = d[k + i]
  BY Split
<1>2. /\ j \in 1..(q - 1) /\ q - j \in 1..(q - 1)
      /\ Left(q, e) \in [1..j -> Leaf] /\ Right(q, e) \in [1..(q - j) -> Leaf]
      /\ \A i \in 1..j : Left(q, e)[i] = e[i]
      /\ \A i \in 1..(q - j) : Right(q, e)[i] = e[j + i]
  BY Split
<1> HIDE DEF k, j
<1>3. 1..k = 1..j /\ 1..(n - k) = 1..(q - j)
  BY <1>1, <1>2
<1>4. k = j /\ n = q
  BY <1>1, <1>2, <1>3
<1>5. \A i \in 1..n : d[i] = e[i]
  <2> SUFFICES ASSUME NEW i \in 1..n PROVE d[i] = e[i]
    OBVIOUS
  <2>1. CASE i <= k
    BY <2>1, <1>1, <1>2, <1>4
  <2>2. CASE ~(i <= k)
    <3>1. i - k \in 1..(n - k) /\ k + (i - k) = i
      BY <2>2, <1>1
    <3> QED BY <3>1, <1>1, <1>2, <1>4
  <2> QED BY <2>1, <2>2
<1> QED BY <1>4, <1>5

\* Lists with the same root are the same, whatever their lengths.
LEMMA RootsApart ==
    \A n \in Nat : \A d \in [1..n -> Leaf] : \A q \in Nat : \A e \in [1..q -> Leaf] :
        rootOf[n][d] = rootOf[q][e] => d = e
<1> DEFINE T == {n \in Nat : \A d \in [1..n -> Leaf] : \A q \in Nat : \A e \in [1..q -> Leaf] :
                    rootOf[n][d] = rootOf[q][e] => d = e}
<1>1. ASSUME NEW n \in Nat, \A m \in 0..(n - 1) : m \in T PROVE n \in T
  <2> SUFFICES ASSUME NEW d \in [1..n -> Leaf], NEW q \in Nat, NEW e \in [1..q -> Leaf],
                      rootOf[n][d] = rootOf[q][e]
               PROVE  d = e
    OBVIOUS
  <2>0. \A m \in 0..(n - 1) : \A a \in [1..m -> Leaf] : \A p \in Nat : \A b \in [1..p -> Leaf] :
          rootOf[m][a] = rootOf[p][b] => a = b
    BY <1>1
  <2> HIDE DEF T
  <2> DEFINE k == largestPow2LessThan(n)
             j == largestPow2LessThan(q)
  <2>1. /\ n = 0 => rootOf[n][d] = EmptyRoot
        /\ n = 1 => rootOf[n][d] = leafHash(d[1])
        /\ n >= 2 => rootOf[n][d] = nodeHash(rootOf[k][Left(n, d)], rootOf[n - k][Right(n, d)])
    BY RootCases
  <2>2. /\ q = 0 => rootOf[q][e] = EmptyRoot
        /\ q = 1 => rootOf[q][e] = leafHash(e[1])
        /\ q >= 2 => rootOf[q][e] = nodeHash(rootOf[j][Left(q, e)], rootOf[q - j][Right(q, e)])
    BY RootCases
  <2>3. CASE n = 0
    <3>1. q = 0
      BY <2>1, <2>2, <2>3, KindsApart
    <3> QED BY <3>1, <2>3
  <2>4. CASE n = 1
    <3>1. q = 1
      BY <2>1, <2>2, <2>4, KindsApart
    <3>2. d[1] = e[1]
      BY <2>1, <2>2, <2>4, <3>1, LeafBinds
    <3> QED BY <3>1, <3>2, <2>4
  <2>5. CASE n >= 2
    <3>1. q >= 2
      BY <2>1, <2>2, <2>5, KindsApart
    <3>2. /\ rootOf[k][Left(n, d)] = rootOf[j][Left(q, e)]
          /\ rootOf[n - k][Right(n, d)] = rootOf[q - j][Right(q, e)]
      BY <2>1, <2>2, <2>5, <3>1, NodeBinds
    <3>3. /\ k \in 1..(n - 1) /\ n - k \in 1..(n - 1)
          /\ Left(n, d) \in [1..k -> Leaf] /\ Right(n, d) \in [1..(n - k) -> Leaf]
      BY <2>5, Split
    <3>4. /\ j \in 1..(q - 1) /\ q - j \in 1..(q - 1)
          /\ Left(q, e) \in [1..j -> Leaf] /\ Right(q, e) \in [1..(q - j) -> Leaf]
      BY <3>1, Split
    <3> HIDE DEF k, j
    <3>5. k \in 0..(n - 1) /\ n - k \in 0..(n - 1) /\ j \in Nat /\ q - j \in Nat
      BY <3>3, <3>4
    <3>6. Left(n, d) = Left(q, e)
      BY <2>0, <3>2, <3>3, <3>4, <3>5
    <3>7. Right(n, d) = Right(q, e)
      BY <2>0, <3>2, <3>3, <3>4, <3>5
    <3> QED BY <2>5, <3>1, <3>6, <3>7, HalvesDetermine
  <2> QED BY <2>3, <2>4, <2>5
<1> HIDE DEF T
<1>2. \A n \in Nat : n \in T
  BY <1>1, SetInduction
<1> QED BY <1>2 DEF T

\* Whatever the proof, a leaf that it leads from to the root of a list is the list's
\* leaf at that place.
LEMMA ProofsSound ==
    ASSUME NEW leafH, NEW proof, Len(proof) \in Nat
    PROVE  \A n \in Nat : \A d \in [1..n -> Leaf], i \in 0..(n - 1), l \in 0..Len(proof) :
              rootOf[n][d] \in upOf(leafH, proof)[n][<<i, l>>] => leafH = leafHash(d[i + 1])
<1> DEFINE up == upOf(leafH, proof)
           T == {n \in Nat : \A d \in [1..n -> Leaf], i \in 0..(n - 1), l \in 0..Len(proof) :
                    rootOf[n][d] \in up[n][<<i, l>>] => leafH = leafHash(d[i + 1])}
<1>1. ASSUME NEW n \in Nat, \A m \in 0..(n - 1) : m \in T PROVE n \in T
  <2> SUFFICES ASSUME NEW d \in [1..n -> Leaf], NEW i \in 0..(n - 1), NEW l \in 0..Len(proof),
                      rootOf[n][d] \in up[n][<<i, l>>]
               PROVE  leafH = leafHash(d[i + 1])
    OBVIOUS
  <2>0. \A m \in 0..(n - 1) :
          \A a \in [1..m -> Leaf], p \in 0..(m - 1), r \in 0..Len(proof) :
          rootOf[m][a] \in up[m][<<p, r>>] => leafH = leafHash(a[p + 1])
    BY <1>1
  <2> HIDE DEF T
  <2> DEFINE k == largestPow2LessThan(n)
  <2>1. /\ n = 1 => rootOf[n][d] = leafHash(d[1])
        /\ n >= 2 => rootOf[n][d] = nodeHash(rootOf[k][Left(n, d)], rootOf[n - k][Right(n, d)])
    BY RootCases
  <2>2. /\ n = 1 => up[n][<<i, l>>] = IF l = 0 THEN {leafH} ELSE {}
        /\ n >= 2 /\ l = 0 => up[n][<<i, l>>] = {}
        /\ n >= 2 /\ l # 0 /\ i < k =>
              up[n][<<i, l>>] = {nodeHash(h, proof[l]) : h \in up[k][<<i, l - 1>>]}
        /\ n >= 2 /\ l # 0 /\ ~(i < k) =>
              up[n][<<i, l>>] = {nodeHash(proof[l], h) : h \in up[n - k][<<i - k, l - 1>>]}
    BY UpCases
  <2> HIDE DEF up
  <2>3. CASE n = 1
    <3>1. i = 0 /\ rootOf[n][d] = leafH
      BY <2>2, <2>3
    <3> QED BY <3>1, <2>1, <2>3
  <2>4. CASE n >= 2
    <3>1. /\ k \in 1..(n - 1) /\ n - k \in 1..(n - 1)
          /\ Left(n, d) \in [1..k -> Leaf] /\ Right(n, d) \in [1..(n - k) -> Leaf]
          /\ \A j \in 1..k : Left(n, d)[j] = d[j]
          /\ \A j \in 1..(n - k) : Right(n, d)[j] = d[k + j]
      BY <2>4, Split
    <3> HIDE DEF k
    <3>2. k \in 0..(n - 1) /\ n - k \in 0..(n - 1)
      BY <3>1
    <3>3. l # 0 /\ l - 1 \in 0..Len(proof)
      <4>1. l # 0
        BY <2>2, <2>4
      <4> QED BY <4>1
    <3>4. CASE i < k
      <4>1. PICK h \in up[k][<<i, l - 1>>] : rootOf[n][d] = nodeHash(h, proof[l])
        BY <2>2, <2>4, <3>3, <3>4
      <4>2. h = rootOf[k][Left(n, d)]
        BY <4>1, <2>1, <2>4, NodeBinds
      <4>3. i \in 0..(k - 1) /\ i + 1 \in 1..k
        BY <3>1, <3>4
      <4>4. leafH = leafHash(Left(n, d)[i + 1])
        BY <2>0, <3>1, <3>2, <3>3, <4>1, <4>2, <4>3
      <4> QED BY <3>1, <4>3, <4>4
    <3>5. CASE ~(i < k)
      <4>1. PICK h \in up[n - k][<<i - k, l - 1>>] : rootOf[n][d] = nodeHash(proof[l], h)
        BY <2>2, <2>4, <3>3, <3>5
      <4>2. h = rootOf[n - k][Right(n, d)]
        BY <4>1, <2>1, <2>4, NodeBinds
      <4>3. i - k \in 0..(n - k - 1) /\ (i - k) + 1 \in 1..(n - k) /\ k + ((i - k) + 1) = i + 1
        BY <3>1, <3>5
      <4>4. leafH = leafHash(Right(n, d)[(i - k) + 1])
        BY <2>0, <3>1, <3>2, <3>3, <4>1, <4>2, <4>3
      <4>5. Right(n, d)[(i - k) + 1] = d[k + ((i - k) + 1)]
        BY <3>1, <4>3
      <4> QED BY <4>3, <4>4, <4>5
    <3> QED BY <3>4, <3>5
  <2> QED BY <2>3, <2>4
<1> HIDE DEF T
<1>2. \A n \in Nat : n \in T
  BY <1>1, SetInduction
<1> QED BY <1>2 DEF T

\* A path is a sequence: it has a length.
LEMMA PathIsSequence ==
    \A n \in Nat : \A d \in [1..n -> Leaf], m \in 0..(n - 1) :
        \E S : pathOf[n][<<m, d>>] \in Seq(S)
<1> DEFINE T == {n \in Nat : \A d \in [1..n -> Leaf], m \in 0..(n - 1) :
                    \E S : pathOf[n][<<m, d>>] \in Seq(S)}
<1>1. ASSUME NEW n \in Nat, \A m \in 0..(n - 1) : m \in T PROVE n \in T
  <2> SUFFICES ASSUME NEW d \in [1..n -> Leaf], NEW m \in 0..(n - 1)
               PROVE  \E S : pathOf[n][<<m, d>>] \in Seq(S)
    OBVIOUS
  <2>0. \A j \in 0..(n - 1) : \A a \in [1..j -> Leaf], i \in 0..(j - 1) :
          \E S : pathOf[j][<<i, a>>] \in Seq(S)
    BY <1>1
  <2> HIDE DEF T
  <2> DEFINE k == largestPow2LessThan(n)
  <2>1. /\ n = 1 => pathOf[n][<<m, d>>] = <<>>
        /\ n >= 2 /\ m < k =>
              pathOf[n][<<m, d>>] =
                  Append(pathOf[k][<<m, Left(n, d)>>], rootOf[n - k][Right(n, d)])
        /\ n >= 2 /\ ~(m < k) =>
              pathOf[n][<<m, d>>] =
                  Append(pathOf[n - k][<<m - k, Right(n, d)>>], rootOf[k][Left(n, d)])
    BY PathCases
  <2>2. \A S, s, e : s \in Seq(S) => Append(s, e) \in Seq(S \cup {e})
    <3> SUFFICES ASSUME NEW S, NEW s \in Seq(S), NEW e
                 PROVE  Append(s, e) \in Seq(S \cup {e})
      OBVIOUS
    <3>1. s \in Seq(S \cup {e})
      OBVIOUS
    <3> QED BY <3>1
  <2>3. CASE n = 1
    <3>1. <<>> \in Seq({})
      OBVIOUS
    <3> QED BY <2>1, <2>3, <3>1
  <2>4. CASE n >= 2
    <3>1. /\ k \in 1..(n - 1) /\ n - k \in 1..(n - 1)
          /\ Left(n, d) \in [1..k -> Leaf] /\ Right(n, d) \in [1..(n - k) -> Leaf]
      BY <2>4, Split
    <3> HIDE DEF k
    <3>2. k \in 0..(n - 1) /\ n - k \in 0..(n - 1)
      BY <3>1
    <3>3. CASE m < k
      <4>1. m \in 0..(k - 1)
        BY <3>1, <3>3
      <4>2. PICK S : pathOf[k][<<m, Left(n, d)>>] \in Seq(S)
        BY <2>0, <3>1, <3>2, <4>1
      <4>3. Append(pathOf[k][<<m, Left(n, d)>>], rootOf[n - k][Right(n, d)])
              \in Seq(S \cup {rootOf[n - k][Right(n, d)]})
        BY <2>2, <4>2
      <4> QED BY <2>1, <2>4, <3>3, <4>3
    <3>4. CASE ~(m < k)
      <4>1. m - k \in 0..(n - k - 1)
        BY <3>1, <3>4
      <4>2. PICK S : pathOf[n - k][<<m - k, Right(n, d)>>] \in Seq(S)
        BY <2>0, <3>1, <3>2, <4>1
      <4>3. Append(pathOf[n - k][<<m - k, Right(n, d)>>], rootOf[k][Left(n, d)])
              \in Seq(S \cup {rootOf[k][Left(n, d)]})
        BY <2>2, <4>2
      <4> QED BY <2>1, <2>4, <3>4, <4>3
    <3> QED BY <3>3, <3>4
  <2> QED BY <2>3, <2>4
<1> HIDE DEF T
<1>2. \A n \in Nat : n \in T
  BY <1>1, SetInduction
<1> QED BY <1>2 DEF T

\* A sequence, one longer.
LEMMA Longer ==
    ASSUME NEW S, NEW s \in Seq(S), NEW e
    PROVE  /\ Len(s) \in Nat /\ Len(Append(s, e)) = Len(s) + 1
           /\ \A j \in 1..Len(s) : Append(s, e)[j] = s[j]
           /\ Append(s, e)[Len(s) + 1] = e
<1>1. s \in Seq(S \cup {e})
  OBVIOUS
<1> QED BY <1>1

\* A proof that begins with the path of a leaf leads, there, to the root of the list.
LEMMA ProofsComplete ==
    ASSUME NEW leafH, NEW proof, Len(proof) \in Nat
    PROVE  \A n \in Nat : \A d \in [1..n -> Leaf], m \in 0..(n - 1) :
              LET p == pathOf[n][<<m, d>>]
              IN  leafH = leafHash(d[m + 1]) /\ Len(p) <= Len(proof)
                    /\ (\A j \in 1..Len(p) : proof[j] = p[j])
                  => rootOf[n][d] \in upOf(leafH, proof)[n][<<m, Len(p)>>]
<1> DEFINE up == upOf(leafH, proof)
           Begins(p) == Len(p) <= Len(proof) /\ \A j \in 1..Len(p) : proof[j] = p[j]
           Good(n, d, m, p) == leafH = leafHash(d[m + 1]) /\ Begins(p)
                                  => rootOf[n][d] \in up[n][<<m, Len(p)>>]
           T == {n \in Nat : \A d \in [1..n -> Leaf], m \in 0..(n - 1) :
                    Good(n, d, m, pathOf[n][<<m, d>>])}
<1>1. ASSUME NEW n \in Nat, \A m \in 0..(n - 1) : m \in T PROVE n \in T
  <2> SUFFICES ASSUME NEW d \in [1..n -> Leaf], NEW m \in 0..(n - 1),
                      leafH = leafHash(d[m + 1]), Begins(pathOf[n][<<m, d>>])
               PROVE  rootOf[n][d] \in up[n][<<m, Len(pathOf[n][<<m, d>>])>>]
    OBVIOUS
  <2>0. \A j \in 0..(n - 1) : \A a \in [1..j -> Leaf], i \in 0..(j - 1) :
          leafH = leafHash(a[i + 1]) /\ Begins(pathOf[j][<<i, a>>])
            => rootOf[j][a] \in up[j][<<i, Len(pathOf[j][<<i, a>>])>>]
    BY <1>1
  <2> HIDE DEF T, Good
  <2> DEFINE k == largestPow2LessThan(n)
             p == pathOf[n][<<m, d>>]
  <2>1. /\ n = 1 => rootOf[n][d] = leafHash(d[1])
        /\ n >= 2 => rootOf[n][d] = nodeHash(rootOf[k][Left(n, d)], rootOf[n - k][Right(n, d)])
    BY RootCases
  <2>2. /\ n = 1 => p = <<>>
        /\ n >= 2 /\ m < k =>
              p = Append(pathOf[k][<<m, Left(n, d)>>], rootOf[n - k][Right(n, d)])
        /\ n >= 2 /\ ~(m < k) =>
              p = Append(pathOf[n - k][<<m - k, Right(n, d)>>], rootOf[k][Left(n, d)])
    BY PathCases
  <2>3. \A l \in 0..Len(proof) :
          /\ n = 1 => up[n][<<m, l>>] = IF l = 0 THEN {leafH} ELSE {}
          /\ n >= 2 /\ l # 0 /\ m < k =>
                up[n][<<m, l>>] = {nodeHash(h, proof[l]) : h \in up[k][<<m, l - 1>>]}
          /\ n >= 2 /\ l # 0 /\ ~(m < k) =>
                up[n][<<m, l>>] = {nodeHash(proof[l], h) : h \in up[n - k][<<m - k, l - 1>>]}
    BY UpCases
  <2>4. Begins(p)
    OBVIOUS
  <2> HIDE DEF up, p
  <2>5. CASE n = 1
    <3>1. m = 0 /\ Len(p) = 0
      BY <2>2, <2>5
    <3>2. up[n][<<m, Len(p)>>] = {leafH}
      BY <2>3, <2>5, <3>1
    <3> QED BY <2>1, <2>5, <3>1, <3>2 DEF p
  <2>6. CASE n >= 2
    <3>1. /\ k \in 1..(n - 1) /\ n - k \in 1..(n - 1)
          /\ Left(n, d) \in [1..k -> Leaf] /\ Right(n, d) \in [1..(n - k) -> Leaf]
          /\ \A j \in 1..k : Left(n, d)[j] = d[j]
          /\ \A j \in 1..(n - k) : Right(n, d)[j] = d[k + j]
      BY <2>6, Split
    <3> HIDE DEF k
    <3>2. k \in 0..(n - 1) /\ n - k \in 0..(n - 1) /\ k \in Nat /\ n - k \in Nat
      BY <3>1
    <3>3. CASE m < k
      <4> DEFINE q == pathOf[k][<<m, Left(n, d)>>]
                 e == rootOf[n - k][Right(n, d)]
      <4>1. m \in 0..(k - 1) /\ m + 1 \in 1..k
        BY <3>1, <3>3
      <4>2. PICK S : q \in Seq(S)
        BY <3>1, <3>2, <4>1, PathIsSequence
      <4>3. p = Append(q, e)
        BY <2>2, <2>6, <3>3
      <4>4. Left(n, d)[m + 1] = d[m + 1]
        BY <3>1, <4>1
      <4>5. rootOf[k][Left(n, d)] \in up[k][<<m, Len(q)>>]
        <5>1. Begins(q) => rootOf[k][Left(n, d)] \in up[k][<<m, Len(q)>>]
          BY <2>0, <3>1, <3>2, <4>1, <4>4
        <5> HIDE DEF q, e
        <5>2. /\ Len(q) \in Nat /\ Len(p) = Len(q) + 1
              /\ \A j \in 1..Len(q) : p[j] = q[j]
          BY <4>2, <4>3, Longer
        <5>3. Len(q) <= Len(proof)
          BY <2>4, <5>2
        <5>4. \A j \in 1..Len(q) : proof[j] = q[j]
          BY <2>4, <5>2
        <5> HIDE DEF Begins
        <5>5. Begins(q)
          BY <5>3, <5>4 DEF Begins
        <5> QED BY <5>1, <5>5
      <4> HIDE DEF q
      <4>6. /\ Len(p) \in 0..Len(proof) /\ Len(p) # 0 /\ Len(p) - 1 = Len(q)
            /\ proof[Len(p)] = e
        <5> HIDE DEF e
        <5>1. Len(p) = Len(q) + 1 /\ Len(q) \in Nat /\ p[Len(p)] = e
          BY <4>2, <4>3, Longer
        <5> QED BY <2>4, <5>1
      <4>7. up[n][<<m, Len(p)>>] = {nodeHash(h, e) : h \in up[k][<<m, Len(q)>>]}
        <5> HIDE DEF e
        <5>1. up[n][<<m, Len(p)>>] = {nodeHash(h, proof[Len(p)]) : h \in up[k][<<m, Len(p) - 1>>]}
          BY <2>3, <2>6, <3>3, <4>6
        <5> QED BY <4>6, <5>1
      <4>8. nodeHash(rootOf[k][Left(n, d)], e) \in up[n][<<m, Len(p)>>]
        BY <4>5, <4>7
      <4> QED BY <2>1, <2>6, <4>8 DEF p
    <3>4. CASE ~(m < k)
      <4> DEFINE q == pathOf[n - k][<<m - k, Right(n, d)>>]
                 e == rootOf[k][Left(n, d)]
      <4>1. m - k \in 0..(n - k - 1) /\ (m - k) + 1 \in 1..(n - k) /\ k + ((m - k) + 1) = m + 1
        BY <3>1, <3>4
      <4>2. PICK S : q \in Seq(S)
        BY <3>1, <3>2, <4>1, PathIsSequence
      <4>3. p = Append(q, e)
        BY <2>2, <2>6, <3>4
      <4>4. Right(n, d)[(m - k) + 1] = d[m + 1]
        BY <3>1, <4>1
      <4>5. rootOf[n - k][Right(n, d)] \in up[n - k][<<m - k, Len(q)>>]
        <5>1. Begins(q) => rootOf[n - k][Right(n, d)] \in up[n - k][<<m - k, Len(q)>>]
          BY <2>0, <3>1, <3>2, <4>1, <4>4
        <5> HIDE DEF q, e
        <5>2. /\ Len(q) \in Nat /\ Len(p) = Len(q) + 1
              /\ \A j \in 1..Len(q) : p[j] = q[j]
          BY <4>2, <4>3, Longer
        <5>3. Len(q) <= Len(proof)
          BY <2>4, <5>2
        <5>4. \A j \in 1..Len(q) : proof[j] = q[j]
          BY <2>4, <5>2
        <5> HIDE DEF Begins
        <5>5. Begins(q)
          BY <5>3, <5>4 DEF Begins
        <5> QED BY <5>1, <5>5
      <4> HIDE DEF q
      <4>6. /\ Len(p) \in 0..Len(proof) /\ Len(p) # 0 /\ Len(p) - 1 = Len(q)
            /\ proof[Len(p)] = e
        <5> HIDE DEF e
        <5>1. Len(p) = Len(q) + 1 /\ Len(q) \in Nat /\ p[Len(p)] = e
          BY <4>2, <4>3, Longer
        <5> QED BY <2>4, <5>1
      <4>7. up[n][<<m, Len(p)>>] = {nodeHash(e, h) : h \in up[n - k][<<m - k, Len(q)>>]}
        <5> HIDE DEF e
        <5>1. up[n][<<m, Len(p)>>] = 
                {nodeHash(proof[Len(p)], h) : h \in up[n - k][<<m - k, Len(p) - 1>>]}
          BY <2>3, <2>6, <3>4, <4>6
        <5> QED BY <4>6, <5>1
      <4>8. nodeHash(e, rootOf[n - k][Right(n, d)]) \in up[n][<<m, Len(p)>>]
        BY <4>5, <4>7
      <4> QED BY <2>1, <2>6, <4>8 DEF p
    <3> QED BY <3>3, <3>4
  <2> QED BY <2>5, <2>6 DEF p
<1> HIDE DEF T
<1>2. \A n \in Nat : n \in T
  BY <1>1, SetInduction
<1> QED BY <1>2 DEF T

-----------------------------------------------------------------------------
(* The pairwise construction gives the same root.                          *)

LEMMA TwoIsPositive == \A i \in Nat : two[i] \in Nat /\ i < two[i]
<1> DEFINE T == {i \in Nat : two[i] \in Nat /\ i < two[i]}
<1>1. ASSUME NEW i \in Nat, \A m \in 0..(i - 1) : m \in T PROVE i \in T
  <2>1. CASE i = 0
    BY <2>1, TwoDefined
  <2>2. CASE i # 0
    <3>1. i - 1 \in Nat /\ (i - 1) + 1 = i /\ two[i - 1] \in Nat /\ i - 1 < two[i - 1]
      BY <1>1, <2>2
    <3>2. two[i] = 2 * two[i - 1]
      BY <3>1, TwoDefined
    <3> QED BY <3>1, <3>2
  <2> QED BY <2>1, <2>2
<1> HIDE DEF T
<1>2. \A i \in Nat : i \in T
  BY <1>1, SetInduction
<1> QED BY <1>2 DEF T

LEMMA TwoGrows == \A i \in Nat : \A j \in 0..i : two[j] <= two[i]
<1> DEFINE T == {i \in Nat : \A j \in 0..i : two[j] <= two[i]}
<1>1. ASSUME NEW i \in Nat, \A m \in 0..(i - 1) : m \in T PROVE i \in T
  <2> SUFFICES ASSUME NEW j \in 0..i PROVE two[j] <= two[i]
    OBVIOUS
  <2>1. two[i] \in Nat
    BY TwoIsPositive
  <2>2. CASE j = i
    BY <2>1, <2>2
  <2>3. CASE j # i
    <3>1. i - 1 \in 0..(i - 1) /\ i - 1 \in Nat /\ (i - 1) + 1 = i /\ j \in 0..(i - 1) /\ j \in Nat
      BY <2>3
    <3>2. two[j] <= two[i - 1]
      BY <1>1, <3>1
    <3>3. two[i] = 2 * two[i - 1]
      BY <3>1, TwoDefined
    <3>4. two[i - 1] \in Nat /\ two[j] \in Nat
      BY <3>1, TwoIsPositive
    <3> QED BY <3>2, <3>3, <3>4
  <2> QED BY <2>2, <2>3
<1> HIDE DEF T
<1>2. \A i \in Nat : i \in T
  BY <1>1, SetInduction
<1> QED BY <1>2 DEF T

\* largestPow2LessThan keeps its promise: k is a power of two, and the next is not less
\* than n.
LEMMA SplitIsPower ==
    ASSUME NEW n \in Nat, 2 <= n
    PROVE  /\ \E i \in Nat : largestPow2LessThan(n) = two[i]
           /\ n <= 2 * largestPow2LessThan(n)
<1>1. PICK loop : /\ largestPow2LessThan(n) = loop[n]
                  /\ \A round \in Nat : loop[round] = Round(n, loop, round)
  BY LoopRuns
<1> DEFINE Kept(r) == /\ loop[r] \in 1..(n - 1)
                      /\ \E i \in Nat : loop[r] = two[i]
                      /\ n <= 2 * loop[r] \/ r < loop[r]
           T == {r \in Nat : Kept(r)}
<1>2. ASSUME NEW r \in Nat, \A m \in 0..(r - 1) : m \in T PROVE r \in T
  <2>1. loop[r] = Round(n, loop, r)
    BY <1>1
  <2>2. CASE r = 0
    <3>1. loop[r] = 1
      BY <2>1, <2>2 DEF Round
    <3> QED BY <2>2, <3>1, TwoDefined
  <2>3. CASE r # 0
    <3> DEFINE b == loop[r - 1]
    <3>1. r - 1 \in 0..(r - 1) /\ Kept(r - 1)
      BY <1>2, <2>3
    <3>2. b \in 1..(n - 1) /\ (n <= 2 * b \/ r - 1 < b)
      BY <3>1
    <3>3. PICK i \in Nat : b = two[i]
      BY <3>1
    <3>4. loop[r] = IF 2 * b < n THEN 2 * b ELSE b
      BY <2>1, <2>3 DEF Round
    <3>5. 2 * b = two[i + 1] /\ i + 1 \in Nat
      BY <3>3, TwoDefined
    <3> HIDE DEF b
    <3>6. loop[r] \in 1..(n - 1) /\ (n <= 2 * loop[r] \/ r < loop[r])
      BY <3>2, <3>4
    <3>7. \E j \in Nat : loop[r] = two[j]
      BY <3>3, <3>4, <3>5
    <3> QED BY <3>6, <3>7
  <2> QED BY <2>2, <2>3
<1> HIDE DEF T
<1>3. n \in T
  BY <1>2, SetInduction
<1>4. Kept(n)
  BY <1>3 DEF T
<1> QED BY <1>1, <1>4

\* A list of n nodes.
IsList(s, n) == s = [i \in 1..n |-> s[i]]

LEMMA ListLength == ASSUME NEW n \in Nat, NEW s, IsList(s, n) PROVE Len(s) = n
<1>1. s \in [1..n -> {s[i] : i \in 1..n}]
  BY DEF IsList
<1> QED BY <1>1

LEMMA ListJoined ==
    ASSUME NEW n \in Nat, NEW s, IsList(s, n)
    PROVE  /\ (n + 1) \div 2 \in Nat
           /\ IsList(join(s), (n + 1) \div 2)
           /\ \A i \in 1..((n + 1) \div 2) :
                 join(s)[i] = IF 2 * i <= n THEN nodeHash(s[2 * i - 1], s[2 * i])
                              ELSE s[2 * i - 1]
<1>1. Len(s) = n
  BY ListLength
<1>2. join(s) = [i \in 1..((n + 1) \div 2) |->
                    IF 2 * i <= n THEN nodeHash(s[2 * i - 1], s[2 * i]) ELSE s[2 * i - 1]]
  BY <1>1 DEF join
<1>3. (n + 1) \div 2 \in Nat
  OBVIOUS
<1> QED BY <1>2, <1>3 DEF IsList

\* s is a, of p nodes, followed by b, of q nodes.
Glued(s, a, p, b, q) ==
    /\ IsList(a, p) /\ IsList(b, q) /\ IsList(s, p + q)
    /\ \A i \in 1..p : s[i] = a[i]
    /\ \A i \in 1..q : s[p + i] = b[i]

\* Joining does not cross an even boundary.
LEMMA JoinGlues ==
    ASSUME NEW r \in Nat, NEW q \in Nat, NEW s, NEW a, NEW b, Glued(s, a, 2 * r, b, q)
    PROVE  (q + 1) \div 2 \in Nat /\ Glued(join(s), join(a), r, join(b), (q + 1) \div 2)
<1> DEFINE t == (q + 1) \div 2
<1>1. (2 * r + 1) \div 2 = r /\ (2 * r + q + 1) \div 2 = r + t /\ t \in Nat
  OBVIOUS
<1>0. 2 * t <= q + 1 /\ q <= 2 * t
  OBVIOUS
<1>2. 2 * r \in Nat /\ 2 * r + q \in Nat
  OBVIOUS
<1>3. /\ IsList(join(a), r)
      /\ \A i \in 1..r : join(a)[i] = IF 2 * i <= 2 * r THEN nodeHash(a[2 * i - 1], a[2 * i])
                                      ELSE a[2 * i - 1]
  <2>1. IsList(a, 2 * r)
    BY DEF Glued
  <2>2. /\ IsList(join(a), (2 * r + 1) \div 2)
        /\ \A i \in 1..((2 * r + 1) \div 2) :
             join(a)[i] = IF 2 * i <= 2 * r THEN nodeHash(a[2 * i - 1], a[2 * i])
                          ELSE a[2 * i - 1]
    BY <1>2, <2>1, ListJoined
  <2> QED BY <1>1, <2>2
<1>4. /\ IsList(join(b), t)
      /\ \A i \in 1..t : join(b)[i] = IF 2 * i <= q THEN nodeHash(b[2 * i - 1], b[2 * i])
                                      ELSE b[2 * i - 1]
  BY ListJoined DEF Glued
<1>5. /\ IsList(join(s), r + t)
      /\ \A i \in 1..(r + t) :
           join(s)[i] = IF 2 * i <= 2 * r + q THEN nodeHash(s[2 * i - 1], s[2 * i])
                        ELSE s[2 * i - 1]
  <2>1. IsList(s, 2 * r + q)
    BY DEF Glued
  <2>2. /\ IsList(join(s), (2 * r + q + 1) \div 2)
        /\ \A i \in 1..((2 * r + q + 1) \div 2) :
             join(s)[i] = IF 2 * i <= 2 * r + q THEN nodeHash(s[2 * i - 1], s[2 * i])
                          ELSE s[2 * i - 1]
    BY <1>2, <2>1, ListJoined
  <2> QED BY <1>1, <2>2
<1> HIDE DEF t
<1>6. ASSUME NEW i \in 1..r PROVE join(s)[i] = join(a)[i]
  <2>1. i \in 1..(r + t) /\ 2 * i <= 2 * r /\ 2 * i <= 2 * r + q
    BY <1>1
  <2>2. 2 * i - 1 \in 1..(2 * r) /\ 2 * i \in 1..(2 * r)
    OBVIOUS
  <2>3. s[2 * i - 1] = a[2 * i - 1] /\ s[2 * i] = a[2 * i]
    BY <2>2 DEF Glued
  <2> QED BY <1>3, <1>5, <2>1, <2>3
<1>7. ASSUME NEW i \in 1..t PROVE join(s)[r + i] = join(b)[i]
  <2> DEFINE j == r + i
  <2>1. /\ j \in 1..(r + t) /\ 2 * j - 1 = 2 * r + (2 * i - 1) /\ 2 * j = 2 * r + 2 * i
        /\ 2 * i - 1 \in 1..q
        /\ 2 * j <= 2 * r + q <=> 2 * i <= q
    BY <1>0, <1>1
  <2>2. s[2 * j - 1] = b[2 * i - 1]
    BY <2>1 DEF Glued
  <2>3. 2 * i <= q => s[2 * j] = b[2 * i]
    <3>1. 2 * i <= q => 2 * i \in 1..q
      OBVIOUS
    <3> QED BY <2>1, <3>1 DEF Glued
  <2>4. join(s)[j] = IF 2 * j <= 2 * r + q THEN nodeHash(s[2 * j - 1], s[2 * j])
                     ELSE s[2 * j - 1]
    BY <1>5, <2>1
  <2> HIDE DEF j
  <2>5. join(s)[j] = join(b)[i]
    BY <1>4, <2>1, <2>2, <2>3, <2>4
  <2> QED BY <2>5 DEF j
<1> QED BY <1>1, <1>3, <1>4, <1>5, <1>6, <1>7 DEF Glued, t

\* A full tree goes up on its own for as many levels as it has.
LEMMA LevelsGlue ==
    ASSUME NEW i \in Nat, NEW q \in Nat, NEW s, NEW a, NEW b, Glued(s, a, two[i], b, q)
    PROVE  \A j \in 0..i : \E t \in Nat :
              Glued(levelsOf(s)[j], levelsOf(a)[j], two[i - j], levelsOf(b)[j], t)
<1> DEFINE Up(j) == \E t \in Nat :
                       Glued(levelsOf(s)[j], levelsOf(a)[j], two[i - j], levelsOf(b)[j], t)
           T == {j \in Nat : j <= i => Up(j)}
<1>1. ASSUME NEW j \in Nat, \A m \in 0..(j - 1) : m \in T PROVE j \in T
  <2> SUFFICES ASSUME j <= i PROVE Up(j)
    OBVIOUS
  <2>1. CASE j = 0
    <3>1. /\ levelsOf(s)[j] = s /\ levelsOf(a)[j] = a /\ levelsOf(b)[j] = b
          /\ i - j = i
      BY <2>1, LevelDefined
    <3> QED BY <3>1
  <2>2. CASE j # 0
    <3>1. j - 1 \in 0..(j - 1) /\ j - 1 \in Nat /\ j - 1 <= i /\ (j - 1) + 1 = j
      BY <2>2
    <3>2. PICK q1 \in Nat : Glued(levelsOf(s)[j - 1], levelsOf(a)[j - 1], two[i - (j - 1)],
                                  levelsOf(b)[j - 1], q1)
      BY <1>1, <3>1
    <3>3. i - j \in Nat /\ i - (j - 1) = (i - j) + 1
      OBVIOUS
    <3>4. two[i - (j - 1)] = 2 * two[i - j] /\ two[i - j] \in Nat
      BY <3>3, TwoDefined, TwoIsPositive
    <3>5. /\ levelsOf(s)[j] = join(levelsOf(s)[j - 1])
          /\ levelsOf(a)[j] = join(levelsOf(a)[j - 1])
          /\ levelsOf(b)[j] = join(levelsOf(b)[j - 1])
      BY <3>1, LevelDefined
    <3>6. Glued(levelsOf(s)[j - 1], levelsOf(a)[j - 1], 2 * two[i - j],
                levelsOf(b)[j - 1], q1)
      BY <3>2, <3>4
    <3>7. /\ (q1 + 1) \div 2 \in Nat
          /\ Glued(join(levelsOf(s)[j - 1]), join(levelsOf(a)[j - 1]), two[i - j],
                   join(levelsOf(b)[j - 1]), (q1 + 1) \div 2)
      BY <3>4, <3>6, JoinGlues
    <3> QED BY <3>5, <3>7
  <2> QED BY <2>1, <2>2
<1> HIDE DEF T
<1>2. \A j \in Nat : j \in T
  BY <1>1, SetInduction
<1> QED BY <1>2 DEF T

\* Once there is one node, it stays.
LEMMA OneStays ==
    ASSUME NEW s, NEW e, NEW i \in Nat, levelsOf(s)[i] = <<e>>
    PROVE  \A h \in Nat : h >= i => levelsOf(s)[h] = <<e>>
<1> DEFINE T == {h \in Nat : h >= i => levelsOf(s)[h] = <<e>>}
<1>1. join(<<e>>) = <<e>>
  <2>1. Len(<<e>>) = 1 /\ (1 + 1) \div 2 = 1 /\ <<e>>[1] = e
    OBVIOUS
  <2>2. join(<<e>>) = [j \in 1..1 |-> IF 2 * j <= 1 THEN nodeHash(<<e>>[2 * j - 1], <<e>>[2 * j])
                                      ELSE <<e>>[2 * j - 1]]
    BY <2>1 DEF join
  <2>3. \A j \in 1..1 : j = 1 /\ ~(2 * j <= 1) /\ 2 * j - 1 = 1
    OBVIOUS
  <2>4. join(<<e>>) = [j \in 1..1 |-> e]
    BY <2>1, <2>2, <2>3
  <2> QED BY <2>4
<1>2. ASSUME NEW h \in Nat, \A m \in 0..(h - 1) : m \in T PROVE h \in T
  <2> SUFFICES ASSUME h > i PROVE levelsOf(s)[h] = <<e>>
    OBVIOUS
  <2>1. h - 1 \in 0..(h - 1) /\ h - 1 \in Nat /\ h - 1 >= i /\ (h - 1) + 1 = h
    OBVIOUS
  <2>2. levelsOf(s)[h - 1] = <<e>>
    BY <1>2, <2>1
  <2>3. levelsOf(s)[h] = join(levelsOf(s)[h - 1])
    BY <2>1, LevelDefined
  <2> QED BY <1>1, <2>2, <2>3
<1> HIDE DEF T
<1>3. \A h \in Nat : h \in T
  BY <1>2, SetInduction
<1> QED BY <1>3 DEF T

\* The bottom level of that construction.
hashesOf(n, d) == [i \in 1..n |-> leafHash(d[i])]

\* After as many levels as a full tree over the rows would have, the root is left.
LEMMA RootPairwise ==
    \A n \in Nat \ {0} : \A d \in [1..n -> Leaf], h \in Nat :
        n <= two[h] => levelsOf(hashesOf(n, d))[h] = <<rootOf[n][d]>>
<1> DEFINE T == {n \in Nat : n # 0 => \A d \in [1..n -> Leaf], h \in Nat :
                    n <= two[h] => levelsOf(hashesOf(n, d))[h] = <<rootOf[n][d]>>}
<1>1. ASSUME NEW n \in Nat, \A m \in 0..(n - 1) : m \in T PROVE n \in T
  <2> SUFFICES ASSUME n # 0, NEW d \in [1..n -> Leaf], NEW h \in Nat, n <= two[h]
               PROVE  levelsOf(hashesOf(n, d))[h] = <<rootOf[n][d]>>
    OBVIOUS
  <2>0. \A m \in 1..(n - 1) : \A a \in [1..m -> Leaf], g \in Nat :
          m <= two[g] => levelsOf(hashesOf(m, a))[g] = <<rootOf[m][a]>>
    BY <1>1
  <2> HIDE DEF T
  <2> DEFINE k == largestPow2LessThan(n)
             s == hashesOf(n, d)
             a == hashesOf(k, Left(n, d))
             b == hashesOf(n - k, Right(n, d))
             e == rootOf[k][Left(n, d)]
             f == rootOf[n - k][Right(n, d)]
  <2>1. /\ n = 1 => rootOf[n][d] = leafHash(d[1])
        /\ n >= 2 => rootOf[n][d] = nodeHash(e, f)
    BY RootCases
  <2>2. CASE n = 1
    <3>1. s = <<leafHash(d[1])>>
      BY <2>2 DEF hashesOf
    <3>2. levelsOf(s)[0] = <<leafHash(d[1])>>
      BY <3>1, LevelDefined
    <3> HIDE DEF s
    <3>3. levelsOf(s)[h] = <<leafHash(d[1])>>
      BY <3>2, OneStays
    <3> QED BY <2>1, <2>2, <3>3 DEF s
  <2>3. CASE n >= 2
    <3>1. /\ k \in 1..(n - 1) /\ n - k \in 1..(n - 1)
          /\ Left(n, d) \in [1..k -> Leaf] /\ Right(n, d) \in [1..(n - k) -> Leaf]
          /\ \A j \in 1..k : Left(n, d)[j] = d[j]
          /\ \A j \in 1..(n - k) : Right(n, d)[j] = d[k + j]
      BY <2>3, Split
    <3>2. PICK i \in Nat : k = two[i]
      BY <2>3, SplitIsPower
    <3>3. n <= 2 * k
      BY <2>3, SplitIsPower
    <3> HIDE DEF k
    <3>4. Glued(s, a, k, b, n - k)
      <4>1. IsList(s, n) /\ IsList(a, k) /\ IsList(b, n - k) /\ k + (n - k) = n
        BY <3>1 DEF IsList, hashesOf
      <4>2. \A j \in 1..k : s[j] = a[j]
        BY <3>1 DEF hashesOf
      <4>3. \A j \in 1..(n - k) : s[k + j] = b[j]
        <5> SUFFICES ASSUME NEW j \in 1..(n - k) PROVE s[k + j] = b[j]
          OBVIOUS
        <5>1. k + j \in 1..n
          BY <3>1
        <5>2. s[k + j] = leafHash(d[k + j]) /\ b[j] = leafHash(Right(n, d)[j])
          BY <5>1 DEF hashesOf
        <5> QED BY <3>1, <5>2
      <4> HIDE DEF s, a, b
      <4> QED BY <4>1, <4>2, <4>3 DEF Glued
    <3>5. levelsOf(a)[i] = <<e>>
      <4>1. k <= two[i]
        BY <3>1, <3>2
      <4> QED BY <2>0, <3>1, <4>1
    <3>6. levelsOf(b)[i] = <<f>>
      <4>1. n - k <= two[i]
        BY <3>1, <3>2, <3>3
      <4> QED BY <2>0, <3>1, <4>1
    <3> HIDE DEF s, a, b, e, f
    <3>7. levelsOf(s)[i] = <<e, f>>
      <4>1. n - k \in Nat /\ i \in 0..i /\ i - i = 0 /\ two[0] = 1
        BY <3>1, TwoDefined
      <4>2. PICK t \in Nat : Glued(levelsOf(s)[i], levelsOf(a)[i], 1, levelsOf(b)[i], t)
        <5>1. Glued(s, a, two[i], b, n - k)
          BY <3>2, <3>4
        <5>2. \A j \in 0..i : \E t \in Nat :
                 Glued(levelsOf(s)[j], levelsOf(a)[j], two[i - j], levelsOf(b)[j], t)
          BY <4>1, <5>1, LevelsGlue
        <5> QED BY <4>1, <5>2
      <4>3. t = 1
        <5>1. IsList(<<f>>, t)
          BY <3>6, <4>2 DEF Glued
        <5>2. Len(<<f>>) = t
          BY <5>1, ListLength
        <5> QED BY <5>2
      <4>4. /\ IsList(levelsOf(s)[i], 2)
            /\ \A j \in 1..1 : levelsOf(s)[i][j] = <<e>>[j]
            /\ \A j \in 1..1 : levelsOf(s)[i][1 + j] = <<f>>[j]
        BY <3>5, <3>6, <4>2, <4>3 DEF Glued
      <4>5. levelsOf(s)[i][1] = e /\ levelsOf(s)[i][2] = f
        BY <4>4
      <4>6. levelsOf(s)[i] = [j \in 1..2 |-> levelsOf(s)[i][j]]
        BY <4>4 DEF IsList
      <4>7. [j \in 1..2 |-> levelsOf(s)[i][j]] = <<e, f>>
        BY <4>5
      <4> QED BY <4>6, <4>7
    <3>8. levelsOf(s)[i + 1] = <<nodeHash(e, f)>>
      <4>1. levelsOf(s)[i + 1] = join(<<e, f>>)
        <5>1. levelsOf(s)[i + 1] = join(levelsOf(s)[i])
          BY LevelDefined
        <5> QED BY <3>7, <5>1
      <4>2. Len(<<e, f>>) = 2 /\ (2 + 1) \div 2 = 1 /\ <<e, f>>[1] = e /\ <<e, f>>[2] = f
        OBVIOUS
      <4>3. join(<<e, f>>) =
              [j \in 1..1 |-> IF 2 * j <= 2 THEN nodeHash(<<e, f>>[2 * j - 1], <<e, f>>[2 * j])
                              ELSE <<e, f>>[2 * j - 1]]
        BY <4>2 DEF join
      <4>4. \A j \in 1..1 : 2 * j <= 2 /\ 2 * j - 1 = 1 /\ 2 * j = 2
        OBVIOUS
      <4>5. join(<<e, f>>) = [j \in 1..1 |-> nodeHash(e, f)]
        BY <4>2, <4>3, <4>4
      <4> QED BY <4>1, <4>5
    <3>9. i + 1 \in Nat /\ h >= i + 1
      <4>1. h \in 0..i => two[h] <= two[i]
        BY TwoGrows
      <4>2. two[h] \in Nat
        BY TwoIsPositive
      <4> QED BY <3>1, <3>2, <4>1, <4>2
    <3>10. levelsOf(s)[h] = <<nodeHash(e, f)>>
      BY <3>8, <3>9, OneStays
    <3> QED BY <2>1, <2>3, <3>10 DEF s
  <2> QED BY <2>2, <2>3
<1> HIDE DEF T
<1>2. \A n \in Nat : n \in T
  BY <1>1, SetInduction
<1> QED BY <1>2 DEF T

-----------------------------------------------------------------------------
(* The tree as it grows.                                                   *)

\* The invariant: a list of leaves within the bound.
LeavesOK == leaves \in Seq(Leaf) /\ Len(leaves) <= MaxLeaf

\* A leaf that VerifyProof accepts against the root of a list is in it, at that place.
LEMMA ProofsStand ==
    ASSUME NEW d \in Seq(Leaf), NEW proof, Len(proof) \in Nat, NEW x, NEW i \in Nat,
           VerifyProof(x, i, Len(d), proof, Root(d))
    PROVE  i \in 0..(Len(d) - 1) /\ x = d[i + 1]
<1> DEFINE n == Len(d)
<1>1. n \in Nat /\ d \in [1..n -> Leaf] /\ i \in 0..(n - 1) /\ Len(proof) \in 0..Len(proof)
  BY DEF VerifyProof
<1>2. rootOf[n][d] \in upOf(leafHash(x), proof)[n][<<i, Len(proof)>>]
  BY DEF VerifyProof, rootFromProof, Root
<1> HIDE DEF n
<1>3. leafHash(x) = leafHash(d[i + 1])
  BY <1>1, <1>2, ProofsSound
<1>4. x = d[i + 1]
  BY <1>3, LeafBinds
<1> QED BY <1>1, <1>4 DEF n

\* VerifyProof: against the root of a list, at any index and with any hashes as a proof,
\* made by Proof or not, only the leaf at that index verifies.
THEOREM NothingElseVerifies ==
    \A d \in Seq(Leaf), i \in Nat : \A x, proof :
        Len(proof) \in Nat /\ VerifyProof(x, i, Len(d), proof, Root(d))
            => i \in 0..(Len(d) - 1) /\ x = d[i + 1]
BY ProofsStand

\* What Proof returns for a leaf verifies for it.
LEMMA OwnProofVerifies ==
    ASSUME NEW d \in Seq(Leaf), NEW m \in 0..(Len(d) - 1)
    PROVE  /\ Len(path(m, d)) \in Nat
           /\ VerifyProof(d[m + 1], m, Len(d), path(m, d), Root(d))
<1> DEFINE n == Len(d)
           p == pathOf[n][<<m, d>>]
<1>1. n \in Nat /\ d \in [1..n -> Leaf] /\ m \in 0..(n - 1)
  OBVIOUS
<1>2. p = path(m, d)
  BY DEF path
<1>3. PICK S : p \in Seq(S)
  <2> HIDE DEF n
  <2> QED BY <1>1, PathIsSequence
<1>4. Len(p) \in Nat
  <2> HIDE DEF p
  <2> QED BY <1>3
<1>5. rootOf[n][d] \in upOf(leafHash(d[m + 1]), p)[n][<<m, Len(p)>>]
  <2> HIDE DEF n
  <2>1. Len(p) <= Len(p) /\ \A j \in 1..Len(p) : p[j] = p[j]
    <3> HIDE DEF p
    <3> QED BY <1>4
  <2> QED BY <1>1, <1>4, <2>1, ProofsComplete
<1>6. m < n
  BY <1>1
<1>7. VerifyProof(d[m + 1], m, Len(d), p, Root(d))
  <2> HIDE DEF p
  <2> QED BY <1>5, <1>6 DEF VerifyProof, rootFromProof, Root
<1> HIDE DEF p
<1> QED BY <1>2, <1>4, <1>7

\* TreeIsSound holds of every list, however it came about.
LEMMA LeavesSound == LeavesOK => TreeIsSound
<1> SUFFICES ASSUME LeavesOK PROVE TreeIsSound
  OBVIOUS
<1> USE DEF LeavesOK
<1>1. ProofsBind
  <2> SUFFICES ASSUME NEW m \in 0..(Len(leaves) - 1)
               PROVE  LET holds(x, i) ==
                              VerifyProof(x, i, Len(leaves), path(m, leaves), Root(leaves))
                      IN  /\ holds(leaves[m + 1], m)
                          /\ \A x \in Leaf, i \in 0..MaxLeaf :
                                holds(x, i) => i \in Index /\ x = leaves[i + 1]
    BY DEF ProofsBind, Index
  <2>1. /\ Len(path(m, leaves)) \in Nat
        /\ VerifyProof(leaves[m + 1], m, Len(leaves), path(m, leaves), Root(leaves))
    BY OwnProofVerifies
  <2>2. ASSUME NEW x \in Leaf, NEW i \in 0..MaxLeaf,
               VerifyProof(x, i, Len(leaves), path(m, leaves), Root(leaves))
        PROVE  i \in Index /\ x = leaves[i + 1]
    BY <2>1, <2>2, ProofsStand DEF Index
  <2> QED BY <2>1, <2>2
<1>2. RootBinds
  <2> SUFFICES ASSUME NEW n \in 0..Len(leaves), NEW d \in [1..n -> Leaf],
                      Root(d) = Root(leaves)
               PROVE  d = leaves
    BY DEF RootBinds
  <2>1. n \in Nat /\ Len(leaves) \in Nat /\ Len(d) = n /\ leaves \in [1..Len(leaves) -> Leaf]
    <3>1. leaves \in Seq(Leaf) /\ Len(leaves) \in Nat /\ leaves \in [1..Len(leaves) -> Leaf]
      OBVIOUS
    <3>2. n \in Nat
      BY <3>1
    <3>3. Len(d) = n
      BY <3>2
    <3> QED BY <3>1, <3>2, <3>3
  <2>2. rootOf[n][d] = rootOf[Len(leaves)][leaves]
    BY <2>1 DEF Root
  <2> QED BY <2>1, <2>2, RootsApart
<1>3. RootIsPairwise
  <2> DEFINE n == Len(leaves)
  <2> SUFFICES ASSUME leaves # <<>>
               PROVE  levelsOf(leafHashes(leaves))[n] = <<Root(leaves)>>
    BY DEF RootIsPairwise
  <2>1. n \in Nat \ {0} /\ leaves \in [1..n -> Leaf]
    OBVIOUS
  <2>2. leafHashes(leaves) = hashesOf(n, leaves) /\ Root(leaves) = rootOf[n][leaves]
    BY DEF leafHashes, hashesOf, Root
  <2> HIDE DEF n
  <2>3. n <= two[n]
    BY <2>1, TwoIsPositive
  <2> QED BY <2>1, <2>2, <2>3, RootPairwise
<1> QED BY <1>1, <1>2, <1>3 DEF TreeIsSound

\* Root, Proof and VerifyProof at every size, in the trees of the run and beyond its
\* bound: proofs bind a row to its place, a root stands for its rows and no others, and
\* it is the root of the tree that is built pairwise.
THEOREM TreesAreSound == MerkleSpec => []TreeIsSound
<1>1. MerkleInit => LeavesOK
  BY MaxLeafAssumption DEF MerkleInit, LeavesOK
<1>2. LeavesOK /\ [MerkleNext]_leaves => LeavesOK'
  BY MaxLeafAssumption DEF LeavesOK, MerkleNext
<1> QED BY <1>1, <1>2, LeavesSound, PTL DEF MerkleSpec
=============================================================================
