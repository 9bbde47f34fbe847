----------------------------- MODULE AuditChain -----------------------------
(***************************************************************************)
(* The audit log and its writers.  An audited action is one transaction:   *)
(* it changes the rows of its target, locking them one by one and holding  *)
(* those it has while it waits for the next, takes the advisory lock of    *)
(* the log, reads the newest entry's hash, signs (a remote call), inserts  *)
(* and commits.  The consent ledger is a second log written by the same    *)
(* steps under a lock of its own, with no target rows; an entry that only  *)
(* records something (a playback, a checkpoint) has no target rows either. *)
(*                                                                         *)
(* seq is a bigserial: its value is taken when the row is inserted, before *)
(* the commit that makes the row visible, and is lost when the transaction *)
(* rolls back.                                                             *)
(***************************************************************************)
EXTENDS Naturals, Sequences, FiniteSets

CONSTANTS
    Writer,   \* concurrent transactions
    Entry,    \* entry hashes, one for each attempt that may commit
    Target,   \* rows that audited actions change
    MaxSeq,   \* bound: values of the sequence that transactions may draw
    Genesis,  \* GenesisHash()
    NULL

ASSUME WriterAssumption == NULL \notin Writer
ASSUME EntryAssumption == Genesis \notin Entry /\ NULL \notin Entry
ASSUME MaxSeqAssumption == MaxSeq \in Nat

VARIABLES
    log,       \* committed rows, in the order of their commits
    nextSeq,   \* the bigserial
    chainLock, \* the writer that holds the advisory lock
    rowLock,   \* the writer that has changed a target's row
    pc, hEntry, hPrev, hSeq,
    hTodo      \* rows of its target that a writer has not locked yet

localVars == <<hEntry, hPrev, hSeq, hTodo>>
vars == <<log, nextSeq, chainLock, rowLock, pc, localVars>>

Row == [hash : Entry, prev : Entry \cup {Genesis}, seq : Nat]

Step == {"idle", "rows", "lock", "tail", "insert", "commit"}

TypeOK ==
    /\ log \in Seq(Row)
    /\ nextSeq \in Nat
    /\ chainLock \in Writer \cup {NULL}
    /\ rowLock \in [Target -> Writer \cup {NULL}]
    /\ pc \in [Writer -> Step]
    /\ hEntry \in [Writer -> Entry \cup {NULL}]
    /\ hPrev \in [Writer -> Entry \cup {Genesis}]
    /\ hSeq \in [Writer -> Nat]
    /\ hTodo \in [Writer -> SUBSET Target]

Init ==
    /\ log = <<>>
    /\ nextSeq = 1
    /\ chainLock = NULL
    /\ rowLock = [t \in Target |-> NULL]
    /\ pc = [w \in Writer |-> "idle"]
    /\ hEntry = [w \in Writer |-> NULL]
    /\ hPrev = [w \in Writer |-> Genesis]
    /\ hSeq = [w \in Writer |-> 0]
    /\ hTodo = [w \in Writer |-> {}]

-----------------------------------------------------------------------------
Goto(w, s) == pc' = [pc EXCEPT ![w] = s]

\* Mutant: the advisory lock belongs to the database session, which the pool
\* keeps, and not to the transaction.
EndTxKeepsLock(w) ==
    /\ rowLock' = [t \in Target |-> IF rowLock[t] = w THEN NULL ELSE rowLock[t]]
    /\ UNCHANGED chainLock
    /\ Goto(w, "idle")
    /\ hEntry' = [hEntry EXCEPT ![w] = NULL]
    /\ hPrev' = [hPrev EXCEPT ![w] = Genesis]
    /\ hSeq' = [hSeq EXCEPT ![w] = 0]
    /\ hTodo' = [hTodo EXCEPT ![w] = {}]

\* Commit or rollback frees the row locks and the advisory lock.
EndTx(w) ==
    /\ rowLock' = [t \in Target |-> IF rowLock[t] = w THEN NULL ELSE rowLock[t]]
    /\ chainLock' = IF chainLock = w THEN NULL ELSE chainLock
    /\ Goto(w, "idle")
    /\ hEntry' = [hEntry EXCEPT ![w] = NULL]
    /\ hPrev' = [hPrev EXCEPT ![w] = Genesis]
    /\ hSeq' = [hSeq EXCEPT ![w] = 0]
    /\ hTodo' = [hTodo EXCEPT ![w] = {}]

\* The content of every entry is its own.
Fresh(e) ==
    /\ \A i \in DOMAIN log : log[i].hash # e
    /\ \A w \in Writer : hEntry[w] # e

\* The sequence has a value left for one more transaction.
Undrawn == {w \in Writer : pc[w] \in {"rows", "lock", "tail", "insert"}}
RoomForEntry == nextSeq + Cardinality(Undrawn) <= MaxSeq

\* A transaction that is to change the rows T of its target.
Begin(w, e, T) ==
    /\ pc[w] = "idle"
    /\ Fresh(e)
    /\ RoomForEntry
    /\ hEntry' = [hEntry EXCEPT ![w] = e]
    /\ hTodo' = [hTodo EXCEPT ![w] = T]
    /\ Goto(w, "rows")
    /\ UNCHANGED <<log, nextSeq, chainLock, rowLock, hPrev, hSeq>>

\* mutate waits for other writers of a row and keeps it to the end, in an order that
\* statements and query plans choose.
Mutate(w, t) ==
    /\ pc[w] = "rows"
    /\ t \in hTodo[w]
    /\ rowLock[t] = NULL
    /\ rowLock' = [rowLock EXCEPT ![t] = w]
    /\ hTodo' = [hTodo EXCEPT ![w] = @ \ {t}]
    /\ UNCHANGED <<log, nextSeq, chainLock, pc, hEntry, hPrev, hSeq>>

\* All of the target's rows are changed.
Mutated(w) ==
    /\ pc[w] = "rows"
    /\ hTodo[w] = {}
    /\ Goto(w, "lock")
    /\ UNCHANGED <<log, nextSeq, chainLock, rowLock, localVars>>

\* Mutant: no pg_advisory_xact_lock.
TakeLockFree(w) ==
    /\ pc[w] = "lock"
    /\ Goto(w, "tail")
    /\ UNCHANGED <<log, nextSeq, chainLock, rowLock, localVars>>

TakeLock(w) ==
    /\ pc[w] = "lock"
    /\ chainLock = NULL
    /\ chainLock' = w
    /\ Goto(w, "tail")
    /\ UNCHANGED <<log, nextSeq, rowLock, localVars>>

\* SELECT entry_hash FROM audit_log ORDER BY seq DESC LIMIT 1
IsTail(e) ==
    \/ log = <<>> /\ e = Genesis
    \/ \E i \in DOMAIN log :
         log[i].hash = e /\ \A j \in DOMAIN log : log[j].seq <= log[i].seq

\* Mutant: the oldest entry is read (ORDER BY seq).
ReadTailOldest(w) ==
    /\ pc[w] = "tail"
    /\ hPrev' = [hPrev EXCEPT ![w] = IF log = <<>> THEN Genesis ELSE log[1].hash]
    /\ Goto(w, "insert")
    /\ UNCHANGED <<log, nextSeq, chainLock, rowLock, hEntry, hSeq, hTodo>>

ReadTail(w) ==
    /\ pc[w] = "tail"
    /\ \E e \in Entry \cup {Genesis} :
         IsTail(e) /\ hPrev' = [hPrev EXCEPT ![w] = e]
    /\ Goto(w, "insert")
    /\ UNCHANGED <<log, nextSeq, chainLock, rowLock, hEntry, hSeq, hTodo>>

\* The entry is hashed, signed and inserted.
Insert(w) ==
    /\ pc[w] = "insert"
    /\ hSeq' = [hSeq EXCEPT ![w] = nextSeq]
    /\ nextSeq' = nextSeq + 1
    /\ Goto(w, "commit")
    /\ UNCHANGED <<log, chainLock, rowLock, hEntry, hPrev, hTodo>>

Commit(w) ==
    /\ pc[w] = "commit"
    /\ log' = Append(log, [hash |-> hEntry[w], prev |-> hPrev[w], seq |-> hSeq[w]])
    /\ EndTx(w)
    /\ UNCHANGED nextSeq

\* Signing or a statement fails, or the process dies: everything rolls back
\* but the sequence.
Abort(w) ==
    /\ pc[w] # "idle"
    /\ EndTx(w)
    /\ UNCHANGED <<log, nextSeq>>

Advance(w) ==
    \/ \E t \in Target : Mutate(w, t)
    \/ Mutated(w) \/ TakeLock(w) \/ ReadTail(w) \/ Insert(w) \/ Commit(w)

Next ==
    \E w \in Writer :
        \/ Advance(w)
        \/ Abort(w)
        \/ \E e \in Entry, T \in SUBSET Target : Begin(w, e, T)

Spec == Init /\ [][Next]_vars

\* The writers whose locks keep w from its next step.
Blockers(w) ==
    {v \in Writer \ {w} :
        \/ /\ pc[w] = "rows"
           /\ \A t \in hTodo[w] : rowLock[t] # NULL
           /\ \E t \in hTodo[w] : rowLock[t] = v
        \/ pc[w] = "lock" /\ chainLock = v}

\* w is in a set of writers that all wait for each other.
Deadlocked(w) ==
    \E D \in SUBSET Writer :
        /\ w \in D
        /\ \A v \in D : Blockers(v) # {} /\ Blockers(v) \subseteq D

\* A transaction goes on; Postgres queues the waiters of a lock, and fails a waiter
\* that it finds in a deadlock.  Nothing else obliges a transaction to fail.
Fairness == \A w \in Writer : SF_vars(Advance(w) \/ (Deadlocked(w) /\ Abort(w)))

FairSpec == Spec /\ Fairness

-----------------------------------------------------------------------------
(* Properties                                                              *)

(***************************************************************************)
(* VerifyChain accepts the table as AuditEntries returns it, in the order  *)
(* of seq: every entry names the one with the next smaller seq, gaps and   *)
(* rolled-back neighbours notwithstanding, and the first names genesis.    *)
(***************************************************************************)
ChainVerifies ==
    \A i \in DOMAIN log :
        \/ /\ log[i].prev = Genesis
           /\ \A j \in DOMAIN log : log[j].seq >= log[i].seq
        \/ \E k \in DOMAIN log :
             /\ log[k].hash = log[i].prev
             /\ log[k].seq < log[i].seq
             /\ \A j \in DOMAIN log :
                  log[j].seq <= log[k].seq \/ log[j].seq >= log[i].seq

(***************************************************************************)
(* seq orders the rows as they were committed, so the entry (or consent)   *)
(* with the greatest seq is the latest decision: EffectiveConsent and      *)
(* RecordingAllowed read it that way.                                      *)
(***************************************************************************)
SeqIsCommitOrder ==
    \A i, j \in DOMAIN log : i < j => log[i].seq < log[j].seq

(***************************************************************************)
(* The table implements an append-only log: concurrent transactions and    *)
(* failures show as single appends at the end, each naming its             *)
(* predecessor.                                                            *)
(***************************************************************************)
entries == [i \in DOMAIN log |-> [hash |-> log[i].hash, prev |-> log[i].prev]]

Ledger == INSTANCE AppendOnlyLog

ImplementsLedger == Ledger!Spec

(***************************************************************************)
(* Every audited action ends.  Its rows may put it into a circle of        *)
(* waiters, which Postgres breaks; whoever holds the advisory lock waits   *)
(* for no row, so the log is never part of one.                            *)
(***************************************************************************)
AppendsReturn == \A w \in Writer : pc[w] # "idle" ~> pc[w] = "idle"

(***************************************************************************)
(* The inductive strengthening: past TakeLock a writer is the only one, it *)
(* has seen the tail, and its seq is above all others.                     *)
(***************************************************************************)
Holding(w) == pc[w] \in {"tail", "insert", "commit"}

WritersInv ==
    \A w \in Writer :
        /\ pc[w] # "idle" => hEntry[w] \in Entry
        /\ Holding(w) => chainLock = w
        /\ pc[w] \in {"insert", "commit"} => hPrev[w] = Ledger!TailOf(log)
        /\ pc[w] = "commit" =>
             hSeq[w] < nextSeq /\ \A i \in DOMAIN log : log[i].seq < hSeq[w]

LogInv ==
    /\ \A i \in DOMAIN log :
         /\ log[i].seq < nextSeq
         /\ log[i].prev = IF i = 1 THEN Genesis ELSE log[i - 1].hash
    /\ SeqIsCommitOrder

IInv == TypeOK /\ WritersInv /\ LogInv
=============================================================================
