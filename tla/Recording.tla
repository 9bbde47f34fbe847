------------------------------ MODULE Recording ------------------------------
(***************************************************************************)
(* Recording control plane of one session: the consent gate, the rows of   *)
(* the recordings table, the LiveKit egresses they stand for, the          *)
(* reconciliation that a consent change triggers, and the egress webhooks. *)
(*                                                                         *)
(* A request takes one action per database statement or LiveKit call.      *)
(* LiveKit is external: it accepts or refuses an egress, runs it, stops it *)
(* when asked, and posts a webhook for every change of state; webhooks are *)
(* delivered in any order, and more than once.                             *)
(*                                                                         *)
(* The egress that a recording's Start asked for is identified with the    *)
(* recording's id.  Sessions do not interact: the one thing they share is  *)
(* the coarse capacity, whose refusal, like that of the per-host rate      *)
(* limit, leaves no trace.  Ending a session does not touch its recordings *)
(* and its host may start it again, so whether it has ended only decides   *)
(* which requests are refused: refusals that change nothing are not steps. *)
(***************************************************************************)
EXTENDS Naturals

CONSTANTS
    Person,     \* people who may take part
    Host,       \* the participant with role host
    Rec,        \* recording ids, each with its egress
    Handler,    \* concurrently running requests of people
    Courier,    \* concurrently running webhook deliveries
    CallsFail,  \* whether calls time out, fail or are cut short
    Unnamed,    \* states of an egress that LiveKit may report by a name unknown here
    NULL

ASSUME HostAssumption == Host \in Person
ASSUME CallsFailAssumption == CallsFail \in BOOLEAN
ASSUME UnnamedAssumption == Unnamed \subseteq {"STARTING", "ACTIVE"}
ASSUME NullAssumption == NULL \notin Rec
ASSUME CourierAssumption == Handler \cap Courier = {}

VARIABLES
    participants, \* people with a session_participants row
    present,      \* ... and left_at IS NULL
    consent,      \* latest session_recording decision of each person
    rstatus,      \* recordings.status, "none" before the row exists
    linked,       \* recordings with egress_id set
    egress,       \* LiveKit's state of the egress
    seen,         \* events in the webhook endpoint's replay cache
    pc,           \* next step of each request
    hRec,         \* recording it works on
    hEgress,      \* egress id in the row it read, NULL if empty
    hStat         \* status LiveKit gave it

sessionVars == <<participants, present, consent>>
rowVars == <<rstatus, linked>>
localVars == <<hRec, hEgress, hStat>>
vars == <<sessionVars, rowVars, egress, seen, pc, localVars>>

InFlightStatus == {"starting", "active", "stopping"}
TerminalStatus == {"completed", "failed", "aborted"}
EgressStatus == {"STARTING", "ACTIVE", "ENDING", "COMPLETE", "FAILED", "ABORTED"}
\* What LiveKit may report: "OTHER" stands for a status the code does not know.
Report == EgressStatus \cup {"OTHER"}
Request == Handler \cup Courier
Event == [rec : Rec, status : Report]

Step == {"idle",
         "gate",      \* Start: host checked, RecordingAllowed next
         "create",    \* Start: CreateRecording next
         "egress",    \* Start: StartRoomComposite next
         "link",      \* Start: SetRecordingEgress next
         "fail",      \* Start: UpdateRecordingStatus(failed) next
         "find",      \* Stop: ActiveRecording next
         "reconcile", \* ReconcileForSession: ActiveRecording next
         "recheck",   \* ReconcileForSession: RecordingAllowed next
         "stop",      \* stop: abort locally or StopEgress
         "stopped",   \* stop: UpdateRecordingStatus next
         "apply"}     \* webhook: UpdateRecordingStatus next

TypeOK ==
    /\ participants \subseteq Person
    /\ present \subseteq participants
    /\ consent \in [Person -> BOOLEAN]
    /\ rstatus \in [Rec -> {"none"} \cup InFlightStatus \cup TerminalStatus]
    /\ linked \subseteq Rec
    /\ egress \in [Rec -> {"none"} \cup EgressStatus]
    /\ seen \subseteq Event
    /\ pc \in [Request -> Step]
    /\ hRec \in [Request -> Rec \cup {NULL}]
    /\ hEgress \in [Request -> Rec \cup {NULL}]
    /\ hStat \in [Request -> Report \cup {"none"}]

Init ==
    /\ participants = {}
    /\ present = {}
    /\ consent = [p \in Person |-> FALSE]
    /\ rstatus = [r \in Rec |-> "none"]
    /\ linked = {}
    /\ egress = [r \in Rec |-> "none"]
    /\ seen = {}
    /\ pc = [h \in Request |-> "idle"]
    /\ hRec = [h \in Request |-> NULL]
    /\ hEgress = [h \in Request |-> NULL]
    /\ hStat = [h \in Request |-> "none"]

-----------------------------------------------------------------------------
\* Mutant: an egress that is still writing its file counts as completed.
mapStatusEager(lk) ==
    CASE lk = "STARTING" -> "starting"
      [] lk = "ACTIVE"   -> "active"
      [] lk = "ENDING"   -> "completed"
      [] lk = "COMPLETE" -> "completed"
      [] lk = "FAILED"   -> "failed"
      [] lk = "ABORTED"  -> "aborted"
      [] OTHER           -> "active"

\* EGRESS_LIMIT_REACHED maps as ABORTED does.
mapStatus(lk) ==
    CASE lk = "STARTING" -> "starting"
      [] lk = "ACTIVE"   -> "active"
      [] lk = "ENDING"   -> "stopping"
      [] lk = "COMPLETE" -> "completed"
      [] lk = "FAILED"   -> "failed"
      [] lk = "ABORTED"  -> "aborted"
      [] OTHER           -> "active"

isTerminal(s) == s \in TerminalStatus
InFlight(r) == rstatus[r] \in InFlightStatus
Running(r) == egress[r] \in {"STARTING", "ACTIVE"}

\* Every present participant's latest decision is a grant, and somebody is there.
RecordingAllowed == present # {} /\ \A p \in present : consent[p]

\* Mutant: the WHERE clause that keeps terminal rows is missing.
UpdateRecordingStatusAlways(r, s) == rstatus' = [rstatus EXCEPT ![r] = s]

\* UPDATE recordings SET status ... AND status NOT IN (terminal)
UpdateRecordingStatus(r, s) ==
    rstatus' = [rstatus EXCEPT ![r] = IF isTerminal(@) THEN @ ELSE s]

\* Mutant: no partial unique index.
IndexAllowsAny(r, s) == TRUE

\* recordings_one_active_idx: row r may have status s.
IndexAllows(r, s) ==
    s \in InFlightStatus => \A q \in Rec \ {r} : ~InFlight(q)

Goto(h, s) == pc' = [pc EXCEPT ![h] = s]

Return(h) ==
    /\ Goto(h, "idle")
    /\ hRec' = [hRec EXCEPT ![h] = NULL]
    /\ hEgress' = [hEgress EXCEPT ![h] = NULL]
    /\ hStat' = [hStat EXCEPT ![h] = "none"]

\* How far an egress in a state has come.
Phase(s) ==
    CASE s = "none"     -> 0
      [] s = "STARTING" -> 1
      [] s = "ACTIVE"   -> 2
      [] s = "ENDING"   -> 3
      [] OTHER          -> 4

\* What LiveKit may say of an egress: its state; of one that is live, perhaps by a name
\* the code does not know.
Reported(s) == IF s \in Unnamed THEN {s, "OTHER"} ELSE {s}

\* LiveKit posts a webhook for every state an egress comes to, and may deliver
\* it at any later time.
Sent(e) ==
    \E s \in EgressStatus :
        /\ e.status \in Reported(s)
        /\ s = egress[e.rec] \/ Phase(s) < Phase(egress[e.rec])

-----------------------------------------------------------------------------
(* The session                                                             *)

\* CreateSession adds its host in a statement of its own, Join anybody else; a
\* row once left cannot be inserted again.
Join(p) ==
    /\ p \notin participants
    /\ participants' = participants \cup {p}
    /\ present' = present \cup {p}
    /\ UNCHANGED <<consent, rowVars, egress, seen, pc, localVars>>

Leave(p) ==
    /\ p \in present
    /\ present' = present \ {p}
    /\ UNCHANGED <<participants, consent, rowVars, egress, seen, pc,
                   localVars>>

\* A grant or withdrawal is committed to the ledger; the same request then
\* fires the change hook, ReconcileForSession.
RecordConsent(h, p, granted) ==
    /\ pc[h] = "idle"
    /\ consent' = [consent EXCEPT ![p] = granted]
    /\ Goto(h, "reconcile")
    /\ UNCHANGED <<participants, present, rowVars, egress, seen,
                   localVars>>

-----------------------------------------------------------------------------
(* Start                                                                   *)

\* requireHostSession, for Start and for Stop.
HostRequest(h, s) ==
    /\ pc[h] = "idle"
    /\ Host \in present
    /\ Goto(h, s)
    /\ UNCHANGED <<sessionVars, rowVars, egress, seen, localVars>>

Start(h) == HostRequest(h, "gate")

StartGate(h) ==
    /\ pc[h] = "gate"
    /\ RecordingAllowed
    /\ Goto(h, "create")
    /\ UNCHANGED <<sessionVars, rowVars, egress, seen, localVars>>

\* ErrConsentRequired; the rate limit and the capacity refuse in the same way.
StartRefused(h) ==
    /\ pc[h] = "gate"
    /\ Goto(h, "idle")
    /\ UNCHANGED <<sessionVars, rowVars, egress, seen, localVars>>

CreateRecording(h, r) ==
    /\ pc[h] = "create"
    /\ rstatus[r] = "none"
    /\ IndexAllows(r, "starting")
    /\ rstatus' = [rstatus EXCEPT ![r] = "starting"]
    /\ hRec' = [hRec EXCEPT ![h] = r]
    /\ Goto(h, "egress")
    /\ UNCHANGED <<sessionVars, linked, egress, seen, hEgress, hStat>>

\* ErrAlreadyRecording, or no recording id left in this model.
CreateRefused(h) ==
    /\ pc[h] = "create"
    /\ \A r \in Rec : rstatus[r] = "none" => ~IndexAllows(r, "starting")
    /\ Return(h)
    /\ UNCHANGED <<sessionVars, rowVars, egress, seen>>

\* LiveKit answers with the state the egress is in by then, be it the last one.
EgressAccepted(h) ==
    /\ pc[h] = "egress"
    /\ \E s \in EgressStatus : \E answer \in Reported(s) :
         /\ egress' = [egress EXCEPT ![hRec[h]] = s]
         /\ hStat' = [hStat EXCEPT ![h] = answer]
    /\ Goto(h, "link")
    /\ UNCHANGED <<sessionVars, rowVars, seen, hRec, hEgress>>

\* The call fails: LiveKit refused, or the answer was lost after it accepted.
EgressFailed(h) ==
    /\ pc[h] = "egress"
    /\ \/ UNCHANGED egress
       \/ CallsFail /\ egress' = [egress EXCEPT ![hRec[h]] = "STARTING"]
    /\ Goto(h, "fail")
    /\ UNCHANGED <<sessionVars, rowVars, seen, localVars>>

\* The row of the failed call makes room for another recording.
StartFailed(h) ==
    /\ pc[h] = "fail"
    /\ UpdateRecordingStatus(hRec[h], "failed")
    /\ Return(h)
    /\ UNCHANGED <<sessionVars, linked, egress, seen>>

\* No terminal guard here: only the unique index can refuse the write.
SetRecordingEgress(h) ==
    /\ pc[h] = "link"
    /\ IndexAllows(hRec[h], mapStatus(hStat[h]))
    /\ rstatus' = [rstatus EXCEPT ![hRec[h]] = mapStatus(hStat[h])]
    /\ linked' = linked \cup {hRec[h]}
    /\ Return(h)
    /\ UNCHANGED <<sessionVars, egress, seen>>

LinkRefused(h) ==
    /\ pc[h] = "link"
    /\ ~IndexAllows(hRec[h], mapStatus(hStat[h]))
    /\ Return(h)
    /\ UNCHANGED <<sessionVars, rowVars, egress, seen>>

-----------------------------------------------------------------------------
(* Stop and ReconcileForSession                                            *)

Stop(h) == HostRequest(h, "find")

\* ActiveRecording: the row in flight, as it is now.
ActiveRecording(h, next) ==
    \/ /\ \E r \in Rec :
            /\ InFlight(r)
            /\ hRec' = [hRec EXCEPT ![h] = r]
            /\ hEgress' = [hEgress EXCEPT ![h] = IF r \in linked THEN r ELSE NULL]
       /\ Goto(h, next)
       /\ UNCHANGED hStat
    \/ /\ \A r \in Rec : ~InFlight(r)
       /\ Return(h)

StopFind(h) ==
    /\ pc[h] = "find"
    /\ ActiveRecording(h, "stop")
    /\ UNCHANGED <<sessionVars, rowVars, egress, seen>>

ReconcileFind(h) ==
    /\ pc[h] = "reconcile"
    /\ ActiveRecording(h, "recheck")
    /\ UNCHANGED <<sessionVars, rowVars, egress, seen>>

ReconcileKeep(h) ==
    /\ pc[h] = "recheck"
    /\ RecordingAllowed
    /\ Return(h)
    /\ UNCHANGED <<sessionVars, rowVars, egress, seen>>

ReconcileStop(h) ==
    /\ pc[h] = "recheck"
    /\ ~RecordingAllowed
    /\ Goto(h, "stop")
    /\ UNCHANGED <<sessionVars, rowVars, egress, seen, localVars>>

\* The row read had no egress id: it is aborted locally.
StopLocally(h) ==
    /\ pc[h] = "stop"
    /\ hEgress[h] = NULL
    /\ UpdateRecordingStatus(hRec[h], "aborted")
    /\ Return(h)
    /\ UNCHANGED <<sessionVars, linked, egress, seen>>

\* Mutant: the row is moved to stopping and LiveKit is not asked.
StopEgressSkipped(h) ==
    /\ pc[h] = "stop"
    /\ hEgress[h] # NULL
    /\ egress[hRec[h]] \in {"STARTING", "ACTIVE", "ENDING"}
    /\ hStat' = [hStat EXCEPT ![h] = "ENDING"]
    /\ Goto(h, "stopped")
    /\ UNCHANGED <<sessionVars, rowVars, egress, seen, hRec, hEgress>>

\* LiveKit ends a live egress and answers with its state, which may be the last one.
StopEgress(h) ==
    /\ pc[h] = "stop"
    /\ hEgress[h] # NULL
    /\ egress[hRec[h]] \in {"STARTING", "ACTIVE", "ENDING"}
    /\ \E s \in {"ENDING", "COMPLETE", "FAILED", "ABORTED"} :
         /\ egress' = [egress EXCEPT ![hRec[h]] = s]
         /\ hStat' = [hStat EXCEPT ![h] = s]
    /\ Goto(h, "stopped")
    /\ UNCHANGED <<sessionVars, rowVars, seen, hRec, hEgress>>

\* LiveKit answers with an error for an egress that is over, or the call fails;
\* the row is left as it is.
StopEgressError(h) ==
    /\ pc[h] = "stop"
    /\ hEgress[h] # NULL
    /\ CallsFail \/ egress[hRec[h]] \notin {"STARTING", "ACTIVE", "ENDING"}
    /\ Return(h)
    /\ UNCHANGED <<sessionVars, rowVars, egress, seen>>

StopRecord(h) ==
    /\ pc[h] = "stopped"
    /\ UpdateRecordingStatus(hRec[h], mapStatus(hStat[h]))
    /\ Return(h)
    /\ UNCHANGED <<sessionVars, linked, egress, seen>>

-----------------------------------------------------------------------------
(* Webhooks                                                                *)

\* The endpoint remembers a delivery it has dealt with.  A cache whose entries
\* may expire before the next delivery, or be lost in a restart, is no cache.
rememberWebhook(e) == seen' = IF CallsFail THEN {} ELSE seen \cup {e}

\* A delivery that is not in the replay cache: an unknown egress id and a row
\* already terminal are acknowledged with nothing done ...
HookIgnore(h, e) ==
    /\ pc[h] = "idle"
    /\ e \notin seen
    /\ Sent(e)
    /\ e.rec \notin linked \/ isTerminal(rstatus[e.rec])
    /\ rememberWebhook(e)
    /\ UNCHANGED <<sessionVars, rowVars, egress, pc, localVars>>

\* ... any other is applied, the row having been read first.
HookRead(h, e) ==
    /\ pc[h] = "idle"
    /\ e \notin seen
    /\ Sent(e)
    /\ e.rec \in linked
    /\ ~isTerminal(rstatus[e.rec])
    /\ hRec' = [hRec EXCEPT ![h] = e.rec]
    /\ hStat' = [hStat EXCEPT ![h] = e.status]
    /\ Goto(h, "apply")
    /\ UNCHANGED <<sessionVars, rowVars, egress, seen, hEgress>>

\* Mutant: the end of an egress is not acted on, as if stop had recorded it.
HookApplyLive(h) ==
    /\ pc[h] = "apply"
    /\ IF isTerminal(mapStatus(hStat[h]))
       THEN UNCHANGED rstatus
       ELSE UpdateRecordingStatus(hRec[h], mapStatus(hStat[h]))
    /\ rememberWebhook([rec |-> hRec[h], status |-> hStat[h]])
    /\ Return(h)
    /\ UNCHANGED <<sessionVars, linked, egress>>

HookApply(h) ==
    /\ pc[h] = "apply"
    /\ UpdateRecordingStatus(hRec[h], mapStatus(hStat[h]))
    /\ rememberWebhook([rec |-> hRec[h], status |-> hStat[h]])
    /\ Return(h)
    /\ UNCHANGED <<sessionVars, linked, egress>>

-----------------------------------------------------------------------------
(* LiveKit and failure                                                     *)

\* An egress gets going, winds down (the room emptied), finishes or breaks.
EgressProgress(r) ==
    /\ egress[r] \in {"STARTING", "ACTIVE", "ENDING"}
    /\ \E s \in EgressStatus :
         /\ s \in {"FAILED", "ABORTED"} \/ Phase(s) = Phase(egress[r]) + 1
         /\ egress' = [egress EXCEPT ![r] = s]
    /\ UNCHANGED <<sessionVars, rowVars, seen, pc, localVars>>

\* A statement fails, the client goes away or the process dies.
Abort(h) ==
    /\ CallsFail
    /\ pc[h] # "idle"
    /\ Return(h)
    /\ UNCHANGED <<sessionVars, rowVars, egress, seen>>

-----------------------------------------------------------------------------
\* The steps a running request takes by itself.
Advance(h) ==
    \/ StartGate(h)
    \/ StartRefused(h)
    \/ \E r \in Rec : CreateRecording(h, r)
    \/ CreateRefused(h)
    \/ EgressAccepted(h)
    \/ EgressFailed(h)
    \/ StartFailed(h)
    \/ SetRecordingEgress(h)
    \/ LinkRefused(h)
    \/ StopFind(h)
    \/ ReconcileFind(h)
    \/ ReconcileKeep(h)
    \/ ReconcileStop(h)
    \/ StopLocally(h)
    \/ StopEgress(h)
    \/ StopEgressError(h)
    \/ StopRecord(h)

\* A webhook is delivered.
Deliver(h) ==
    \/ \E e \in Event : HookIgnore(h, e) \/ HookRead(h, e)
    \/ HookApply(h)

Next ==
    \/ \E h \in Handler :
         \/ Advance(h) \/ Start(h) \/ Stop(h)
         \/ \E p \in Person : RecordConsent(h, p, TRUE) \/ RecordConsent(h, p, FALSE)
    \/ \E h \in Courier : Deliver(h)
    \/ \E h \in Request : Abort(h)
    \/ \E p \in Person : Join(p) \/ Leave(p)
    \/ \E r \in Rec : EgressProgress(r)

Spec == Init /\ [][Next]_vars

\* A running request goes on, and LiveKit keeps posting an event until it is
\* acknowledged.
Fairness ==
    /\ \A h \in Handler : WF_vars(Advance(h))
    /\ \A h \in Courier : WF_vars(Deliver(h))

FairSpec == Spec /\ Fairness

-----------------------------------------------------------------------------
(* Properties                                                              *)

(***************************************************************************)
(* One recording in flight: starts, revivals of rows aborted meanwhile,    *)
(* webhooks and stops never leave two rows in flight for the session, so   *)
(* ActiveRecording, on which stop and reconciliation rest, has one answer. *)
(***************************************************************************)
OneInFlight ==
    \A q, r \in Rec : InFlight(q) /\ InFlight(r) => q = r

(***************************************************************************)
(* What the listing and playback endpoints may serve: a row says completed *)
(* only when its egress has completed, whatever late, replayed or          *)
(* reordered webhooks and concurrent stops did to it.                      *)
(***************************************************************************)
CompletedIsReal ==
    \A r \in Rec : rstatus[r] = "completed" => egress[r] = "COMPLETE"

(***************************************************************************)
(* From the moment the row carries its egress id, a terminal status is     *)
(* final: no webhook or stop that read the row before reopens it.          *)
(***************************************************************************)
LinkedTerminalIsFinal ==
    [][\A r \in linked :
          isTerminal(rstatus[r]) => rstatus'[r] = rstatus[r]]_vars

(***************************************************************************)
(* The inductive strengthening: a request that asks for an egress owns its *)
(* row, which has no egress id yet; whoever is about to complete a row saw *)
(* its egress complete, and a complete egress changes no more.             *)
(***************************************************************************)
StartersOwn ==
    /\ \A h \in Request :
         /\ pc[h] \in {"egress", "fail", "link", "stop", "stopped", "recheck", "apply"}
              => hRec[h] \in Rec /\ rstatus[hRec[h]] # "none"
         /\ pc[h] \in {"egress", "link"} => hRec[h] \notin linked
         /\ pc[h] = "egress" => egress[hRec[h]] = "none"
    /\ \A g, h \in Request :
         pc[g] \in {"egress", "link"} /\ pc[h] \in {"egress", "link"}
             /\ hRec[g] = hRec[h] => g = h

RowsInv ==
    \A r \in Rec : rstatus[r] = "none" => r \notin linked /\ egress[r] = "none"

\* What LiveKit has told a request about to write a status.
ReportsInv ==
    \A h \in Request :
        pc[h] \in {"link", "stopped", "apply"} =>
            /\ hStat[h] \in Report
            /\ hStat[h] = "COMPLETE" => egress[hRec[h]] = "COMPLETE"

IInv == TypeOK /\ OneInFlight /\ CompletedIsReal /\ StartersOwn /\ RowsInv /\ ReportsInv

\* A request that read r without an egress id may still abort it locally.
LocalAbortPending(r) ==
    \E h \in Handler :
        hRec[h] = r /\ hEgress[h] = NULL /\ pc[h] \in {"recheck", "stop"}

(***************************************************************************)
(* Stop on withdrawal: when a consent change is committed while a          *)
(* recording is in flight with its egress known, and no request has read   *)
(* the row without it, the egress is stopped or the present participants   *)
(* all consent (again).                                                    *)
(***************************************************************************)
ReconcileStopsLinked ==
    \A h \in Handler, r \in Rec :
        pc[h] = "reconcile" /\ r \in linked /\ InFlight(r)
              /\ ~LocalAbortPending(r)
            ~> ~Running(r) \/ RecordingAllowed

(***************************************************************************)
(* The row of an egress that was live when its id was recorded reaches a   *)
(* terminal status once the egress is over, in whatever order its webhooks *)
(* arrive.                                                                 *)
(***************************************************************************)
LinkedRowsSettle ==
    \A r \in Rec :
        []((r \in linked /\ Running(r)) =>
             [](~Running(r) /\ egress[r] # "ENDING" =>
                  <>isTerminal(rstatus[r])))

(***************************************************************************)
(* What comments of the code say of the same operations.                   *)
(***************************************************************************)

\* "The Egress recording gate [...] must stop - when the latest effective record is
\* Granted=false (D-2)": the withdrawal of somebody who was there, and consented,
\* while the egress ran already; it is followed by a reconciliation (RecordConsent).
WithdrawalStops ==
    \A p \in Person, r \in Rec :
        []( Running(r) /\ p \in present /\ consent[p] =>
            []( Running(r) /\ p \in present /\ ~consent[p] =>
                <>(~Running(r) \/ p \notin present \/ consent[p]) ) )
=============================================================================
