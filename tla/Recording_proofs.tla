-------------------------- MODULE Recording_proofs --------------------------
(***************************************************************************)
(* Proofs about Recording, for any people, recordings and numbers of       *)
(* concurrent requests and deliveries.                                     *)
(*                                                                         *)
(* IInv is inductive.  The request that created a row is the only one that *)
(* may give it an egress id, and until then the egress is not over: hence  *)
(* the one unguarded write of a status, SetRecordingEgress, never meets a  *)
(* finished egress, and never a row that already carries its id.           *)
(***************************************************************************)
EXTENDS Recording, TLAPS

\* The invariant holds in a session that was never recorded.
LEMMA InitIInv == Init => IInv
  <1> SUFFICES ASSUME Init PROVE IInv
    OBVIOUS
  <1>1. consent \in [Person -> BOOLEAN]
    BY Zenon DEF Init
  <1>2. TypeOK
    BY <1>1, HostAssumption DEF Init, TypeOK, Step
  <1> QED
    BY <1>2, NullAssumption
    DEF Init, IInv, InFlightStatus, OneInFlight, InFlight, CompletedIsReal,
        StartersOwn, RowsInv, ReportsInv

\* Every step, one case per action of the specification, keeps the invariant.
LEMMA NextIInv == IInv /\ [Next]_vars => IInv'
  <1> SUFFICES ASSUME IInv, [Next]_vars PROVE IInv'
    OBVIOUS
  <1> USE HostAssumption, NullAssumption, CourierAssumption
      DEF IInv, TypeOK, InFlightStatus, TerminalStatus, EgressStatus, Report, Event,
          Request, Step, OneInFlight, InFlight, CompletedIsReal, StartersOwn,
          RowsInv, ReportsInv, isTerminal, Goto, Return,
          sessionVars, rowVars, localVars, rememberWebhook
  <1>1. ASSUME NEW h \in Handler, StartGate(h) PROVE IInv'
    BY <1>1 DEF StartGate
  <1>2. ASSUME NEW h \in Handler, StartRefused(h) PROVE IInv'
    BY <1>2 DEF StartRefused
  <1>3. ASSUME NEW h \in Handler, NEW r \in Rec, CreateRecording(h, r)
        PROVE IInv'
    BY <1>3 DEF CreateRecording, IndexAllows
  <1>4. ASSUME NEW h \in Handler, CreateRefused(h) PROVE IInv'
    BY <1>4 DEF CreateRefused
  <1>5. ASSUME NEW h \in Handler, EgressAccepted(h) PROVE IInv'
    BY <1>5 DEF EgressAccepted, Reported
  <1>6. ASSUME NEW h \in Handler, EgressFailed(h) PROVE IInv'
    BY <1>6 DEF EgressFailed
  <1>6a. ASSUME NEW h \in Handler, StartFailed(h) PROVE IInv'
    BY <1>6a DEF StartFailed, UpdateRecordingStatus
  <1>7. ASSUME NEW h \in Handler, SetRecordingEgress(h) PROVE IInv'
    BY <1>7 DEF SetRecordingEgress, IndexAllows, mapStatus
  <1>8. ASSUME NEW h \in Handler, LinkRefused(h) PROVE IInv'
    BY <1>8 DEF LinkRefused
  <1>9. ASSUME NEW h \in Handler, StopFind(h) PROVE IInv'
    BY <1>9 DEF StopFind, ActiveRecording
  <1>10. ASSUME NEW h \in Handler, ReconcileFind(h) PROVE IInv'
    BY <1>10 DEF ReconcileFind, ActiveRecording
  <1>11. ASSUME NEW h \in Handler, ReconcileKeep(h) PROVE IInv'
    BY <1>11 DEF ReconcileKeep
  <1>12. ASSUME NEW h \in Handler, ReconcileStop(h) PROVE IInv'
    BY <1>12 DEF ReconcileStop
  <1>13. ASSUME NEW h \in Handler, StopLocally(h) PROVE IInv'
    BY <1>13 DEF StopLocally, UpdateRecordingStatus
  <1>14. ASSUME NEW h \in Handler, StopEgress(h) PROVE IInv'
    BY <1>14 DEF StopEgress
  <1>15. ASSUME NEW h \in Handler, StopEgressError(h) PROVE IInv'
    BY <1>15 DEF StopEgressError
  <1>16. ASSUME NEW h \in Handler, StopRecord(h) PROVE IInv'
    BY <1>16 DEF StopRecord, UpdateRecordingStatus, mapStatus
  <1>17. ASSUME NEW h \in Handler, Start(h) PROVE IInv'
    BY <1>17 DEF Start, HostRequest
  <1>18. ASSUME NEW h \in Handler, Stop(h) PROVE IInv'
    BY <1>18 DEF Stop, HostRequest
  <1>19. ASSUME NEW h \in Handler, NEW p \in Person,
                RecordConsent(h, p, TRUE) PROVE IInv'
    BY <1>19 DEF RecordConsent
  <1>20. ASSUME NEW h \in Handler, NEW p \in Person,
                RecordConsent(h, p, FALSE) PROVE IInv'
    BY <1>20 DEF RecordConsent
  <1>21. ASSUME NEW h \in Courier, NEW e \in Event, HookIgnore(h, e)
         PROVE IInv'
    BY <1>21 DEF HookIgnore
  <1>22. ASSUME NEW h \in Courier, NEW e \in Event, HookRead(h, e) PROVE IInv'
    BY <1>22 DEF HookRead, Sent, Phase, Reported
  <1>23. ASSUME NEW h \in Courier, HookApply(h) PROVE IInv'
    BY <1>23 DEF HookApply, UpdateRecordingStatus, mapStatus
  <1>24. ASSUME NEW h \in Request, Abort(h) PROVE IInv'
    BY <1>24 DEF Abort
  <1>25. ASSUME NEW p \in Person, Join(p) PROVE IInv'
    BY <1>25 DEF Join
  <1>26. ASSUME NEW p \in Person, Leave(p) PROVE IInv'
    BY <1>26 DEF Leave
  <1>27. ASSUME NEW r \in Rec, EgressProgress(r) PROVE IInv'
    BY <1>27 DEF EgressProgress, Phase
  <1>28. CASE UNCHANGED vars
    BY <1>28 DEF vars
  <1> QED
    BY <1>1, <1>2, <1>3, <1>4, <1>5, <1>6, <1>6a, <1>7, <1>8, <1>9, <1>10, <1>11,
       <1>12, <1>13, <1>14, <1>15, <1>16, <1>17, <1>18, <1>19, <1>20, <1>21,
       <1>22, <1>23, <1>24, <1>25, <1>26, <1>27, <1>28
    DEF Next, Advance, Deliver

\* The inductive invariant is an invariant of every behaviour.
THEOREM Invariance == Spec => []IInv
  BY InitIInv, NextIInv, PTL DEF Spec

\* Every variable keeps the type its table column or Go value has; a status is
\* always one of those the CHECK constraint of recordings admits.
THEOREM TypeCorrect == Spec => []TypeOK
  <1>1. IInv => TypeOK
    BY DEF IInv
  <1> QED
    BY Invariance, <1>1, PTL

\* Stop and ReconcileForSession act on the one row in flight.
THEOREM SingleInFlight == Spec => []OneInFlight
  <1>1. IInv => OneInFlight
    BY DEF IInv
  <1> QED
    BY Invariance, <1>1, PTL

\* No row is offered for playback whose egress has not completed.
THEOREM CompletedMeansComplete == Spec => []CompletedIsReal
  <1>1. IInv => CompletedIsReal
    BY DEF IInv
  <1> QED
    BY Invariance, <1>1, PTL

\* The writes of status, one by one: none changes a terminal row with an egress id.
LEMMA NextTerminalStep ==
    IInv /\ [Next]_vars =>
        \A r \in linked : isTerminal(rstatus[r]) => rstatus'[r] = rstatus[r]
  <1> SUFFICES ASSUME IInv, [Next]_vars, NEW q \in linked, isTerminal(rstatus[q])
               PROVE  rstatus'[q] = rstatus[q]
    OBVIOUS
  <1> USE NullAssumption DEF IInv, TypeOK, isTerminal, TerminalStatus, StartersOwn,
          ReportsInv, Request, sessionVars, rowVars, localVars
  <1>1. ASSUME NEW h \in Handler, StartGate(h) PROVE rstatus'[q] = rstatus[q]
    BY <1>1 DEF StartGate
  <1>2. ASSUME NEW h \in Handler, StartRefused(h)
        PROVE rstatus'[q] = rstatus[q]
    BY <1>2 DEF StartRefused
  <1>3. ASSUME NEW h \in Handler, NEW r \in Rec, CreateRecording(h, r)
        PROVE rstatus'[q] = rstatus[q]
    BY <1>3 DEF CreateRecording
  <1>4. ASSUME NEW h \in Handler, CreateRefused(h)
        PROVE rstatus'[q] = rstatus[q]
    BY <1>4 DEF CreateRefused
  <1>5. ASSUME NEW h \in Handler, EgressAccepted(h)
        PROVE rstatus'[q] = rstatus[q]
    BY <1>5 DEF EgressAccepted, Reported
  <1>6. ASSUME NEW h \in Handler, EgressFailed(h)
        PROVE rstatus'[q] = rstatus[q]
    BY <1>6 DEF EgressFailed
  <1>6a. ASSUME NEW h \in Handler, StartFailed(h)
        PROVE rstatus'[q] = rstatus[q]
    BY <1>6a DEF StartFailed, UpdateRecordingStatus
  <1>7. ASSUME NEW h \in Handler, SetRecordingEgress(h)
        PROVE rstatus'[q] = rstatus[q]
    BY <1>7 DEF SetRecordingEgress
  <1>8. ASSUME NEW h \in Handler, LinkRefused(h)
        PROVE rstatus'[q] = rstatus[q]
    BY <1>8 DEF LinkRefused
  <1>9. ASSUME NEW h \in Handler, StopFind(h) PROVE rstatus'[q] = rstatus[q]
    BY <1>9 DEF StopFind
  <1>10. ASSUME NEW h \in Handler, ReconcileFind(h)
         PROVE rstatus'[q] = rstatus[q]
    BY <1>10 DEF ReconcileFind
  <1>11. ASSUME NEW h \in Handler, ReconcileKeep(h)
         PROVE rstatus'[q] = rstatus[q]
    BY <1>11 DEF ReconcileKeep
  <1>12. ASSUME NEW h \in Handler, ReconcileStop(h)
         PROVE rstatus'[q] = rstatus[q]
    BY <1>12 DEF ReconcileStop
  <1>13. ASSUME NEW h \in Handler, StopLocally(h)
         PROVE rstatus'[q] = rstatus[q]
    BY <1>13 DEF StopLocally, UpdateRecordingStatus
  <1>14. ASSUME NEW h \in Handler, StopEgress(h)
         PROVE rstatus'[q] = rstatus[q]
    BY <1>14 DEF StopEgress
  <1>15. ASSUME NEW h \in Handler, StopEgressError(h)
         PROVE rstatus'[q] = rstatus[q]
    BY <1>15 DEF StopEgressError
  <1>16. ASSUME NEW h \in Handler, StopRecord(h)
         PROVE rstatus'[q] = rstatus[q]
    BY <1>16 DEF StopRecord, UpdateRecordingStatus
  <1>17. ASSUME NEW h \in Handler, Start(h) PROVE rstatus'[q] = rstatus[q]
    BY <1>17 DEF Start, HostRequest
  <1>18. ASSUME NEW h \in Handler, Stop(h) PROVE rstatus'[q] = rstatus[q]
    BY <1>18 DEF Stop, HostRequest
  <1>19. ASSUME NEW h \in Handler, NEW p \in Person,
                RecordConsent(h, p, TRUE) PROVE rstatus'[q] = rstatus[q]
    BY <1>19 DEF RecordConsent
  <1>20. ASSUME NEW h \in Handler, NEW p \in Person,
                RecordConsent(h, p, FALSE) PROVE rstatus'[q] = rstatus[q]
    BY <1>20 DEF RecordConsent
  <1>21. ASSUME NEW h \in Courier, NEW e \in Event, HookIgnore(h, e)
         PROVE rstatus'[q] = rstatus[q]
    BY <1>21 DEF HookIgnore
  <1>22. ASSUME NEW h \in Courier, NEW e \in Event, HookRead(h, e)
         PROVE rstatus'[q] = rstatus[q]
    BY <1>22 DEF HookRead
  <1>23. ASSUME NEW h \in Courier, HookApply(h) PROVE rstatus'[q] = rstatus[q]
    BY <1>23 DEF HookApply, UpdateRecordingStatus
  <1>24. ASSUME NEW h \in Request, Abort(h) PROVE rstatus'[q] = rstatus[q]
    BY <1>24 DEF Abort
  <1>25. ASSUME NEW p \in Person, Join(p) PROVE rstatus'[q] = rstatus[q]
    BY <1>25 DEF Join
  <1>26. ASSUME NEW p \in Person, Leave(p) PROVE rstatus'[q] = rstatus[q]
    BY <1>26 DEF Leave
  <1>27. ASSUME NEW r \in Rec, EgressProgress(r)
         PROVE rstatus'[q] = rstatus[q]
    BY <1>27 DEF EgressProgress
  <1>28. CASE UNCHANGED vars
    BY <1>28 DEF vars
  <1> QED
    BY <1>1, <1>2, <1>3, <1>4, <1>5, <1>6, <1>6a, <1>7, <1>8, <1>9, <1>10, <1>11,
       <1>12, <1>13, <1>14, <1>15, <1>16, <1>17, <1>18, <1>19, <1>20, <1>21,
       <1>22, <1>23, <1>24, <1>25, <1>26, <1>27, <1>28
    DEF Next, Advance, Deliver

\* From the link on, a finished recording stays finished.
THEOREM TerminalIsFinal == Spec => LinkedTerminalIsFinal
  BY Invariance, NextTerminalStep, PTL DEF Spec, LinkedTerminalIsFinal
=============================================================================
