-------------------------- MODULE LiveSession_proofs --------------------------
(***************************************************************************)
(* Proofs about LiveSession, for any people, any number of concurrent      *)
(* requests and any cap.                                                   *)
(*                                                                         *)
(* IInv is inductive.  It says what a request knows at each of its steps:  *)
(* past the insert its role is the role in its caller's row, which never   *)
(* changes again; between count and insert it alone holds the session row, *)
(* so what it counted is an upper bound of who is present until it is      *)
(* done; and nothing happens before the session exists.  CapInv adds the   *)
(* counting, in a lemma of its own.                                        *)
(***************************************************************************)
EXTENDS LiveSession, FiniteSetTheorems, TLAPS

\* A running request has a caller and the role its step calls for.
Callers ==
    \A h \in Handler :
        /\ pc[h] # "idle" => hUser[h] \in User
        /\ pc[h] \in {"lock", "count", "insert"} => hRole[h] \in Role
        /\ pc[h] \in {"record", "reply", "departing"} =>
              hRole[h] \in Role /\ row[hUser[h]] = hRole[h]
        /\ pc[h] \in {"setLive", "setEnded"} => row[hUser[h]] = "host"
        /\ pc[h] = "reply" =>
              [user |-> hUser[h], action |-> "join", role |-> hRole[h]] \in trail

\* Nothing is going on before there is a session.
NotYet ==
    /\ kind = "none" <=> status = "none"
    /\ kind = "none" =>
         /\ \A u \in User : row[u] = "none"
         /\ \A h \in Handler : pc[h] = "idle"

\* The session row is held from the lock to the insert, and by one request.
Locking ==
    \A h \in Handler : pc[h] \in {"count", "insert"} <=> rowLock = h

\* The host of a class is its instructor, from the moment of creation.
HostInstructs ==
    kind = "class" =>
        /\ \A u \in User : row[u] = "host" => u = ClassOwner
        /\ \A h \in Handler :
             pc[h] \in {"lock", "count", "insert"} /\ hRole[h] = "host" =>
                 hUser[h] = ClassOwner

IInv ==
    /\ TypeOK /\ Callers /\ NotYet /\ Locking /\ HostInstructs
    /\ GrantOnTrail /\ TrailMatchesRoster /\ OnlyOwnerPublishes /\ RunByHost

\* While a request is about to insert, what it counted still bounds the room.
CapInv ==
    /\ DirectCap
    /\ \A h \in Handler :
         pc[h] = "insert" /\ ~hFull[h] /\ kind = "direct" =>
             Cardinality(present) < MaxDirect

-----------------------------------------------------------------------------
\* The invariant holds before the session is created.
LEMMA InitIInv == Init => IInv
  BY NullAssumption
  DEF Init, IInv, TypeOK, Step, Role, Callers, NotYet, Locking, HostInstructs,
      GrantOnTrail, TrailMatchesRoster, OnlyOwnerPublishes, RunByHost

\* Every step, one case per action of the specification, keeps the invariant.
LEMMA NextIInv == IInv /\ [Next]_vars => IInv'
  <1> SUFFICES ASSUME IInv, [Next]_vars PROVE IInv'
    OBVIOUS
  <1> USE NullAssumption, UserAssumption
      DEF IInv, TypeOK, Role, PresenceEvent, VideoGrant, Step, Callers, NotYet,
          Locking, HostInstructs, GrantOnTrail, TrailMatchesRoster,
          OnlyOwnerPublishes, RunByHost, Goto, Return, Arrive, tableVars,
          localVars
  <1>1. ASSUME NEW h \in Handler, NEW u \in User, NEW k \in {"class", "direct"},
               NEW c \in SUBSET Claim, CreateSession(h, u, k, c) PROVE IInv'
    <2>1. TypeOK'
      BY <1>1 DEF CreateSession, MayCreate
    <2>2. Callers'
      BY <1>1 DEF CreateSession, MayCreate
    <2>3. NotYet'
      BY <1>1 DEF CreateSession, MayCreate
    <2>4. Locking'
      BY <1>1 DEF CreateSession, MayCreate
    <2>5. HostInstructs'
      BY <1>1 DEF CreateSession, MayCreate
    <2>6. GrantOnTrail'
      BY <1>1 DEF CreateSession, MayCreate
    <2>7. TrailMatchesRoster'
      BY <1>1 DEF CreateSession, MayCreate
    <2>8. OnlyOwnerPublishes'
      <3>1. \A g \in granted : g.user \in User /\ row[g.user] = "none"
        BY <1>1 DEF CreateSession
      <3> QED
        BY <1>1, <3>1 DEF CreateSession
    <2>9. RunByHost'
      BY <1>1 DEF CreateSession, MayCreate
    <2> QED
      BY <2>1, <2>2, <2>3, <2>4, <2>5, <2>6, <2>7, <2>8, <2>9
  <1>2. ASSUME NEW h \in Handler, NEW u \in User, NEW c \in SUBSET Claim, Join(h, u, c)
        PROVE IInv'
    BY <1>2 DEF Join
  <1>3. ASSUME NEW h \in Handler, NEW u \in User, Leave(h, u) PROVE IInv'
    BY <1>3 DEF Leave
  <1>4. ASSUME NEW h \in Handler, NEW u \in User, Start(h, u) PROVE IInv'
    BY <1>4 DEF Start, IsHost
  <1>5. ASSUME NEW h \in Handler, NEW u \in User, End(h, u) PROVE IInv'
    BY <1>5 DEF End, IsHost
  <1>6. ASSUME NEW h \in Handler, LockSession(h) PROVE IInv'
    BY <1>6 DEF LockSession
  <1>7. ASSUME NEW h \in Handler, CountPresent(h) PROVE IInv'
    BY <1>7 DEF CountPresent, RoomFull
  <1>8. ASSUME NEW h \in Handler, InsertParticipant(h) PROVE IInv'
    <2>0. hUser[h] \in User /\ hRole[h] \in Role
      BY <1>8 DEF InsertParticipant
    <2>1. TypeOK'
      <3>1. row' \in [User -> Role \cup {"none"}]
        BY <1>8, <2>0 DEF InsertParticipant
      <3>2. present' \subseteq {u \in User : row'[u] # "none"}
        BY <1>8, <2>0 DEF InsertParticipant
      <3>3. /\ pc' \in [Handler -> Step]
            /\ hUser' \in [Handler -> User \cup {NULL}]
            /\ hRole' \in [Handler -> Role \cup {"none"}]
            /\ hFull' \in [Handler -> BOOLEAN]
        <4>1. CASE hRole[h] = "participant"
          BY <1>8, <4>1 DEF InsertParticipant
        <4>2. CASE hRole[h] = "host"
          BY <1>8, <4>2 DEF InsertParticipant
        <4> QED
          BY <2>0, <4>1, <4>2
      <3> QED
        BY <1>8, <3>1, <3>2, <3>3 DEF InsertParticipant
    <2>2. Callers'
      BY <1>8 DEF InsertParticipant, KeyFree
    <2>3. NotYet'
      BY <1>8 DEF InsertParticipant, KeyFree
    <2>4. Locking'
      BY <1>8 DEF InsertParticipant, KeyFree
    <2>5. HostInstructs'
      BY <1>8 DEF InsertParticipant, KeyFree
    <2>6. GrantOnTrail'
      BY <1>8 DEF InsertParticipant, KeyFree
    <2>7. TrailMatchesRoster'
      BY <1>8 DEF InsertParticipant, KeyFree
    <2>8. OnlyOwnerPublishes'
      BY <1>8 DEF InsertParticipant, KeyFree
    <2>9. RunByHost'
      BY <1>8 DEF InsertParticipant, KeyFree
    <2> QED
      BY <2>1, <2>2, <2>3, <2>4, <2>5, <2>6, <2>7, <2>8, <2>9
  <1>9. ASSUME NEW h \in Handler, InsertRefused(h) PROVE IInv'
    BY <1>9 DEF InsertRefused
  <1>10. ASSUME NEW h \in Handler, RoleFor(h) PROVE IInv'
    <2>1. TypeOK'
      BY <1>10 DEF RoleFor, RoleOnRoster
    <2>2. Callers'
      <3>1. CASE hUser[h] \in present
        <4>1. hUser[h] \in User /\ row[hUser[h]] \in Role
          BY <1>10, <3>1 DEF RoleFor
        <4>2. pc' = [pc EXCEPT ![h] = "record"]
              /\ hRole' = [hRole EXCEPT ![h] = row[hUser[h]]]
          BY <1>10, <3>1 DEF RoleFor, RoleOnRoster
        <4> QED
          BY <1>10, <4>1, <4>2 DEF RoleFor
      <3>2. CASE hUser[h] \notin present
        <4>1. pc' = [pc EXCEPT ![h] = "lock"]
              /\ hRole' = [hRole EXCEPT ![h] = "participant"]
          BY <1>10, <3>2 DEF RoleFor
        <4>2. hUser[h] \in User
          BY <1>10 DEF RoleFor
        <4> QED
          BY <1>10, <4>1, <4>2 DEF RoleFor
      <3> QED
        BY <3>1, <3>2
    <2>3. NotYet'
      BY <1>10 DEF RoleFor, RoleOnRoster
    <2>4. Locking'
      BY <1>10 DEF RoleFor, RoleOnRoster
    <2>5. HostInstructs'
      BY <1>10 DEF RoleFor, RoleOnRoster
    <2>6. GrantOnTrail'
      BY <1>10 DEF RoleFor, RoleOnRoster
    <2>7. TrailMatchesRoster'
      BY <1>10 DEF RoleFor, RoleOnRoster
    <2>8. OnlyOwnerPublishes'
      BY <1>10 DEF RoleFor, RoleOnRoster
    <2>9. RunByHost'
      BY <1>10 DEF RoleFor, RoleOnRoster
    <2> QED
      BY <2>1, <2>2, <2>3, <2>4, <2>5, <2>6, <2>7, <2>8, <2>9
  <1>11. ASSUME NEW h \in Handler, RecordJoin(h) PROVE IInv'
    BY <1>11 DEF RecordJoin, EventOf
  <1>12. ASSUME NEW h \in Handler, JoinReply(h) PROVE IInv'
    <2>0. /\ hUser[h] \in User
          /\ row[hUser[h]] = hRole[h]
          /\ hRole[h] \in Role
          /\ [user |-> hUser[h], action |-> "join", role |-> hRole[h]] \in trail
      BY <1>12 DEF JoinReply
    <2>1. TypeOK'
      <3>1. (hRole[h] = "host" \/ kind = "direct") \in BOOLEAN
        BY Zenon
      <3>2. GrantOf(h) \in VideoGrant
        BY <2>0, <3>1 DEF GrantOf
      <3> QED
        BY <1>12, <3>2 DEF JoinReply
    <2>2. Callers'
      BY <1>12 DEF JoinReply, GrantOf
    <2>3. NotYet'
      BY <1>12 DEF JoinReply, GrantOf
    <2>4. Locking'
      BY <1>12 DEF JoinReply, GrantOf
    <2>5. HostInstructs'
      BY <1>12 DEF JoinReply, GrantOf
    <2>6. GrantOnTrail'
      <3>1. GrantOf(h).user = hUser[h]
        BY DEF GrantOf
      <3> QED
        BY <1>12, <2>0, <3>1 DEF JoinReply
    <2>7. TrailMatchesRoster'
      BY <1>12 DEF JoinReply, GrantOf
    <2>8. OnlyOwnerPublishes'
      <3>1. GrantOf(h).user = hUser[h]
            /\ (GrantOf(h).canPublish <=> hRole[h] = "host" \/ kind = "direct")
        BY DEF GrantOf
      <3> QED
        BY <1>12, <2>0, <3>1 DEF JoinReply
    <2>9. RunByHost'
      BY <1>12 DEF JoinReply, GrantOf
    <2> QED
      BY <2>1, <2>2, <2>3, <2>4, <2>5, <2>6, <2>7, <2>8, <2>9
  <1>13. ASSUME NEW h \in Handler, RecordLeave(h) PROVE IInv'
    <2>0. /\ hUser[h] \in User
          /\ row[hUser[h]] = hRole[h]
          /\ hRole[h] \in Role
      BY <1>13 DEF RecordLeave
    <2>1. TypeOK'
      <3>1. EventOf(h, "leave") \in PresenceEvent
        BY <2>0 DEF EventOf
      <3> QED
        BY <1>13, <3>1 DEF RecordLeave
    <2>2. Callers'
      BY <1>13 DEF RecordLeave, EventOf
    <2>3. NotYet'
      BY <1>13 DEF RecordLeave, EventOf
    <2>4. Locking'
      BY <1>13 DEF RecordLeave, EventOf
    <2>5. HostInstructs'
      BY <1>13 DEF RecordLeave, EventOf
    <2>6. GrantOnTrail'
      BY <1>13 DEF RecordLeave, EventOf
    <2>7. TrailMatchesRoster'
      <3>1. EventOf(h, "leave").user = hUser[h] /\ EventOf(h, "leave").role = hRole[h]
        BY DEF EventOf
      <3> QED
        BY <1>13, <2>0, <3>1 DEF RecordLeave
    <2>8. OnlyOwnerPublishes'
      BY <1>13 DEF RecordLeave, EventOf
    <2>9. RunByHost'
      BY <1>13 DEF RecordLeave, EventOf
    <2> QED
      BY <2>1, <2>2, <2>3, <2>4, <2>5, <2>6, <2>7, <2>8, <2>9
  <1>14. ASSUME NEW h \in Handler, RemoveParticipant(h) PROVE IInv'
    BY <1>14 DEF RemoveParticipant
  <1>15. ASSUME NEW h \in Handler, SetStatus(h) PROVE IInv'
    <2>1. TypeOK'
      BY <1>15 DEF SetStatus
    <2>2. Callers'
      BY <1>15 DEF SetStatus
    <2>3. NotYet'
      BY <1>15 DEF SetStatus
    <2>4. Locking'
      BY <1>15 DEF SetStatus
    <2>5. HostInstructs'
      BY <1>15 DEF SetStatus
    <2>6. GrantOnTrail'
      BY <1>15 DEF SetStatus
    <2>7. TrailMatchesRoster'
      BY <1>15 DEF SetStatus
    <2>8. OnlyOwnerPublishes'
      BY <1>15 DEF SetStatus
    <2>9. RunByHost'
      BY <1>15 DEF SetStatus
    <2> QED
      BY <2>1, <2>2, <2>3, <2>4, <2>5, <2>6, <2>7, <2>8, <2>9
  <1>16. ASSUME NEW h \in Handler, Fail(h) PROVE IInv'
    BY <1>16 DEF Fail
  <1>17. CASE UNCHANGED vars
    BY <1>17 DEF vars
  <1> HIDE DEF IInv
  <1>18. ASSUME NEW h \in Handler, Request(h) PROVE IInv'
    BY <1>1, <1>2, <1>3, <1>4, <1>5, <1>18 DEF Request
  <1>19. ASSUME NEW h \in Handler, HandlerStep(h) PROVE IInv'
    BY <1>6, <1>7, <1>8, <1>9, <1>10, <1>11, <1>12, <1>13, <1>14, <1>15, <1>19
    DEF HandlerStep
  <1> QED
    BY <1>16, <1>17, <1>18, <1>19 DEF Next

\* The inductive invariant is an invariant of every behaviour.
THEOREM Invariance == Spec => []IInv
  BY InitIInv, NextIInv, PTL DEF Spec

-----------------------------------------------------------------------------
\* People present are finitely many.
LEMMA PresentFinite == TypeOK => IsFiniteSet(present)
  <1> SUFFICES ASSUME TypeOK PROVE IsFiniteSet(present)
    OBVIOUS
  <1>1. present \subseteq User
    BY DEF TypeOK
  <1> QED
    BY <1>1, UserAssumption, FS_Subset

\* Before the session exists nobody is counted.
LEMMA InitCapInv == Init => CapInv
  BY DEF Init, CapInv, DirectCap

\* The two steps that move the count, and the rest, keep the cap.
LEMMA NextCapInv == IInv /\ CapInv /\ [Next]_vars => CapInv'
  <1> SUFFICES ASSUME IInv, CapInv, [Next]_vars PROVE CapInv'
    OBVIOUS
  <1>1. IsFiniteSet(present) /\ Cardinality(present) \in Nat
    BY PresentFinite, FS_CardinalityType DEF IInv
  <1>2. MaxDirect \in Nat
    BY CapAssumption
  <1>3. \A h, i \in Handler :
          pc[h] \in {"count", "insert"} /\ pc[i] \in {"count", "insert"} => h = i
    BY DEF IInv, Locking
  <1>4. pc \in [Handler -> Step] /\ hFull \in [Handler -> BOOLEAN]
    BY DEF IInv, TypeOK
  <1>5. ASSUME NEW h \in Handler, CountPresent(h) PROVE CapInv'
    <2>1. present' = present /\ kind' = kind
      BY <1>5 DEF CountPresent, tableVars
    <2>2. \A i \in Handler : pc'[i] = "insert" => i = h
      BY <1>3, <1>4, <1>5 DEF CountPresent, Goto
    <2>3. ~hFull'[h] => ~RoomFull
      BY <1>4, <1>5 DEF CountPresent
    <2>4. ~hFull'[h] /\ kind = "direct" => Cardinality(present) < MaxDirect
      BY <1>1, <1>2, <2>3 DEF RoomFull
    <2> QED
      BY <2>1, <2>2, <2>4 DEF CapInv, DirectCap
  <1>6. ASSUME NEW h \in Handler, InsertParticipant(h) PROVE CapInv'
    <2>1. Cardinality(present \cup {hUser[h]}) <= Cardinality(present) + 1
      BY <1>1, FS_AddElement
    <2>2. \A i \in Handler : pc'[i] # "insert"
      BY <1>3, <1>4, <1>6 DEF InsertParticipant, Goto, Return
    <2>3. kind' = kind /\ present' = present \cup {hUser[h]}
      BY <1>6 DEF InsertParticipant
    <2>4. kind = "direct" => Cardinality(present) < MaxDirect
      BY <1>6 DEF InsertParticipant, CapInv
    <2>5. IsFiniteSet(present \cup {hUser[h]})
      BY <1>1, FS_AddElement
    <2>6. Cardinality(present \cup {hUser[h]}) \in Nat
      BY <2>5, FS_CardinalityType
    <2> QED
      BY <1>1, <1>2, <2>1, <2>2, <2>3, <2>4, <2>6 DEF CapInv, DirectCap
  <1>7. ASSUME NEW h \in Handler, RemoveParticipant(h) PROVE CapInv'
    <2>1. Cardinality(present \ {hUser[h]}) <= Cardinality(present)
          /\ Cardinality(present \ {hUser[h]}) \in Nat
      <3>1. present \ {hUser[h]} \subseteq present
        OBVIOUS
      <3> QED
        BY <1>1, <3>1, FS_Subset, FS_CardinalityType
    <2>2. kind' = kind /\ present' = present \ {hUser[h]}
      BY <1>7 DEF RemoveParticipant
    <2>3. \A i \in Handler :
            pc'[i] = "insert" => pc[i] = "insert" /\ hFull'[i] = hFull[i]
      BY <1>4, <1>7 DEF RemoveParticipant, Return, Goto
    <2> QED
      BY <1>1, <1>2, <2>1, <2>2, <2>3 DEF CapInv, DirectCap
  <1>8. ASSUME NEW h \in Handler, NEW u \in User, NEW k \in {"class", "direct"},
               NEW c \in SUBSET Claim, CreateSession(h, u, k, c) PROVE CapInv'
    <2>1. present' = {} /\ present = {}
      BY <1>8 DEF CreateSession, IInv, TypeOK, NotYet
    <2>2. \A i \in Handler : pc'[i] # "insert"
      BY <1>4, <1>8 DEF CreateSession, Arrive, Goto, IInv, NotYet
    <2> QED
      BY <1>2, <2>1, <2>2, FS_EmptySet, CapAssumption DEF CapInv, DirectCap
  <1>9. ASSUME UNCHANGED <<kind, present>>,
               \A i \in Handler :
                 pc'[i] = "insert" => pc[i] = "insert" /\ hFull'[i] = hFull[i]
        PROVE CapInv'
    BY <1>9 DEF CapInv, DirectCap
  <1>10. CASE \E h \in Handler : Fail(h)
    BY <1>4, <1>9, <1>10 DEF Fail, Return, Goto, tableVars
  <1>11. CASE \E h \in Handler, u \in User, c \in SUBSET Claim :
                Join(h, u, c) \/ Leave(h, u) \/ Start(h, u) \/ End(h, u)
    BY <1>4, <1>9, <1>11 DEF Join, Leave, Start, End, Arrive, Goto, tableVars
  <1>12. CASE \E h \in Handler : LockSession(h) \/ InsertRefused(h) \/ RoleFor(h)
    BY <1>4, <1>9, <1>12
    DEF LockSession, InsertRefused, RoleFor, Return, Goto, tableVars, localVars
  <1>13. CASE \E h \in Handler : RecordJoin(h) \/ JoinReply(h) \/ RecordLeave(h)
                                 \/ SetStatus(h)
    BY <1>4, <1>9, <1>13
    DEF RecordJoin, JoinReply, RecordLeave, SetStatus, Return, Goto, tableVars,
        localVars
  <1>14. CASE UNCHANGED vars
    BY <1>9, <1>14 DEF vars, tableVars, localVars
  <1> QED
    BY <1>5, <1>6, <1>7, <1>8, <1>10, <1>11, <1>12, <1>13, <1>14
    DEF Next, Request, HandlerStep

\* The cap is never passed.
THEOREM CapInvariance == Spec => []CapInv
  BY InitCapInv, NextCapInv, Invariance, PTL, InitIInv DEF Spec
-----------------------------------------------------------------------------
\* Every variable keeps the type its column or Go value has; whoever is present has
\* a row.
THEOREM TypeCorrect == Spec => []TypeOK
  <1>1. IInv => TypeOK
    BY DEF IInv
  <1> QED
    BY Invariance, <1>1, PTL

\* The lock of the session row always belongs to a request that will give it back.
THEOREM LockIsOwned == Spec => []LockHasOwner
  <1>1. IInv => LockHasOwner
    BY DEF IInv, TypeOK, Locking, LockHasOwner
  <1> QED
    BY Invariance, <1>1, PTL

\* No interleaving of joins seats more people in a direct session than its cap.
THEOREM CapHolds == Spec => []DirectCap
  <1>1. CapInv => DirectCap
    BY DEF CapInv
  <1> QED
    BY CapInvariance, <1>1, PTL

\* No room token without a row and a join on the presence trail, and the roles on the
\* trail are the roles on the roster.
THEOREM TrailFaithful == Spec => []TrailIsFaithful
  <1>1. IInv => TrailIsFaithful
    BY DEF IInv, TrailIsFaithful
  <1> QED
    BY Invariance, <1>1, PTL

\* Only the instructor of a class ever publishes in it.
THEOREM OwnerPublishes == Spec => []OnlyOwnerPublishes
  <1>1. IInv => OnlyOwnerPublishes
    BY DEF IInv
  <1> QED
    BY Invariance, <1>1, PTL

\* A session that was started or ended has a host.
THEOREM HostRuns == Spec => []RunByHost
  <1>1. IInv => RunByHost
    BY DEF IInv
  <1> QED
    BY Invariance, <1>1, PTL

-----------------------------------------------------------------------------
\* An existing session has room for somebody.
LEMMA CapOfKind ==
    /\ Cardinality(User) \in Nat \ {0}
    /\ kind = "none" => RosterCap = 0
    /\ kind = "class" => RosterCap = Cardinality(User)
    /\ kind = "direct" => RosterCap = MaxDirect
  <1>1. Cardinality(User) \in Nat
    BY UserAssumption, FS_CardinalityType
  <1>2. Cardinality(User) # 0
    BY UserAssumption, FS_EmptySet
  <1> QED
    BY <1>1, <1>2 DEF RosterCap

\* An insert seats one person more, within the cap of the kind.
LEMMA InsertFits ==
    ASSUME IInv, CapInv, NEW h \in Handler, InsertParticipant(h)
    PROVE  Cardinality(present \cup {hUser[h]}) <= RosterCap
  <1>1. hUser[h] \in User /\ kind \in {"class", "direct"}
    BY DEF InsertParticipant, IInv, TypeOK, Callers, NotYet
  <1>2. IsFiniteSet(present) /\ Cardinality(present) \in Nat
    BY PresentFinite, FS_CardinalityType DEF IInv
  <1>3. CASE kind = "class"
    <2>1. present \cup {hUser[h]} \subseteq User
      BY <1>1 DEF IInv, TypeOK
    <2>2. Cardinality(present \cup {hUser[h]}) <= Cardinality(User)
      BY <2>1, UserAssumption, FS_Subset
    <2> QED
      BY <1>3, <2>2, CapOfKind
  <1>4. CASE kind = "direct"
    <2>1. Cardinality(present) < MaxDirect
      BY <1>4 DEF InsertParticipant, CapInv
    <2>2. Cardinality(present \cup {hUser[h]}) <= Cardinality(present) + 1
      BY <1>2, FS_AddElement
    <2>3. Cardinality(present \cup {hUser[h]}) \in Nat
      BY <1>2, FS_AddElement, FS_CardinalityType
    <2> QED
      BY <1>2, <1>4, <2>1, <2>2, <2>3, CapOfKind, CapAssumption
  <1> QED
    BY <1>1, <1>3, <1>4

\* LiveSession implements Roster: an insert is an arrival, a removal a departure,
\* a creation opens the session, and every other step stutters.
THEOREM RosterRefined == Spec => ImplementsRoster
  <1>1. Init => Promise!Init
    BY CapOfKind DEF Init, Promise!Init
  <1>2. IInv /\ CapInv /\ [Next]_vars
          => [Promise!Next]_<<row, present, RosterCap>>
    <2> SUFFICES ASSUME IInv, CapInv, [Next]_vars
                 PROVE  [Promise!Next]_<<row, present, RosterCap>>
      OBVIOUS
    <2>1. ASSUME NEW h \in Handler, InsertParticipant(h)
          PROVE  Promise!Next
      <3>1. hUser[h] \in User /\ hRole[h] \in Role
        BY <2>1 DEF InsertParticipant, IInv, Callers
      <3>2. Cardinality(present \cup {hUser[h]}) <= RosterCap
        BY <2>1, InsertFits
      <3>3. RosterCap' = RosterCap
        BY <2>1 DEF InsertParticipant, RosterCap
      <3>4. /\ row[hUser[h]] = "none"
            /\ row' = [row EXCEPT ![hUser[h]] = hRole[h]]
            /\ present' = present \cup {hUser[h]}
        BY <2>1 DEF InsertParticipant, KeyFree
      <3>5. Promise!Cardinality(present \cup {hUser[h]})
              = Cardinality(present \cup {hUser[h]})
        BY DEF Promise!Cardinality, Cardinality
      <3>6. Promise!Enter(hUser[h])
        BY <3>1, <3>2, <3>3, <3>4, <3>5 DEF Promise!Enter
      <3> QED
        BY <3>1, <3>6 DEF Promise!Next
    <2>2. ASSUME NEW h \in Handler, RemoveParticipant(h)
          PROVE  Promise!Next
      <3>1. hUser[h] \in User
        BY <2>2 DEF RemoveParticipant, IInv, Callers
      <3>2. RosterCap' = RosterCap
        BY <2>2 DEF RemoveParticipant, RosterCap
      <3>3. Promise!Depart(hUser[h])
        BY <2>2, <3>2 DEF RemoveParticipant, Promise!Depart
      <3> QED
        BY <3>1, <3>3 DEF Promise!Next
    <2>3. ASSUME NEW h \in Handler, NEW u \in User,
                 NEW k \in {"class", "direct"}, NEW c \in SUBSET Claim,
                 CreateSession(h, u, k, c)
          PROVE  Promise!Next
      <3>1. RosterCap = 0
        BY <2>3, CapOfKind DEF CreateSession
      <3>2. RosterCap' \in Nat \ {0}
        BY <2>3, CapOfKind, CapAssumption DEF CreateSession, RosterCap
      <3>3. Promise!Open
        BY <2>3, <3>1, <3>2 DEF CreateSession, Promise!Open
      <3> QED
        BY <3>3 DEF Promise!Next
    <2>4. ASSUME UNCHANGED <<kind, row, present>>
          PROVE  UNCHANGED <<row, present, RosterCap>>
      BY <2>4 DEF RosterCap
    <2>5. CASE \E h \in Handler : Fail(h)
      BY <2>4, <2>5 DEF Fail, tableVars
    <2>6. CASE \E h \in Handler, u \in User, c \in SUBSET Claim :
                 Join(h, u, c) \/ Leave(h, u) \/ Start(h, u) \/ End(h, u)
      BY <2>4, <2>6 DEF Join, Leave, Start, End, tableVars
    <2>7. CASE \E h \in Handler :
                 LockSession(h) \/ CountPresent(h) \/ InsertRefused(h) \/ RoleFor(h)
                 \/ RecordJoin(h) \/ JoinReply(h) \/ RecordLeave(h) \/ SetStatus(h)
      BY <2>4, <2>7
      DEF LockSession, CountPresent, InsertRefused, RoleFor, RecordJoin, JoinReply,
          RecordLeave, SetStatus, tableVars
    <2>8. CASE UNCHANGED vars
      BY <2>4, <2>8 DEF vars, tableVars
    <2> QED
      BY <2>1, <2>2, <2>3, <2>5, <2>6, <2>7, <2>8 DEF Next, Request, HandlerStep
  <1> QED
    BY <1>1, <1>2, Invariance, CapInvariance, PTL
    DEF Spec, ImplementsRoster, Promise!Spec
=============================================================================
