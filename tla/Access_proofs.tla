---------------------------- MODULE Access_proofs ----------------------------
(***************************************************************************)
(* Proofs about Access, for any number of people and concurrent requests,  *)
(* and about Learning, for any number of learners and sessions of a class. *)
(*                                                                         *)
(* IInv ties what a request was told to what is on the trail and to what   *)
(* its caller owned meanwhile; PInv says that a mark in the audit-once map *)
(* has an entry or a request that is about to write one; GInv counts the   *)
(* members together with the people about to be inserted.  LearnInv reads  *)
(* the counts of a certificate as what they count.                         *)
(***************************************************************************)
EXTENDS MCAccess, FiniteSetTheorems, SequenceTheorems, TLAPS

\* What a request relies on at each of its steps.
Knows(h) ==
    /\ pc[h] # "idle" => hUser[h] \in User
    /\ pc[h] # "idle" /\ hUser[h] \in owned => hOwned[h]
    /\ paid /\ pc[h] \in {"capacity", "member", "count", "insert"} => trail[hUser[h]] # <<>>
    /\ paid /\ pc[h] \in {"mark", "append", "serve"} => hOwned[h]

IInv ==
    /\ TypeOK
    /\ \A h \in Handler : Knows(h)
    /\ TrailReplays /\ PaidSeatsWereGranted

\* A view of u is on the audit trail, or about to be, or its entry failed.
Accounted(u) ==
    u \in recorded \cup failed \/ \E g \in Handler : pc[g] = "append" /\ hUser[g] = u

PInv ==
    /\ \A u \in seen : Accounted(u)
    /\ \A h \in Handler : pc[h] = "serve" => Accounted(hUser[h])

Inserting == {h \in Handler : pc[h] = "insert"}

\* Members, and people past the check of the capacity.
Going == members \cup {hUser[h] : h \in Inserting}

GInv == Going # {} => Cardinality(Going) <= widest + Cardinality(Handler) - 1

-----------------------------------------------------------------------------
(* The audit trail and the checks                                          *)

\* A number is even or odd.
LEMMA Parity == ASSUME NEW n \in Nat PROVE n % 2 = 0 <=> n % 2 # 1
  OBVIOUS

\* An entry that takes its turn keeps a trail alternating.
LEMMA AppendAlternates ==
  ASSUME NEW t \in Seq({"granted", "revoked"}), NEW a \in {"granted", "revoked"},
         \A i \in DOMAIN t : t[i] = "granted" <=> i % 2 = 1,
         a = "granted" <=> Len(t) % 2 = 0
  PROVE  LET s == Append(t, a)
         IN  /\ s \in Seq({"granted", "revoked"}) /\ Len(s) = Len(t) + 1 /\ s # <<>>
             /\ \A i \in DOMAIN s : s[i] = "granted" <=> i % 2 = 1
             /\ Len(s) % 2 = 1 <=> Len(t) % 2 = 0
  <1> DEFINE s == Append(t, a)
  <1>1. /\ s \in Seq({"granted", "revoked"}) /\ Len(s) = Len(t) + 1
        /\ \A i \in 1..Len(t) : s[i] = t[i]
        /\ s[Len(t) + 1] = a
    BY AppendProperties
  <1>2. Len(t) \in Nat /\ DOMAIN t = 1..Len(t) /\ DOMAIN s = 1..(Len(t) + 1)
    BY <1>1
  <1>3. (Len(t) + 1) % 2 = 1 <=> Len(t) % 2 = 0
    BY <1>2
  <1>4. s # <<>>
    BY <1>1, <1>2
  <1> HIDE DEF s
  <1>5. ASSUME NEW i \in DOMAIN s PROVE s[i] = "granted" <=> i % 2 = 1
    <2>1. CASE i \in 1..Len(t)
      BY <1>1, <1>2, <2>1
    <2>2. CASE i = Len(t) + 1
      BY <1>1, <1>3, <2>2
    <2> QED
      BY <1>2, <2>1, <2>2
  <1>6. Len(s) % 2 = 1 <=> Len(t) % 2 = 0
    BY <1>1, <1>3
  <1> QED
    BY <1>1, <1>4, <1>5, <1>6 DEF s

\* Nobody has been granted anything at first.
LEMMA InitIInv == Init => IInv
  <1> SUFFICES ASSUME Init PROVE IInv
    OBVIOUS
  <1>1. TypeOK
    <2>1. <<>> \in Seq({"granted", "revoked"}) /\ Len(<<>>) = 0
      OBVIOUS
    <2> QED
      BY <2>1, BoundAssumption DEF Init, TypeOK, Step
  <1>2. TrailReplays
    BY DEF Init, TrailReplays
  <1> QED
    BY <1>1, <1>2 DEF Init, IInv, Knows, PaidSeatsWereGranted

\* A grant or a revocation.
LEMMA TrailStep ==
  ASSUME IInv, NEW u \in User, Grant(u) \/ Revoke(u)
  PROVE  IInv'
  <1>0. /\ TypeOK /\ TrailReplays /\ PaidSeatsWereGranted
        /\ \A h \in Handler : Knows(h)
    BY DEF IInv
  <1>1. PICK a \in {"granted", "revoked"} :
          /\ trail' = [trail EXCEPT ![u] = Append(@, a)]
          /\ a = "granted" <=> u \notin owned
          /\ owned' = IF a = "granted" THEN owned \cup {u} ELSE owned \ {u}
          /\ Len(trail[u]) < MaxTrail
    BY DEF Grant, Revoke, NotEntitled, AppendAudit
  <1> DEFINE t == trail[u]
             s == Append(t, a)
  <1>2. /\ t \in Seq({"granted", "revoked"}) /\ Len(t) \in Nat
        /\ \A i \in DOMAIN t : t[i] = "granted" <=> i % 2 = 1
        /\ u \in owned <=> Len(t) % 2 = 1
    <2>1. t \in Seq({"granted", "revoked"})
      BY <1>0 DEF TypeOK
    <2>2. /\ \A i \in DOMAIN t : t[i] = "granted" <=> i % 2 = 1
          /\ u \in owned <=> Len(t) % 2 = 1
      BY <1>0 DEF TrailReplays
    <2> HIDE DEF t
    <2> QED
      BY <2>1, <2>2
  <1>3. a = "granted" <=> Len(t) % 2 = 0
    <2>1. Len(t) % 2 = 0 <=> Len(t) % 2 # 1
      BY <1>2, Parity
    <2> QED
      BY <1>1, <1>2, <2>1
  <1>4. /\ s \in Seq({"granted", "revoked"}) /\ Len(s) = Len(t) + 1 /\ s # <<>>
        /\ \A i \in DOMAIN s : s[i] = "granted" <=> i % 2 = 1
        /\ Len(s) % 2 = 1 <=> Len(t) % 2 = 0
    BY <1>2, <1>3, AppendAlternates
  <1>5. trail'[u] = s /\ \A v \in User : v # u => trail'[v] = trail[v]
    BY <1>0, <1>1 DEF TypeOK
  <1>6. /\ UNCHANGED <<classVars, playVars, pc, hUser, hCap>>
        /\ hOwned' \in [Handler -> BOOLEAN]
        /\ \A h \in Handler : /\ hOwned[h] => hOwned'[h]
                              /\ u \notin owned /\ hUser[h] = u => hOwned'[h]
    BY <1>0 DEF Grant, Revoke, NotEntitled, TypeOK, localVars
  <1>7. Len(s) <= MaxTrail
    BY <1>1, <1>2, <1>4, BoundAssumption
  <1> HIDE DEF s
  <1>8. TypeOK'
    <2>1. trail' \in [User -> Seq({"granted", "revoked"})]
      BY <1>0, <1>1, <1>4 DEF TypeOK, s
    <2>2. \A v \in User : Len(trail'[v]) <= MaxTrail
      BY <1>0, <1>5, <1>7 DEF TypeOK
    <2>3. owned' \subseteq User
      BY <1>0, <1>1 DEF TypeOK
    <2> QED
      BY <1>0, <1>6, <2>1, <2>2, <2>3 DEF TypeOK, classVars, playVars
  <1>9. TrailReplays'
    <2> SUFFICES ASSUME NEW v \in User
                 PROVE  /\ \A i \in DOMAIN trail'[v] : trail'[v][i] = "granted" <=> i % 2 = 1
                        /\ v \in owned' <=> Len(trail'[v]) % 2 = 1
      BY DEF TrailReplays
    <2>1. CASE v = u
      <3>1. v \in owned' <=> Len(t) % 2 = 0
        BY <1>1, <1>3, <2>1
      <3> QED
        BY <1>4, <1>5, <2>1, <3>1
    <2>2. CASE v # u
      <3>1. v \in owned' <=> v \in owned
        BY <1>1, <2>2
      <3>2. trail'[v] = trail[v]
        BY <1>5, <2>2
      <3>3. /\ \A i \in DOMAIN trail[v] : trail[v][i] = "granted" <=> i % 2 = 1
            /\ v \in owned <=> Len(trail[v]) % 2 = 1
        BY <1>0 DEF TrailReplays
      <3> QED
        BY <3>1, <3>2, <3>3
    <2> QED
      BY <2>1, <2>2
  <1>10. \A v \in User : trail[v] # <<>> => trail'[v] # <<>>
    BY <1>4, <1>5
  <1>11. PaidSeatsWereGranted'
    BY <1>0, <1>6, <1>10 DEF PaidSeatsWereGranted, classVars, TypeOK
  <1>12. ASSUME NEW h \in Handler PROVE Knows(h)'
    <2>1. Knows(h) /\ paid' = paid /\ pc'[h] = pc[h] /\ hUser'[h] = hUser[h]
      BY <1>0, <1>6 DEF classVars
    <2>2. pc[h] # "idle" /\ hUser[h] \in owned' => hOwned'[h]
      BY <1>1, <1>6, <2>1 DEF Knows
    <2> QED
      BY <1>6, <1>10, <2>1, <2>2 DEF Knows
  <1> QED
    BY <1>8, <1>9, <1>11, <1>12 DEF IInv

\* A request that moves on, or comes or goes, while the trail stays.
LEMMA RequestStep ==
  ASSUME IInv, TypeOK', NEW h \in Handler, Knows(h)', UNCHANGED <<paid, owned, trail>>,
         members' \subseteq members \cup {hUser[h]}, members' # members => pc[h] = "insert",
         \A g \in Handler \ {h} :
            pc'[g] = pc[g] /\ hUser'[g] = hUser[g] /\ hOwned'[g] = hOwned[g]
  PROVE  IInv'
  <1>1. \A g \in Handler : Knows(g)'
    BY DEF IInv, Knows
  <1>2. TrailReplays'
    BY DEF IInv, TrailReplays
  <1>3. PaidSeatsWereGranted'
    BY DEF IInv, PaidSeatsWereGranted, Knows
  <1> QED
    BY <1>1, <1>2, <1>3 DEF IInv

\* A step of nobody's request that leaves the trail alone.
LEMMA TableStep ==
  ASSUME IInv, TypeOK', UNCHANGED <<paid, owned, trail, pc, hUser, hOwned>>,
         members' \subseteq members
  PROVE  IInv'
  <1>1. \A g \in Handler : Knows(g)'
    BY DEF IInv, Knows
  <1>2. TrailReplays'
    BY DEF IInv, TrailReplays
  <1>3. PaidSeatsWereGranted'
    BY DEF IInv, PaidSeatsWereGranted
  <1> QED
    BY <1>1, <1>2, <1>3 DEF IInv

\* Every step keeps the trail in step with what people own and were let through with.
LEMMA NextIInv == IInv /\ [Next]_vars => IInv'
  <1> SUFFICES ASSUME IInv, [Next]_vars PROVE IInv'
    OBVIOUS
  <1> USE BoundAssumption
  <1>0. /\ TypeOK /\ TrailReplays
        /\ \A h \in Handler : Knows(h)
        /\ Cardinality(User) \in Nat
    BY PeopleAssumption, FS_CardinalityType DEF IInv
  <1>1. CASE EntitlementNext
    BY <1>1, TrailStep DEF EntitlementNext
  <1>2. CASE CreateClass
    <2>1. TypeOK'
      BY <1>0, <1>2 DEF CreateClass, TypeOK, entVars, playVars, localVars
    <2> QED
      BY <1>2, <2>1, TableStep DEF CreateClass, entVars, localVars
  <1>3. ASSUME NEW s \in {"draft", "published", "archived"}, SetStatus(s) PROVE IInv'
    <2>1. TypeOK'
      BY <1>0, <1>3 DEF SetStatus, TypeOK, entVars, playVars, localVars
    <2> QED
      BY <1>3, <2>1, TableStep DEF SetStatus, entVars, localVars
  <1>4. ASSUME NEW n \in 0..MaxCapacity, SetCapacity(n) PROVE IInv'
    <2>1. TypeOK'
      BY <1>0, <1>4 DEF SetCapacity, TypeOK, entVars, playVars, localVars
    <2> QED
      BY <1>4, <2>1, TableStep DEF SetCapacity, entVars, localVars
  <1>5. ASSUME NEW u \in User, Unenroll(u) PROVE IInv'
    <2>1. TypeOK'
      BY <1>0, <1>5 DEF Unenroll, TypeOK, entVars, playVars, localVars
    <2> QED
      BY <1>5, <2>1, TableStep DEF Unenroll, entVars, localVars
  <1>6. ASSUME NEW u \in User, ExpireToken(u) \/ Forget(u) PROVE IInv'
    <2>1. TypeOK' /\ UNCHANGED <<classVars, entVars, pc, localVars>>
      BY <1>0, <1>6 DEF ExpireToken, Forget, TypeOK, classVars, entVars,
         playVars, localVars
    <2> QED
      BY <2>1, TableStep DEF classVars, entVars, localVars
  <1>7. ASSUME NEW h \in Handler, NEW u \in User, NEW d \in BOOLEAN,
              Enroll(h, u, d) \/ Playback(h, u) \/ Authz(h, u)
        PROVE IInv'
    <2>0. PICK s \in {"gate", "play", "recheck"} :
             UNCHANGED <<classVars, entVars, playVars>> /\ Arrive(h, u, s)
      BY <1>7 DEF Enroll, Playback, Authz
    <2>1. TypeOK'
      <3>1. hOwned' \in [Handler -> BOOLEAN]
        <4>1. (u \in owned) \in BOOLEAN
          OBVIOUS
        <4>2. hOwned' = [hOwned EXCEPT ![h] = u \in owned] /\ hOwned \in [Handler -> BOOLEAN]
          BY <1>0, <2>0 DEF Arrive, TypeOK
        <4> QED
          BY <4>1, <4>2
      <3> QED
        BY <1>0, <2>0, <3>1 DEF Arrive, Goto, TypeOK, Step, classVars, entVars, playVars
    <2>2. Knows(h)'
      BY <1>0, <2>0 DEF Arrive, Goto, TypeOK, Knows, entVars
    <2> QED
      BY <1>0, <2>0, <2>1, <2>2, RequestStep DEF Arrive, Goto, TypeOK, classVars, entVars
  <1>8. ASSUME NEW h \in Handler, EnrollGate(h) \/ PlaybackGate(h) \/ Recheck(h) PROVE IInv'
    <2>1. TypeOK'
      BY <1>0, <1>8 DEF EnrollGate, PlaybackGate, Recheck, Goto, TypeOK, Step, classVars, entVars, playVars,
         localVars
    <2>2. Knows(h)'
      <3>1. hUser[h] \in User /\ (hUser[h] \in owned => hOwned[h])
        BY <1>0, <1>8 DEF EnrollGate, PlaybackGate, Recheck, Knows
      <3>2. paid => hUser[h] \in owned
        BY <1>8 DEF EnrollGate, PlaybackGate, Recheck, EnsureRecordingAccess, EnsureClassAccess,
           HasActiveEntitlement
      <3>3. hUser[h] \in owned => trail[hUser[h]] # <<>>
        <4>1. hUser[h] \in owned => Len(trail[hUser[h]]) % 2 = 1
          BY <1>0, <3>1 DEF TrailReplays
        <4>2. Len(<<>>) % 2 # 1
          OBVIOUS
        <4>3. trail[hUser[h]] = <<>> => Len(trail[hUser[h]]) = Len(<<>>)
          OBVIOUS
        <4> QED
          BY <4>1, <4>2, <4>3
      <3> QED
        BY <1>0, <1>8, <3>1, <3>2, <3>3 DEF EnrollGate, PlaybackGate, Recheck, Goto, TypeOK, Knows,
           classVars, entVars, localVars
    <2> QED
      BY <1>0, <1>8, <2>1, <2>2, RequestStep
      DEF EnrollGate, PlaybackGate, Recheck, Goto, TypeOK, classVars, entVars, localVars
  <1>9. ASSUME NEW h \in Handler, ReadCapacity(h) \/ IsEnrolled(h) \/ CountMembers(h) PROVE IInv'
    <2>1. TypeOK'
      <3>1. CASE ReadCapacity(h)
        BY <1>0, <3>1 DEF ReadCapacity, Goto, TypeOK, Step, entVars, playVars
      <3>2. CASE IsEnrolled(h)
        BY <1>0, <3>2 DEF IsEnrolled, Goto, TypeOK, Step, classVars, entVars, playVars, localVars
      <3>3. CASE CountMembers(h)
        <4>1. widest' \in Nat
          BY <1>0, <3>3 DEF CountMembers, TypeOK
        <4> QED
          BY <1>0, <3>3, <4>1 DEF CountMembers, Goto, TypeOK, Step, entVars, playVars, localVars
      <3> QED
        BY <1>9, <3>1, <3>2, <3>3
    <2>2. Knows(h)'
      BY <1>0, <1>9 DEF ReadCapacity, IsEnrolled, CountMembers, Goto, TypeOK, Knows, classVars,
         entVars, localVars
    <2> QED
      BY <1>0, <1>9, <2>1, <2>2, RequestStep
      DEF ReadCapacity, IsEnrolled, CountMembers, Goto, TypeOK, classVars, entVars, localVars
  <1>10. ASSUME NEW h \in Handler, EnrollClass(h) PROVE IInv'
    <2>1. TypeOK'
      <3>1. hUser[h] \in User
        BY <1>0, <1>10 DEF EnrollClass, Knows
      <3> QED
        BY <1>0, <1>10, <3>1 DEF EnrollClass, Return, Goto, TypeOK, Step, entVars, playVars
    <2>2. Knows(h)'
      BY <1>0, <1>10 DEF EnrollClass, Return, Goto, TypeOK, Knows
    <2> QED
      BY <1>0, <1>10, <2>1, <2>2, RequestStep DEF EnrollClass, Return, Goto, TypeOK, entVars
  <1>11. ASSUME NEW h \in Handler, ShouldAuditPlay(h) \/ AuditPlayback(h) PROVE IInv'
    <2>0. hUser[h] \in User
      BY <1>0, <1>11 DEF ShouldAuditPlay, AuditPlayback, Knows
    <2>1. TypeOK'
      BY <1>0, <1>11, <2>0 DEF ShouldAuditPlay, AuditPlayback, Goto, TypeOK, Step, classVars,
         entVars, localVars
    <2>2. Knows(h)'
      BY <1>0, <1>11 DEF ShouldAuditPlay, AuditPlayback, Goto, TypeOK, Knows, classVars,
         entVars, localVars
    <2> QED
      BY <1>0, <1>11, <2>1, <2>2, RequestStep
      DEF ShouldAuditPlay, AuditPlayback, Goto, TypeOK, classVars, entVars, localVars
  <1>12. ASSUME NEW h \in Handler, MintPlaybackToken(h) \/ Serve(h) \/ Fail(h) PROVE IInv'
    <2>0. /\ UNCHANGED <<classVars, entVars, seen, recorded, failed>> /\ Return(h)
          /\ tokens' \subseteq User
      <3>1. CASE MintPlaybackToken(h)
        BY <1>0, <3>1 DEF MintPlaybackToken, Knows, TypeOK
      <3>2. CASE Serve(h) \/ Fail(h)
        BY <1>0, <3>2 DEF Serve, Fail, TypeOK, playVars
      <3> QED
        BY <1>12, <3>1, <3>2
    <2>1. TypeOK'
      BY <1>0, <2>0 DEF Return, Goto, TypeOK, Step, classVars, entVars
    <2>2. Knows(h)'
      BY <1>0, <2>0 DEF Return, Goto, TypeOK, Knows
    <2> QED
      BY <1>0, <2>0, <2>1, <2>2, RequestStep DEF Return, Goto, TypeOK, classVars, entVars
  <1>13. CASE UNCHANGED vars
    <2>1. TypeOK'
      BY <1>0, <1>13 DEF vars, TypeOK, classVars, entVars, playVars, localVars
    <2> QED
      BY <1>13, <2>1, TableStep DEF vars, classVars, entVars, localVars
  <1> QED
    BY <1>1, <1>2, <1>3, <1>4, <1>5, <1>6, <1>7, <1>8, <1>9, <1>10, <1>11, <1>12, <1>13
    DEF Next, EnrollNext, PlayNext

-----------------------------------------------------------------------------
(* The audit-once map                                                      *)

\* Nobody is marked at first.
LEMMA InitPInv == Init => PInv
  BY DEF Init, PInv

\* Every step keeps marked views accounted for.
LEMMA NextPInv == IInv /\ PInv /\ [Next]_vars => PInv'
  <1> SUFFICES ASSUME IInv, PInv, [Next]_vars PROVE PInv'
    OBVIOUS
  <1>0. TypeOK
    BY DEF IInv
  <1>1. ASSUME NEW h \in Handler, ShouldAuditPlay(h) PROVE PInv'
    <2>0. PICK v \in User \cup {NULL} : v = hUser[h]
      BY <1>0 DEF TypeOK
    <2>1. /\ hUser' = hUser /\ pc[h] = "mark"
          /\ \A g \in Handler : g # h => pc'[g] = pc[g]
      BY <1>0, <1>1 DEF ShouldAuditPlay, Goto, localVars, TypeOK
    <2>2. CASE v \in seen
      <3>1. pc'[h] = "serve" /\ UNCHANGED <<seen, recorded, failed>>
        BY <1>0, <1>1, <2>0, <2>2 DEF ShouldAuditPlay, Marked, Goto, TypeOK
      <3>2. \A u : Accounted(u) => Accounted(u)'
        BY <2>1, <3>1 DEF Accounted
      <3> QED
        BY <2>0, <2>1, <2>2, <3>1, <3>2 DEF PInv
    <2>3. CASE v \notin seen
      <3>1. /\ pc'[h] = "append" /\ seen' = seen \cup {v}
            /\ recorded' = recorded \ {v} /\ failed' = failed \ {v}
        BY <1>0, <1>1, <2>0, <2>3 DEF ShouldAuditPlay, Marked, Goto, TypeOK
      <3>2. \A u : Accounted(u) \/ u = v => Accounted(u)'
        BY <2>0, <2>1, <3>1 DEF Accounted
      <3> QED
        BY <2>1, <3>1, <3>2 DEF PInv
    <2> QED
      BY <2>2, <2>3
  <1>2. ASSUME NEW h \in Handler, AuditPlayback(h) PROVE PInv'
    <2>1. /\ recorded' \cup failed' = recorded \cup failed \cup {hUser[h]}
          /\ seen' = seen /\ hUser' = hUser
          /\ \A g \in Handler : g # h => pc'[g] = pc[g]
      BY <1>0, <1>2 DEF AuditPlayback, Goto, localVars, TypeOK
    <2>2. \A u : Accounted(u) => Accounted(u)'
      BY <2>1 DEF Accounted
    <2>3. Accounted(hUser[h])'
      BY <2>1 DEF Accounted
    <2> QED
      BY <2>1, <2>2, <2>3 DEF PInv
  <1>3. ASSUME seen' \subseteq seen, UNCHANGED <<recorded, failed>>,
               \A g \in Handler : pc[g] = "append" => pc'[g] = "append" /\ hUser'[g] = hUser[g],
               \A g \in Handler : pc'[g] = "serve" => pc[g] = "serve" /\ hUser'[g] = hUser[g]
        PROVE  PInv'
    <2>1. \A u : Accounted(u) => Accounted(u)'
      BY <1>3 DEF Accounted
    <2> QED
      BY <1>3, <2>1 DEF PInv, Accounted
  <1>4. ASSUME UNCHANGED <<recorded, failed, pc, hUser>>, seen' \subseteq seen PROVE PInv'
    BY <1>3, <1>4
  <1>5. ASSUME NEW h \in Handler, NEW s \in Step \ {"serve"}, pc[h] # "append",
               pc' = [pc EXCEPT ![h] = s], UNCHANGED <<seen, recorded, failed>>,
               \A g \in Handler : g # h => hUser'[g] = hUser[g]
        PROVE  PInv'
    BY <1>0, <1>3, <1>5 DEF TypeOK
  <1>6. CASE EntitlementNext
    BY <1>4, <1>6 DEF EntitlementNext, Grant, Revoke, playVars, localVars
  <1>7. ASSUME NEW h \in Handler, NEW u \in User, NEW d \in BOOLEAN,
              Enroll(h, u, d) \/ Playback(h, u) \/ Authz(h, u)
        PROVE PInv'
    BY <1>0, <1>5, <1>7 DEF Enroll, Playback, Authz, Arrive, Goto, TypeOK, playVars, Step
  <1>8. ASSUME NEW h \in Handler, EnrollGate(h) \/ PlaybackGate(h) \/ Recheck(h) PROVE PInv'
    BY <1>5, <1>8 DEF EnrollGate, PlaybackGate, Recheck, Goto, playVars, localVars, Step
  <1>9. ASSUME NEW h \in Handler, ReadCapacity(h) \/ IsEnrolled(h) \/ CountMembers(h) PROVE PInv'
    BY <1>5, <1>9 DEF ReadCapacity, IsEnrolled, CountMembers, Goto, playVars, localVars, Step
  <1>10. ASSUME NEW h \in Handler, EnrollClass(h) \/ MintPlaybackToken(h) \/ Serve(h) \/ Fail(h)
         PROVE PInv'
    <2>1. Return(h) /\ UNCHANGED <<seen, recorded, failed>> /\ pc[h] # "append"
      BY <1>10 DEF EnrollClass, MintPlaybackToken, Serve, Fail, playVars
    <2> QED
      BY <1>0, <1>5, <2>1 DEF Return, Goto, TypeOK, playVars, Step
  <1>11. CASE \/ CreateClass \/ \E s \in {"draft", "published", "archived"} : SetStatus(s)
              \/ \E n \in 0..MaxCapacity : SetCapacity(n)
              \/ \E u \in User : Unenroll(u)
    BY <1>4, <1>11 DEF CreateClass, SetStatus, SetCapacity, Unenroll, playVars, localVars
  <1>12. ASSUME NEW u \in User, ExpireToken(u) \/ Forget(u) PROVE PInv'
    BY <1>4, <1>12 DEF ExpireToken, Forget, localVars
  <1>13. CASE UNCHANGED vars
    BY <1>4, <1>13 DEF vars, playVars, localVars
  <1> QED
    BY <1>1, <1>2, <1>6, <1>7, <1>8, <1>9, <1>10, <1>11, <1>12, <1>13
    DEF Next, EnrollNext, PlayNext

-----------------------------------------------------------------------------
(* The soft cap                                                            *)

\* People going are counted, and at most one of them for each request.
LEMMA CountGoing ==
  ASSUME IInv
  PROVE  /\ Going \subseteq User
         /\ IsFiniteSet(Going) /\ Cardinality(Going) \in Nat
         /\ Cardinality(Going) <= Cardinality(User)
         /\ Cardinality(members) \in Nat
         /\ Cardinality(Going) <= Cardinality(members) + Cardinality(Handler)
         /\ \A S \in SUBSET Going : Cardinality(S) <= Cardinality(Going) /\ Cardinality(S) \in Nat
  <1> DEFINE Comers == {hUser[h] : h \in Inserting}
             f == [h \in Inserting |-> hUser[h]]
  <1>1. members \subseteq User /\ Comers \subseteq User
    BY DEF IInv, TypeOK, Knows, Inserting
  <1>2. IsFiniteSet(Inserting) /\ Cardinality(Inserting) <= Cardinality(Handler)
    BY HandlerAssumption, FS_Subset DEF Inserting
  <1>3. f \in Surjection(Inserting, Comers)
    BY DEF Surjection
  <1>4. IsFiniteSet(Comers) /\ Cardinality(Comers) <= Cardinality(Inserting)
    BY <1>2, <1>3, FS_Surjection
  <1>5. IsFiniteSet(members) /\ Going = members \cup Comers /\ Going \subseteq User
    BY <1>1, PeopleAssumption, FS_Subset DEF Going
  <1> HIDE DEF Comers
  <1>6. IsFiniteSet(Going) /\ Cardinality(Going) <= Cardinality(User)
    BY <1>5, PeopleAssumption, FS_Subset
  <1>7. IsFiniteSet(members \cap Comers)
    <2>1. members \cap Comers \in SUBSET members
      OBVIOUS
    <2> QED
      BY <1>5, <2>1, FS_Subset
  <1>8. Cardinality(Going) =
          Cardinality(members) + Cardinality(Comers) - Cardinality(members \cap Comers)
    BY <1>4, <1>5, FS_Union
  <1>9. /\ Cardinality(Going) \in Nat /\ Cardinality(members) \in Nat
        /\ Cardinality(Comers) \in Nat /\ Cardinality(members \cap Comers) \in Nat
        /\ Cardinality(Inserting) \in Nat /\ Cardinality(Handler) \in Nat
    BY <1>2, <1>4, <1>5, <1>6, <1>7, HandlerAssumption, FS_CardinalityType
  <1>10. Cardinality(Going) <= Cardinality(members) + Cardinality(Handler)
    BY <1>2, <1>4, <1>8, <1>9
  <1>11. ASSUME NEW S \in SUBSET Going
         PROVE  Cardinality(S) <= Cardinality(Going) /\ Cardinality(S) \in Nat
    BY <1>6, FS_Subset, FS_CardinalityType
  <1> QED
    BY <1>5, <1>6, <1>9, <1>10, <1>11

\* Nobody goes at first.
LEMMA InitGInv == Init => GInv
  BY DEF Init, GInv, Going, Inserting

\* No step but the check of the capacity adds to those going.
LEMMA NextGInv == IInv /\ IInv' /\ GInv /\ [Next]_vars => GInv'
  <1> SUFFICES ASSUME IInv, IInv', GInv, [Next]_vars PROVE GInv'
    OBVIOUS
  <1> USE BoundAssumption
  <1>0. TypeOK /\ widest \in Nat /\ Cardinality(Handler) \in Nat /\ Cardinality(User) \in Nat
    BY HandlerAssumption, PeopleAssumption, FS_CardinalityType DEF IInv, TypeOK
  <1>1. ASSUME Going' \subseteq Going, widest' \in Nat, widest' >= widest PROVE GInv'
    <2>1. SUFFICES ASSUME Going' # {}
                   PROVE  Cardinality(Going') <= widest' + Cardinality(Handler) - 1
      BY DEF GInv
    <2>2. Cardinality(Going) <= widest + Cardinality(Handler) - 1
      BY <1>1, <2>1 DEF GInv
    <2>3. /\ Cardinality(Going') <= Cardinality(Going) /\ Cardinality(Going') \in Nat
          /\ Cardinality(Going) \in Nat
      BY <1>1, CountGoing
    <2> QED
      BY <1>0, <1>1, <2>2, <2>3
  <1>a. /\ \A h \in Handler : Cardinality(Handler) >= 1
        /\ (/\ Cardinality(Going) <= Cardinality(User) /\ Cardinality(Going) \in Nat
            /\ Cardinality(Going) <= Cardinality(members) + Cardinality(Handler)
            /\ Cardinality(members) \in Nat)'
    <2>1. ASSUME NEW h \in Handler PROVE Cardinality(Handler) >= 1
      <3>1. {h} \in SUBSET Handler /\ Cardinality({h}) = 1
        BY FS_Singleton
      <3>2. Cardinality({h}) <= Cardinality(Handler)
        BY <3>1, HandlerAssumption, FS_Subset
      <3> QED
        BY <1>0, <3>1, <3>2
    <2>2. (/\ Cardinality(Going) <= Cardinality(User) /\ Cardinality(Going) \in Nat
           /\ Cardinality(Going) <= Cardinality(members) + Cardinality(Handler)
           /\ Cardinality(members) \in Nat)'
      BY CountGoing, PTL
    <2> QED
      BY <2>1, <2>2
  <1>2. ASSUME NEW h \in Handler, CountMembers(h) PROVE GInv'
    <2> DEFINE n == hCap[h]
    <2>1. /\ n \in Nat /\ widest' \in Nat /\ widest' >= n
          /\ members' = members /\ Cardinality(members) < n
      BY <1>0, <1>2 DEF CountMembers, HasSeat, TypeOK
    <2>2. Cardinality(members') <= n - 1
      BY <1>a, <2>1
    <2> HIDE DEF n
    <2> QED
      BY <1>0, <1>a, <2>1, <2>2 DEF GInv
  <1>b. ASSUME NEW h \in Handler, ReadCapacity(h) PROVE GInv'
    <2>1. CASE capacity = 0
      <3>1. widest' = Cardinality(User)
        BY <1>b, <2>1 DEF ReadCapacity
      <3> QED
        BY <1>0, <1>a, <3>1 DEF GInv
    <2>2. CASE capacity # 0
      <3>1. /\ pc' = [pc EXCEPT ![h] = "member"] /\ "member" \in Step \ {"insert"}
            /\ UNCHANGED <<members, widest, hUser>>
        BY <1>b, <2>2 DEF ReadCapacity, Goto, Step
      <3>2. Going' \subseteq Going
        BY <1>0, <3>1 DEF Going, Inserting, TypeOK
      <3> QED
        BY <1>0, <1>1, <3>1, <3>2
    <2> QED
      BY <2>1, <2>2
  <1>c. ASSUME NEW h \in Handler, IsEnrolled(h) PROVE GInv'
    <2>1. /\ UNCHANGED <<members, widest, hUser>>
          /\ \A g \in Handler : g # h => pc'[g] = pc[g]
          /\ pc'[h] = "insert" => hUser[h] \in members
      BY <1>0, <1>c DEF IsEnrolled, Goto, classVars, localVars, TypeOK
    <2>2. Going' \subseteq Going
      BY <2>1 DEF Going, Inserting
    <2> QED
      BY <1>0, <1>1, <2>1, <2>2
  <1>3. ASSUME NEW h \in Handler, EnrollClass(h) PROVE GInv'
    <2>1. Going' \subseteq Going
      BY <1>0, <1>3 DEF EnrollClass, Return, Goto, TypeOK, Going, Inserting
    <2> QED
      BY <1>0, <1>1, <1>3, <2>1 DEF EnrollClass
  <1>4. ASSUME members' \subseteq members, widest' = widest,
               \A g \in Handler : pc'[g] = "insert" => pc[g] = "insert" /\ hUser'[g] = hUser[g]
        PROVE  GInv'
    <2>1. Going' \subseteq Going
      BY <1>4 DEF Going, Inserting
    <2> QED
      BY <1>0, <1>1, <1>4, <2>1
  <1>5. ASSUME NEW h \in Handler, NEW s \in Step \ {"insert"}, pc' = [pc EXCEPT ![h] = s],
               UNCHANGED <<members, widest>>, \A g \in Handler : g # h => hUser'[g] = hUser[g]
        PROVE  GInv'
    BY <1>0, <1>4, <1>5 DEF TypeOK
  <1>6. CASE EntitlementNext
    BY <1>4, <1>6 DEF EntitlementNext, Grant, Revoke, classVars, localVars
  <1>7. ASSUME NEW h \in Handler, NEW u \in User, NEW d \in BOOLEAN,
              Enroll(h, u, d) \/ Playback(h, u) \/ Authz(h, u)
        PROVE GInv'
    BY <1>0, <1>5, <1>7 DEF Enroll, Playback, Authz, Arrive, Goto, TypeOK, classVars, Step
  <1>8. ASSUME NEW h \in Handler, EnrollGate(h) \/ PlaybackGate(h) \/ Recheck(h) PROVE GInv'
    BY <1>5, <1>8 DEF EnrollGate, PlaybackGate, Recheck, Goto, classVars, localVars, Step
  <1>9. ASSUME NEW h \in Handler, ShouldAuditPlay(h) \/ AuditPlayback(h) PROVE GInv'
    BY <1>5, <1>9 DEF ShouldAuditPlay, AuditPlayback, Goto, classVars, localVars, Step
  <1>10. ASSUME NEW h \in Handler, MintPlaybackToken(h) \/ Serve(h) \/ Fail(h) PROVE GInv'
    <2>1. Return(h) /\ UNCHANGED classVars
      BY <1>10 DEF MintPlaybackToken, Serve, Fail
    <2> QED
      BY <1>0, <1>5, <2>1 DEF Return, Goto, TypeOK, classVars, Step
  <1>11. CASE \/ CreateClass \/ \E s \in {"draft", "published", "archived"} : SetStatus(s)
              \/ \E n \in 0..MaxCapacity : SetCapacity(n)
              \/ \E u \in User : Unenroll(u)
    BY <1>4, <1>11 DEF CreateClass, SetStatus, SetCapacity, Unenroll, localVars
  <1>12. ASSUME NEW u \in User, ExpireToken(u) \/ Forget(u) PROVE GInv'
    BY <1>4, <1>12 DEF ExpireToken, Forget, classVars, localVars
  <1>13. CASE UNCHANGED vars
    BY <1>4, <1>13 DEF vars, classVars, localVars
  <1> QED
    BY <1>2, <1>b, <1>c, <1>3, <1>6, <1>7, <1>8, <1>9, <1>10, <1>11, <1>12, <1>13
    DEF Next, EnrollNext, PlayNext

-----------------------------------------------------------------------------
(* The theorems                                                            *)

\* What a request was told still stands where it matters.
THEOREM Invariance == Spec => []IInv
  BY InitIInv, NextIInv, PTL DEF Spec

\* The state has its type in every reachable state.
THEOREM TypeCorrect == Spec => []TypeOK
  BY Invariance, PTL DEF IInv

\* The audit trail replays to what people own, and whoever sits in a paid class was
\* granted it (GrantEntitlement, RevokeEntitlement, Enroll).
THEOREM TrailAccountsForAccess == Spec => []TrailAccounts
  BY Invariance, PTL DEF IInv, TrailAccounts

\* A request that passed the re-check was the owner's at some time of the request
\* (authz).
THEOREM RevocationHolds == Spec => []RevocationBites
  <1>1. IInv => RevocationBites
    BY DEF IInv, Knows, RevocationBites
  <1> QED
    BY <1>1, Invariance, PTL

\* An entry was asked for after the last view was forgotten, for whoever is served
\* (shouldAuditPlay, AuditPlayback).
THEOREM PlaysAreAccounted == Spec => []NoSilentPlay
  <1>1. PInv => NoSilentPlay
    BY DEF PInv, Accounted, NoSilentPlay
  <1> QED
    BY <1>1, InitPInv, NextPInv, Invariance, PTL DEF Spec

\* The soft cap is overrun by fewer people than requests run at once, for any number
\* of them (Enroll).
THEOREM OvershootIsBounded == Spec => []OvershootBound
  <1>1. IInv /\ GInv => OvershootBound
    <2> SUFFICES ASSUME IInv, GInv, members # {}
                 PROVE  Cardinality(members) <= widest + Cardinality(Handler) - 1
      BY DEF OvershootBound
    <2>1. members \subseteq Going /\ Going # {}
      BY DEF Going
    <2>2. /\ Cardinality(members) <= Cardinality(Going) /\ Cardinality(members) \in Nat
          /\ Cardinality(Going) \in Nat
      BY <2>1, CountGoing
    <2>3. widest \in Nat /\ Cardinality(Handler) \in Nat
      BY HandlerAssumption, FS_CardinalityType DEF IInv, TypeOK
    <2> QED
      BY <2>1, <2>2, <2>3 DEF GInv
  <1> QED
    BY <1>1, InitGInv, NextGInv, Invariance, PTL DEF Spec

-----------------------------------------------------------------------------
(* What a learner is told                                                  *)

\* What the three counts of ListClassCompletions stand for.
AllAttended(u) ==
    /\ u \in enrolled /\ Given # {}
    /\ \A s \in Given : lesson[s] = "ended" /\ joinedAt[<<u, s>>] # Never

LearnInv == LearnTypeOK /\ \A u \in Learner : CompleteMeansAll(u)

\* Two counts agree just when the sets do, if one set is part of the other.
LEMMA CountsAgree ==
  ASSUME NEW S, IsFiniteSet(S), NEW T \in SUBSET S
  PROVE  Cardinality(T) = Cardinality(S) <=> T = S
  BY FS_Subset

\* A class has finitely many sessions, and those that ended or were attended are
\* among them.
LEMMA LessonSets ==
  ASSUME NEW u \in Learner
  PROVE  /\ IsFiniteSet(Given) /\ IsFiniteSet(Ended) /\ Cardinality(Given) \in Nat
         /\ Ended \in SUBSET Given
         /\ Attended(u) \in SUBSET Given
         /\ Attended(u) \cap Ended \in SUBSET Ended
  <1>1. Given \in SUBSET Lesson /\ Ended \in SUBSET Given
    BY DEF Given, Ended
  <1>2. IsFiniteSet(Given)
    BY <1>1, LessonAssumption, FS_Subset
  <1>3. IsFiniteSet(Ended)
    BY <1>1, <1>2, FS_Subset
  <1>4. Cardinality(Given) \in Nat
    BY <1>2, FS_CardinalityType
  <1>5. Attended(u) \in SUBSET Given
    BY DEF Attended
  <1> QED
    BY <1>1, <1>2, <1>3, <1>4, <1>5

\* The counts of a certificate mean full attendance.
LEMMA CountsMeanAll ==
  ASSUME NEW u \in Learner
  PROVE  CompleteMeansAll(u) /\ (Complete(u) <=> AllAttended(u))
  <1>1. Cardinality(Given) > 0 <=> Given # {}
    BY LessonSets, FS_EmptySet
  <1>2. Cardinality(Ended) = Cardinality(Given) <=> Ended = Given
    BY LessonSets, CountsAgree
  <1>3. Cardinality(Attended(u) \cap Ended) = Cardinality(Ended) <=>
          Attended(u) \cap Ended = Ended
    BY LessonSets, CountsAgree
  <1>4. Ended = Given <=> \A s \in Given : lesson[s] = "ended"
    BY DEF Given, Ended
  <1>5. Ended = Given =>
          (Attended(u) \cap Ended = Ended <=> \A s \in Given : joinedAt[<<u, s>>] # Never)
    BY DEF Attended
  <1>6. Complete(u) <=> AllAttended(u)
    BY <1>1, <1>2, <1>3, <1>4, <1>5 DEF Complete, AllAttended
  <1>7. Complete(u) => Progress(u).attended = Progress(u).total
    <2>1. AllAttended(u) => Attended(u) = Given
      BY DEF AllAttended, Attended
    <2> QED
      BY <1>6, <2>1 DEF Progress
  <1> QED
    BY <1>6, <1>7 DEF CompleteMeansAll, AllAttended

LEMMA LearnInitInv == LearnInit => LearnTypeOK
  BY DEF LearnInit, LearnTypeOK

\* Every step keeps the types; a row is dated by the join that makes it.
LEMMA LearnNextInv == LearnTypeOK /\ [LearnNext]_learnVars => LearnTypeOK'
  <1> SUFFICES ASSUME LearnTypeOK, [LearnNext]_learnVars PROVE LearnTypeOK'
    OBVIOUS
  <1>1. ASSUME NEW s \in Lesson, CreateLesson(s) \/ StartLesson(s) \/ EndLesson(s)
        PROVE  LearnTypeOK'
    BY <1>1 DEF CreateLesson, StartLesson, EndLesson, LearnTypeOK
  <1>2. ASSUME NEW u \in Learner, JoinClass(u) \/ LeaveClass(u) PROVE LearnTypeOK'
    BY <1>2 DEF JoinClass, LeaveClass, LearnTypeOK
  <1>3. ASSUME NEW u \in Learner, NEW s \in Lesson, Admit(u, s) PROVE LearnTypeOK'
    BY <1>3 DEF Admit, LearnTypeOK
  <1>4. ASSUME NEW u \in Learner, NEW s \in Lesson, AddRow(u, s) PROVE LearnTypeOK'
    <2>1. CASE UNCHANGED <<joins, joinedAt>>
      BY <1>4, <2>1 DEF AddRow, LearnTypeOK
    <2>2. CASE /\ joins' = joins + 1
               /\ joinedAt' = [joinedAt EXCEPT ![<<u, s>>] = joins']
      <3>1. joins \in Nat /\ joins' \in 1..joins' /\ 1..joins \subseteq 1..joins'
        BY <2>2 DEF LearnTypeOK
      <3>2. joinedAt' \in [Learner \X Lesson -> 1..joins' \cup {Never}]
        BY <2>2, <3>1 DEF LearnTypeOK
      <3>3. joins' # Never
        BY <3>1, NeverAssumption
      <3>4. left' \subseteq {x \in Learner \X Lesson : joinedAt'[x] # Never}
        BY <1>4, <2>2, <3>3 DEF AddRow, LearnTypeOK
      <3> QED
        BY <1>4, <2>2, <3>1, <3>2, <3>4 DEF AddRow, LearnTypeOK
    <2> QED
      BY <1>4, <2>1, <2>2 DEF AddRow
  <1>5. ASSUME NEW u \in Learner, NEW s \in Lesson, LeaveLesson(u, s) PROVE LearnTypeOK'
    BY <1>5 DEF LeaveLesson, LearnTypeOK
  <1>6. CASE UNCHANGED learnVars
    BY <1>6 DEF learnVars, LearnTypeOK
  <1> QED
    BY <1>1, <1>2, <1>3, <1>4, <1>5, <1>6 DEF LearnNext

\* The rows of the learners keep their types, and a certificate is full attendance.
THEOREM LearnInvariance == LearnSpec => []LearnInv
  <1>1. LearnTypeOK => LearnInv
    BY CountsMeanAll DEF LearnInv
  <1> QED
    BY <1>1, LearnInitInv, LearnNextInv, PTL DEF LearnSpec

\* A row, once there, is not dated anew: a second join meets the primary key.
LEMMA RowsStand ==
  ASSUME LearnTypeOK, LearnNext, NEW u \in Learner, NEW s \in Lesson,
         joinedAt[<<u, s>>] # Never
  PROVE  joinedAt'[<<u, s>>] = joinedAt[<<u, s>>]
  <1>1. ASSUME NEW v \in Learner, NEW r \in Lesson, AddRow(v, r)
        PROVE  joinedAt'[<<u, s>>] = joinedAt[<<u, s>>]
    BY <1>1 DEF AddRow, LearnTypeOK
  <1> QED
    BY <1>1 DEF LearnNext, CreateLesson, StartLesson, EndLesson, JoinClass, LeaveClass,
                Admit, LeaveLesson

\* The sessions of the class change only by a new one.
LEMMA GivenStands ==
  ASSUME LearnTypeOK, LearnNext, \A s \in Lesson : ~CreateLesson(s)
  PROVE  Given' = Given
  BY DEF LearnNext, StartLesson, EndLesson, JoinClass, LeaveClass, Admit, AddRow, LeaveLesson,
         Given, LearnTypeOK

\* How a certificate can be lost.
LEMMA CompletionStep ==
  ASSUME LearnTypeOK, LearnNext, NEW u \in Learner, AllAttended(u), ~AllAttended(u)'
  PROVE  \/ \E s \in Lesson : CreateLesson(s)
         \/ \E s \in Lesson : lesson[s] = "ended" /\ StartLesson(s)
         \/ LeaveClass(u)
  <1> SUFFICES ASSUME \A s \in Lesson : ~CreateLesson(s),
                      \A s \in Lesson : lesson[s] = "ended" => ~StartLesson(s),
                      ~LeaveClass(u)
               PROVE  AllAttended(u)'
    OBVIOUS
  <1>1. Given' = Given
    BY GivenStands
  <1>2. u \in enrolled'
    BY DEF AllAttended, LearnNext, StartLesson, EndLesson, JoinClass, LeaveClass, Admit, AddRow,
           LeaveLesson
  <1>3. ASSUME NEW s \in Given PROVE lesson'[s] = "ended"
    <2>1. s \in Lesson /\ lesson[s] = "ended"
      BY DEF AllAttended, Given
    <2>2. ASSUME NEW r \in Lesson, StartLesson(r) PROVE FALSE
      BY <2>2 DEF StartLesson, AllAttended, Given
    <2>3. ASSUME NEW r \in Lesson, EndLesson(r) PROVE lesson'[s] = "ended"
      BY <2>1, <2>3 DEF EndLesson, LearnTypeOK
    <2> QED
      BY <2>1, <2>2, <2>3
         DEF LearnNext, JoinClass, LeaveClass, Admit, AddRow, LeaveLesson
  <1>4. ASSUME NEW s \in Given PROVE joinedAt'[<<u, s>>] # Never
    BY RowsStand DEF AllAttended, Given
  <1> QED
    BY <1>1, <1>2, <1>3, <1>4 DEF AllAttended

\* While a certificate stands, no join moves its date.
LEMMA DateStep ==
  ASSUME LearnTypeOK, LearnNext, NEW u \in Learner, AllAttended(u), AllAttended(u)'
  PROVE  CompletedAt(u)' = CompletedAt(u)
  <1>1. \A s \in Lesson : ~CreateLesson(s)
    BY DEF CreateLesson, AllAttended, Given, LearnTypeOK
  <1>2. Given' = Given
    BY <1>1, GivenStands
  <1>3. Attended(u) \cap Ended = Given /\ (Attended(u) \cap Ended)' = Given'
    BY DEF AllAttended, Attended, Ended, Given
  <1>4. \A s \in Given : joinedAt'[<<u, s>>] = joinedAt[<<u, s>>]
    BY RowsStand DEF AllAttended, Given
  <1>5. {joinedAt'[<<u, s>>] : s \in Given'} = {joinedAt[<<u, s>>] : s \in Given}
    BY <1>2, <1>4
  <1> QED
    BY <1>3, <1>5 DEF CompletedAt

\* A certificate is full attendance, is lost in three ways only and keeps its date, in
\* every step of any number of learners and sessions (ListClassCompletions).
THEOREM CertificatesStand == LearnSpec => CompletionStands
  <1>1. ASSUME LearnInv, LearnInv', [LearnNext]_learnVars
        PROVE  [\A u \in Learner :
                  CompleteMeansAll(u)' /\ CompletionIsKept(u) /\ DateStands(u)]_learnVars
    <2> SUFFICES ASSUME LearnNext, NEW u \in Learner
                 PROVE  CompleteMeansAll(u)' /\ CompletionIsKept(u) /\ DateStands(u)
      BY <1>1
    <2>1. /\ CompleteMeansAll(u) /\ CompleteMeansAll(u)'
          /\ LearnTypeOK
      BY <1>1 DEF LearnInv
    <2>2. (Complete(u) <=> AllAttended(u)) /\ (Complete(u)' <=> AllAttended(u)')
      BY <2>1 DEF CompleteMeansAll, AllAttended
    <2>3. CompletionIsKept(u)
      BY <2>1, <2>2, CompletionStep DEF CompletionIsKept
    <2>4. DateStands(u)
      BY <2>1, <2>2, DateStep DEF DateStands
    <2> QED
      BY <2>1, <2>3, <2>4
  <1> QED
    BY LearnInvariance, <1>1, PTL DEF LearnSpec, CompletionStands

-----------------------------------------------------------------------------
(* The parts beside each other                                             *)

\* What TLC explores, part by part, is a behaviour of both.
LEMMA PartsRun == MCSpec => Spec /\ LearnSpec
  <1>1. MCInit => Init /\ LearnInit
    BY DEF MCInit
  <1>2. [MCNext]_<<vars, learnVars, part>> => [Next]_vars /\ [LearnNext]_learnVars
    BY DEF MCNext, Next
  <1> QED
    BY <1>1, <1>2, PTL DEF MCSpec, Spec, LearnSpec

\* Every part keeps the types of its state, the columns with a CHECK included.
THEOREM PartsAreTyped == MCSpec => []TypesOK
  <1>1. LearnInv => LearnTypeOK
    BY DEF LearnInv
  <1>2. TypeOK /\ LearnTypeOK => TypesOK
    BY DEF TypesOK
  <1> QED
    BY <1>1, <1>2, PartsRun, TypeCorrect, LearnInvariance, PTL
=============================================================================
