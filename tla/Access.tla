-------------------------------- MODULE Access --------------------------------
(***************************************************************************)
(* Who may use one class: its publication, enrollment with its soft cap,   *)
(* entitlements with their audit entries, and playback of its recordings.  *)
(*                                                                         *)
(* Enrollment and the serving check take one action per statement; grant   *)
(* and revoke are transactions on one row of a unique index.  Classes do   *)
(* not interact; one recording stands for all of the class.  Grants of the *)
(* HTTP surface never expire, so neither do entitlements here.             *)
(***************************************************************************)
EXTENDS Naturals, Sequences, FiniteSets

CONSTANTS
    User,
    Handler,      \* concurrently running requests
    MaxCapacity,  \* bound: capacities tried
    MaxTrail,     \* bound: grants and revocations of one person
    NULL

ASSUME PeopleAssumption == IsFiniteSet(User) /\ NULL \notin User
ASSUME HandlerAssumption == IsFiniteSet(Handler)
ASSUME BoundAssumption == MaxCapacity \in Nat /\ MaxTrail \in Nat

VARIABLES
    paid,      \* classes.price_cents > 0
    status,    \* classes.status, "none" before the row exists
    capacity,  \* classes.capacity, 0: unlimited
    members,   \* class_members
    owned,     \* people with an entitlement row that is not revoked
    trail,     \* audit entries about each person's entitlement
    tokens,    \* people with a playback token that has not expired
    seen,      \* playedSeen: people marked within playbackTTL
    recorded,  \* people with a recording.played entry for their mark
    failed,    \* people whose entry for the mark failed, which was logged
    widest,    \* history: most seats an enrollment was let through with
    pc, hUser, hCap,
    hOwned     \* history: the caller owned the class at some time of the request

classVars == <<paid, status, capacity, members, widest>>
entVars == <<owned, trail>>
playVars == <<tokens, seen, recorded, failed>>
localVars == <<hUser, hCap, hOwned>>
vars == <<classVars, entVars, playVars, pc, localVars>>

Step == {"idle",
         "gate",     \* Enroll: EnsureClassAccess next
         "capacity", \* Enroll: ClassCapacity next
         "member",   \* Enroll: IsEnrolled next
         "count",    \* Enroll: CountClassMembers next
         "insert",   \* Enroll: EnrollClass next
         "play",     \* playback: EnsureRecordingAccess next
         "mint",     \* playback: URLs with a token next
         "recheck",  \* authz: EnsureRecordingAccess next
         "mark",     \* authz: shouldAuditPlay next
         "append",   \* authz: AuditPlayback next
         "serve"}    \* authz: 204 to nginx

TypeOK ==
    /\ paid \in BOOLEAN
    /\ status \in {"none", "draft", "published", "archived"}
    /\ capacity \in 0..MaxCapacity
    /\ members \subseteq User
    /\ owned \subseteq User
    /\ trail \in [User -> Seq({"granted", "revoked"})]
    /\ \A u \in User : Len(trail[u]) <= MaxTrail
    /\ tokens \subseteq User
    /\ seen \subseteq User
    /\ recorded \subseteq User
    /\ failed \subseteq User
    /\ widest \in Nat
    /\ pc \in [Handler -> Step]
    /\ hUser \in [Handler -> User \cup {NULL}]
    /\ hCap \in [Handler -> 0..MaxCapacity]
    /\ hOwned \in [Handler -> BOOLEAN]

Init ==
    /\ paid \in BOOLEAN
    /\ status = "none"
    /\ capacity = 0
    /\ members = {}
    /\ owned = {}
    /\ trail = [u \in User |-> <<>>]
    /\ tokens = {}
    /\ seen = {}
    /\ recorded = {}
    /\ failed = {}
    /\ widest = 0
    /\ pc = [h \in Handler |-> "idle"]
    /\ hUser = [h \in Handler |-> NULL]
    /\ hCap = [h \in Handler |-> 0]
    /\ hOwned = [h \in Handler |-> FALSE]

-----------------------------------------------------------------------------
Goto(h, s) == pc' = [pc EXCEPT ![h] = s]

Return(h) ==
    /\ Goto(h, "idle")
    /\ hUser' = [hUser EXCEPT ![h] = NULL]
    /\ hCap' = [hCap EXCEPT ![h] = 0]
    /\ hOwned' = [hOwned EXCEPT ![h] = FALSE]

Arrive(h, u, s) ==
    /\ pc[h] = "idle"
    /\ Goto(h, s)
    /\ hUser' = [hUser EXCEPT ![h] = u]
    /\ hOwned' = [hOwned EXCEPT ![h] = u \in owned]
    /\ UNCHANGED hCap

-----------------------------------------------------------------------------
(* The class and its owner                                                 *)

CreateClass ==
    /\ status = "none"
    /\ status' = "draft"
    /\ UNCHANGED <<paid, capacity, members, widest, entVars, playVars, pc, localVars>>

\* Mutant: whatever the request says becomes the status.
SetStatusUnchecked(s) ==
    /\ status # "none"
    /\ status' \in {s, "deleted"}
    /\ UNCHANGED <<paid, capacity, members, widest, entVars, playVars, pc, localVars>>

\* Any status may follow any other.
SetStatus(s) ==
    /\ status # "none"
    /\ status' = s
    /\ UNCHANGED <<paid, capacity, members, widest, entVars, playVars, pc, localVars>>

\* Members stay when the capacity falls below their number.
SetCapacity(n) ==
    /\ status # "none"
    /\ capacity' = n
    /\ UNCHANGED <<paid, status, members, widest, entVars, playVars, pc, localVars>>

-----------------------------------------------------------------------------
(* Entitlements: a moderator grants and revokes                            *)

\* appendAuditTx, in the transaction of the change.
AppendAudit(u, action) == trail' = [trail EXCEPT ![u] = Append(@, action)]

\* grantEntitlementTx: the partial unique index refuses a second row that is not
\* revoked.
NotEntitled(u) == u \notin owned

Grant(u) ==
    /\ NotEntitled(u)
    /\ Len(trail[u]) < MaxTrail
    /\ owned' = owned \cup {u}
    /\ AppendAudit(u, "granted")
    /\ hOwned' = [h \in Handler |-> hOwned[h] \/ hUser[h] = u]
    /\ UNCHANGED <<classVars, playVars, pc, hUser, hCap>>

\* Nothing is written when there is nothing to revoke.
Revoke(u) ==
    /\ u \in owned
    /\ Len(trail[u]) < MaxTrail
    /\ owned' = owned \ {u}
    /\ AppendAudit(u, "revoked")
    /\ UNCHANGED <<classVars, playVars, pc, localVars>>

HasActiveEntitlement(u) == u \in owned

\* A free class is open to all.
EnsureClassAccess(u) == paid => HasActiveEntitlement(u)

\* The recordings of a session are gated as its class is.
EnsureRecordingAccess(u) == EnsureClassAccess(u)

-----------------------------------------------------------------------------
(* Enroll and Unenroll                                                     *)

\* declared: the token of this request meets the adult declaration.
Enroll(h, u, declared) ==
    /\ declared
    /\ status = "published"
    /\ Arrive(h, u, "gate")
    /\ UNCHANGED <<classVars, entVars, playVars>>

\* Mutant: payment is asked for only after the seat is taken.
EnrollGateOpen(h) ==
    /\ pc[h] = "gate"
    /\ Goto(h, "capacity")
    /\ UNCHANGED <<classVars, entVars, playVars, localVars>>

EnrollGate(h) ==
    /\ pc[h] = "gate"
    /\ EnsureClassAccess(hUser[h])
    /\ Goto(h, "capacity")
    /\ UNCHANGED <<classVars, entVars, playVars, localVars>>

\* Capacity 0 is unlimited, and nobody is counted.
ReadCapacity(h) ==
    /\ pc[h] = "capacity"
    /\ hCap' = [hCap EXCEPT ![h] = capacity]
    /\ widest' = IF capacity = 0 THEN Cardinality(User) ELSE widest
    /\ Goto(h, IF capacity = 0 THEN "insert" ELSE "member")
    /\ UNCHANGED <<paid, status, capacity, members, entVars, playVars, hUser, hOwned>>

\* Whoever is enrolled already needs no seat.
IsEnrolled(h) ==
    /\ pc[h] = "member"
    /\ Goto(h, IF hUser[h] \in members THEN "insert" ELSE "count")
    /\ UNCHANGED <<classVars, entVars, playVars, localVars>>

\* Mutant: the last seat is given away once more.
HasSeatLate(n) == Cardinality(members) <= n

HasSeat(n) == Cardinality(members) < n

CountMembers(h) ==
    /\ pc[h] = "count"
    /\ HasSeat(hCap[h])
    /\ widest' = IF hCap[h] > widest THEN hCap[h] ELSE widest
    /\ Goto(h, "insert")
    /\ UNCHANGED <<paid, status, capacity, members, entVars, playVars, localVars>>

\* ON CONFLICT DO NOTHING
EnrollClass(h) ==
    /\ pc[h] = "insert"
    /\ members' = members \cup {hUser[h]}
    /\ Return(h)
    /\ UNCHANGED <<paid, status, capacity, widest, entVars, playVars>>

Unenroll(u) ==
    /\ members' = members \ {u}
    /\ UNCHANGED <<paid, status, capacity, widest, entVars, playVars, pc, localVars>>

-----------------------------------------------------------------------------
(* Playback                                                                *)

Playback(h, u) ==
    /\ Arrive(h, u, "play")
    /\ UNCHANGED <<classVars, entVars, playVars>>

PlaybackGate(h) ==
    /\ pc[h] = "play"
    /\ EnsureRecordingAccess(hUser[h])
    /\ Goto(h, "mint")
    /\ UNCHANGED <<classVars, entVars, playVars, localVars>>

\* The caller's URL carries a token for playbackTTL, whatever was revoked since the gate.
MintPlaybackToken(h) ==
    /\ pc[h] = "mint"
    /\ tokens' = tokens \cup {hUser[h]}
    /\ Return(h)
    /\ UNCHANGED <<classVars, entVars, seen, recorded, failed>>

ExpireToken(u) ==
    /\ tokens' = tokens \ {u}
    /\ UNCHANGED <<classVars, entVars, seen, recorded, failed, pc, localVars>>

\* authz: parsePlaybackToken checks MAC and expiry.
Authz(h, u) ==
    /\ u \in tokens
    /\ Arrive(h, u, "recheck")
    /\ UNCHANGED <<classVars, entVars, playVars>>

\* Mutant: the token is taken for the entitlement.
RecheckToken(h) ==
    /\ pc[h] = "recheck"
    /\ Goto(h, "mark")
    /\ UNCHANGED <<classVars, entVars, playVars, localVars>>

Recheck(h) ==
    /\ pc[h] = "recheck"
    /\ EnsureRecordingAccess(hUser[h])
    /\ Goto(h, "mark")
    /\ UNCHANGED <<classVars, entVars, playVars, localVars>>

\* Mutant: views are told apart by recording only.
MarkedByAnyone(u) == seen # {}

Marked(u) == u \in seen

\* shouldAuditPlay looks and marks under playedMu, before the entry is written; a new
\* mark asks for a new entry.
ShouldAuditPlay(h) ==
    /\ pc[h] = "mark"
    /\ \/ /\ Marked(hUser[h])
          /\ Goto(h, "serve")
          /\ UNCHANGED <<seen, recorded, failed>>
       \/ /\ ~Marked(hUser[h])
          /\ seen' = seen \cup {hUser[h]}
          /\ recorded' = recorded \ {hUser[h]}
          /\ failed' = failed \ {hUser[h]}
          /\ Goto(h, "append")
    /\ UNCHANGED <<classVars, entVars, tokens, localVars>>

\* A failed entry is logged and does not stop the view.
AuditPlayback(h) ==
    /\ pc[h] = "append"
    /\ \/ recorded' = recorded \cup {hUser[h]} /\ UNCHANGED failed
       \/ failed' = failed \cup {hUser[h]} /\ UNCHANGED recorded
    /\ Goto(h, "serve")
    /\ UNCHANGED <<classVars, entVars, tokens, seen, localVars>>

Serve(h) ==
    /\ pc[h] = "serve"
    /\ Return(h)
    /\ UNCHANGED <<classVars, entVars, playVars>>

\* playbackTTL has passed since the mark.
Forget(u) ==
    /\ seen' = seen \ {u}
    /\ UNCHANGED <<classVars, entVars, tokens, recorded, failed, pc, localVars>>

\* A check refuses or a statement fails.  An audit append that is cut short is a
\* failed one.
Fail(h) ==
    /\ pc[h] \in Step \ {"idle", "append"}
    /\ Return(h)
    /\ UNCHANGED <<classVars, entVars, playVars>>

-----------------------------------------------------------------------------
EntitlementNext == \E u \in User : Grant(u) \/ Revoke(u)

EnrollNext ==
    \/ CreateClass
    \/ \E s \in {"draft", "published", "archived"} : SetStatus(s)
    \/ \E n \in 0..MaxCapacity : SetCapacity(n)
    \/ \E u \in User : Unenroll(u)
    \/ \E h \in Handler :
         \/ \E u \in User, declared \in BOOLEAN : Enroll(h, u, declared)
         \/ EnrollGate(h) \/ ReadCapacity(h) \/ IsEnrolled(h) \/ CountMembers(h) \/ EnrollClass(h)

PlayNext ==
    \/ \E u \in User : ExpireToken(u) \/ Forget(u)
    \/ \E h \in Handler :
         \/ \E u \in User : Playback(h, u) \/ Authz(h, u)
         \/ PlaybackGate(h) \/ MintPlaybackToken(h)
         \/ Recheck(h) \/ ShouldAuditPlay(h) \/ AuditPlayback(h) \/ Serve(h)

Next ==
    \/ EntitlementNext
    \/ EnrollNext
    \/ PlayNext
    \/ \E h \in Handler : Fail(h)

Spec == Init /\ [][Next]_vars

-----------------------------------------------------------------------------
(* Properties                                                              *)

\* The soft cap is overrun by no more than the enrollments that ran at once, whatever
\* the owner does to the capacity meanwhile (Enroll: count, then insert).
OvershootBound ==
    members # {} => Cardinality(members) <= widest + Cardinality(Handler) - 1

\* Whoever sits in a paid class was granted it once, on the audit trail (Enroll).
\* The seat outlives a revocation.
PaidSeatsWereGranted == paid => \A u \in members : trail[u] # <<>>

\* The audit trail of a person replays to what the person owns: grants and
\* revocations alternate, and the last one says how it stands now.
TrailReplays ==
    \A u \in User :
        /\ \A i \in DOMAIN trail[u] : trail[u][i] = "granted" <=> i % 2 = 1
        /\ u \in owned <=> Len(trail[u]) % 2 = 1

\* A playback token does not outlive the entitlement: a request that is let through
\* was the owner's at some time after it began, so one that begins after a revocation
\* is refused (authz: the live re-check).
RevocationBites ==
    \A h \in Handler : pc[h] \in {"mark", "append", "serve"} => (paid => hOwned[h])

\* Nobody watches in silence: when somebody is served, an entry was asked for after the
\* last view was forgotten, and it is written, on its way, or failed and was logged; one
\* entry stands for all the range requests of a view (shouldAuditPlay, AuditPlayback).
NoSilentPlay ==
    \A h \in Handler : pc[h] = "serve" =>
        \/ hUser[h] \in recorded \cup failed
        \/ \E g \in Handler : pc[g] = "append" /\ hUser[g] = hUser[h]

\* The audit trail accounts for access: it replays to what people own, and everybody in
\* a paid class was granted it once (Grant, Revoke, Enroll).
TrailAccounts == TrailReplays /\ PaidSeatsWereGranted
=============================================================================
