----------------------------- MODULE LiveSession -----------------------------
(***************************************************************************)
(* One live session: creation with its host, joining and leaving, starting *)
(* and ending, the room tokens handed to clients and the presence events   *)
(* written for them.  Sessions do not interact.                            *)
(*                                                                         *)
(* A request takes one action per database statement; the insert of a      *)
(* participant is a transaction whose trigger locks the session row,       *)
(* counts and only then inserts.  Reads for discovery (ListForClass,       *)
(* Detail) and refusals that change nothing are not steps of their own.    *)
(*                                                                         *)
(* Each request comes with the claims of its own access token: tiers and   *)
(* capabilities of one person come and go between requests.                *)
(***************************************************************************)
EXTENDS Naturals, FiniteSets

CONSTANTS
    User,
    ClassOwner,  \* instructor_id of the class
    Handler,     \* concurrently running requests
    MaxDirect,   \* the cap of a direct session
    NULL

ASSUME UserAssumption == IsFiniteSet(User) /\ ClassOwner \in User
ASSUME CapAssumption == MaxDirect \in Nat \ {0}
ASSUME NullAssumption == NULL \notin User \cup Handler

VARIABLES
    kind,     \* sessions.kind, "none" before the row exists
    status,   \* sessions.status
    row,      \* role in the session_participants row, "none" without one
    present,  \* people whose row has left_at IS NULL
    rowLock,  \* request holding the session row FOR UPDATE
    trail,    \* presence_events, as a set
    granted,  \* room tokens that reached a client
    pc,       \* next step of each request
    hUser,    \* its caller
    hRole,    \* role it works with
    hFull     \* what its trigger counted: the room is full

tableVars == <<kind, status, row, present>>
localVars == <<hUser, hRole, hFull>>
vars == <<tableVars, rowLock, trail, granted, pc, localVars>>

\* What a request's access token says of its caller: phone verification or a higher
\* tier, and the capability to instruct.
Claim == {"phone_verified", "can_instruct"}

Role == {"host", "participant"}
PresenceEvent == [user : User, action : {"join", "leave"}, role : Role]
VideoGrant == [user : User, canPublish : BOOLEAN]

Step == {"idle",
         "roster",    \* Join: ListActiveParticipants next
         "lock",      \* AddParticipant: SELECT ... FOR UPDATE next
         "count",     \* trigger: count the present participants
         "insert",    \* the row is inserted and committed
         "record",    \* Join: AppendPresenceEvent next
         "reply",     \* Join: the token goes to the client
         "departing", \* Leave: AppendPresenceEvent next
         "remove",    \* Leave: RemoveParticipant next
         "setLive", "setEnded"}

TypeOK ==
    /\ kind \in {"none", "class", "direct"}
    /\ status \in {"none", "scheduled", "live", "ended"}
    /\ row \in [User -> Role \cup {"none"}]
    /\ present \subseteq {u \in User : row[u] # "none"}
    /\ rowLock \in Handler \cup {NULL}
    /\ trail \subseteq PresenceEvent
    /\ granted \subseteq VideoGrant
    /\ pc \in [Handler -> Step]
    /\ hUser \in [Handler -> User \cup {NULL}]
    /\ hRole \in [Handler -> Role \cup {"none"}]
    /\ hFull \in [Handler -> BOOLEAN]

Init ==
    /\ kind = "none"
    /\ status = "none"
    /\ row = [u \in User |-> "none"]
    /\ present = {}
    /\ rowLock = NULL
    /\ trail = {}
    /\ granted = {}
    /\ pc = [h \in Handler |-> "idle"]
    /\ hUser = [h \in Handler |-> NULL]
    /\ hRole = [h \in Handler |-> "none"]
    /\ hFull = [h \in Handler |-> FALSE]

-----------------------------------------------------------------------------
Goto(h, s) == pc' = [pc EXCEPT ![h] = s]

Return(h) ==
    /\ Goto(h, "idle")
    /\ hUser' = [hUser EXCEPT ![h] = NULL]
    /\ hRole' = [hRole EXCEPT ![h] = "none"]
    /\ hFull' = [hFull EXCEPT ![h] = FALSE]

\* A request of u arrives and goes to step s with role r.
Arrive(h, u, s, r) ==
    /\ pc[h] = "idle"
    /\ Goto(h, s)
    /\ hUser' = [hUser EXCEPT ![h] = u]
    /\ hRole' = [hRole EXCEPT ![h] = r]
    /\ UNCHANGED hFull

-----------------------------------------------------------------------------
(* CreateSession and AddParticipant                                        *)

\* Mutant: nobody asks whose class it is.
MayCreateAnyClass(u, k, claims) ==
    /\ "phone_verified" \in claims
    /\ k = "class" => "can_instruct" \in claims

MayCreate(u, k, claims) ==
    /\ "phone_verified" \in claims
    /\ k = "class" => "can_instruct" \in claims /\ u = ClassOwner

\* The session row is committed before its host is added.
CreateSession(h, u, k, claims) ==
    /\ kind = "none"
    /\ MayCreate(u, k, claims)
    /\ kind' = k
    /\ status' = "scheduled"
    /\ Arrive(h, u, "lock", "host")
    /\ UNCHANGED <<row, present, rowLock, trail, granted>>

\* Mutant: the count is taken without a lock of the session row.
LockSessionShared(h) ==
    /\ pc[h] = "lock"
    /\ rowLock' = h
    /\ Goto(h, "count")
    /\ UNCHANGED <<tableVars, trail, granted, localVars>>

LockSession(h) ==
    /\ pc[h] = "lock"
    /\ rowLock = NULL
    /\ rowLock' = h
    /\ Goto(h, "count")
    /\ UNCHANGED <<tableVars, trail, granted, localVars>>

\* Only people who are present count, and only a direct session is capped.
RoomFull == kind = "direct" /\ Cardinality(present) >= MaxDirect

CountPresent(h) ==
    /\ pc[h] = "count"
    /\ hFull' = [hFull EXCEPT ![h] = RoomFull]
    /\ Goto(h, "insert")
    /\ UNCHANGED <<tableVars, rowLock, trail, granted, hUser, hRole>>

\* Mutant: left_at of an earlier row is cleared, so its role is overwritten.
KeyFreeIfLeft(u) == u \notin present

\* PRIMARY KEY (session_id, user_id): also the row of somebody who left.
KeyFree(u) == row[u] = "none"

InsertParticipant(h) ==
    /\ pc[h] = "insert"
    /\ ~hFull[h]
    /\ KeyFree(hUser[h])
    /\ row' = [row EXCEPT ![hUser[h]] = hRole[h]]
    /\ present' = present \cup {hUser[h]}
    /\ rowLock' = NULL
    /\ \/ hRole[h] = "participant" /\ Goto(h, "record") /\ UNCHANGED localVars
       \/ hRole[h] = "host" /\ Return(h)
    /\ UNCHANGED <<kind, status, trail, granted>>

\* The cap or the key refuses the row and the transaction is rolled back.
InsertRefused(h) ==
    /\ pc[h] = "insert"
    /\ hFull[h] \/ ~KeyFree(hUser[h])
    /\ rowLock' = NULL
    /\ Return(h)
    /\ UNCHANGED <<tableVars, trail, granted>>

-----------------------------------------------------------------------------
(* Join                                                                    *)

\* GetSession's status is read once, here.
Join(h, u, claims) ==
    /\ "phone_verified" \in claims
    /\ status \in {"scheduled", "live"}
    /\ Arrive(h, u, "roster", "none")
    /\ UNCHANGED <<tableVars, rowLock, trail, granted>>

RoleOnRoster(u) == row[u]

\* roleFor: whoever is present keeps the role, anybody else is admitted.
RoleFor(h) ==
    /\ pc[h] = "roster"
    /\ \/ /\ hUser[h] \in present
          /\ hRole' = [hRole EXCEPT ![h] = RoleOnRoster(hUser[h])]
          /\ Goto(h, "record")
       \/ /\ hUser[h] \notin present
          /\ hRole' = [hRole EXCEPT ![h] = "participant"]
          /\ Goto(h, "lock")
    /\ UNCHANGED <<tableVars, rowLock, trail, granted, hUser, hFull>>

EventOf(h, a) == [user |-> hUser[h], action |-> a, role |-> hRole[h]]

\* Mutant: presence is best effort.
RecordJoinMaybe(h) ==
    /\ pc[h] = "record"
    /\ \/ trail' = trail \cup {EventOf(h, "join")}
       \/ UNCHANGED trail
    /\ Goto(h, "reply")
    /\ UNCHANGED <<tableVars, rowLock, granted, localVars>>

RecordJoin(h) ==
    /\ pc[h] = "record"
    /\ trail' = trail \cup {EventOf(h, "join")}
    /\ Goto(h, "reply")
    /\ UNCHANGED <<tableVars, rowLock, granted, localVars>>

\* Hosts publish; in a direct session both peers do.
GrantOf(h) ==
    [user |-> hUser[h], canPublish |-> hRole[h] = "host" \/ kind = "direct"]

JoinReply(h) ==
    /\ pc[h] = "reply"
    /\ granted' = granted \cup {GrantOf(h)}
    /\ Return(h)
    /\ UNCHANGED <<tableVars, rowLock, trail>>

-----------------------------------------------------------------------------
(* Leave, Start and End                                                    *)

\* A departure is recorded for somebody who is present when the roster is read.
Leave(h, u) ==
    /\ kind # "none"
    /\ \/ u \in present /\ Arrive(h, u, "departing", row[u])
       \/ u \notin present /\ Arrive(h, u, "remove", "none")
    /\ UNCHANGED <<tableVars, rowLock, trail, granted>>

RecordLeave(h) ==
    /\ pc[h] = "departing"
    /\ trail' = trail \cup {EventOf(h, "leave")}
    /\ Goto(h, "remove")
    /\ UNCHANGED <<tableVars, rowLock, granted, localVars>>

RemoveParticipant(h) ==
    /\ pc[h] = "remove"
    /\ present' = present \ {hUser[h]}
    /\ Return(h)
    /\ UNCHANGED <<kind, status, row, rowLock, trail, granted>>

\* requireHost
IsHost(u) == u \in present /\ row[u] = "host"

Start(h, u) ==
    /\ IsHost(u)
    /\ Arrive(h, u, "setLive", "none")
    /\ UNCHANGED <<tableVars, rowLock, trail, granted>>

End(h, u) ==
    /\ IsHost(u)
    /\ Arrive(h, u, "setEnded", "none")
    /\ UNCHANGED <<tableVars, rowLock, trail, granted>>

\* UPDATE sessions waits for whoever holds the row; any status may be overwritten.
SetStatus(h) ==
    /\ rowLock = NULL
    /\ \/ pc[h] = "setLive" /\ status' = "live"
       \/ pc[h] = "setEnded" /\ status' = "ended"
    /\ Return(h)
    /\ UNCHANGED <<kind, row, present, rowLock, trail, granted>>

-----------------------------------------------------------------------------
\* A statement fails, or the client or the process goes away: the request is
\* over, an open transaction is rolled back, what was committed stays.
Fail(h) ==
    /\ pc[h] # "idle"
    /\ rowLock' = IF rowLock = h THEN NULL ELSE rowLock
    /\ Return(h)
    /\ UNCHANGED <<tableVars, trail, granted>>

HandlerStep(h) ==
    \/ LockSession(h) \/ CountPresent(h) \/ InsertParticipant(h) \/ InsertRefused(h)
    \/ RoleFor(h) \/ RecordJoin(h) \/ JoinReply(h)
    \/ RecordLeave(h) \/ RemoveParticipant(h)
    \/ SetStatus(h)

Request(h) ==
    \E u \in User :
        \/ \E claims \in SUBSET Claim, k \in {"class", "direct"} :
              CreateSession(h, u, k, claims)
        \/ \E claims \in SUBSET Claim : Join(h, u, claims)
        \/ Leave(h, u) \/ Start(h, u) \/ End(h, u)

Next == \E h \in Handler : Request(h) \/ HandlerStep(h) \/ Fail(h)

Spec == Init /\ [][Next]_vars

-----------------------------------------------------------------------------
(* Properties                                                              *)

\* Two requests cannot squeeze a third person into a direct session: the trigger
\* of AddParticipant counts and inserts under the lock of the session row.
DirectCap == kind = "direct" => Cardinality(present) <= MaxDirect

\* Every room token in a client's hands is backed by a participant row and by a
\* join on the presence trail that carries the role of that row (session.Join).
GrantOnTrail ==
    \A g \in granted :
        /\ row[g.user] # "none"
        /\ [user |-> g.user, action |-> "join", role |-> row[g.user]] \in trail

\* The lock of the session row is never left behind: its holder is a request about
\* to count or to insert, or nobody, so nobody waits for a lock without an owner
\* (AddParticipant's trigger; Start and End wait for the same row).
LockHasOwner == rowLock # NULL => pc[rowLock] \in {"count", "insert"}

\* In a class only its own instructor holds a token that publishes, however joins
\* and departures of others interleave and whoever else may instruct (CreateSession,
\* roleFor, Join).
OnlyOwnerPublishes ==
    kind = "class" => \A g \in granted : g.canPublish => g.user = ClassOwner

\* What the presence trail says of a person is what the roster says: the role of
\* every event is the role in the person's row (Join, Leave).
TrailMatchesRoster == \A e \in trail : row[e.user] = e.role

\* The presence trail can be read for the roster: it has every token that was given
\* out, and says of nobody what the roster does not (Join, Leave).
TrailIsFaithful == GrantOnTrail /\ TrailMatchesRoster

\* A session whose host could not be added is never started or ended: whoever set
\* the status had the host's row (CreateSession, requireHost).
RunByHost == status \in {"live", "ended"} => \E u \in User : row[u] = "host"

\* The roster is the one the recording gate and the presence trail rely on: one
\* row for each person, entered once and left for good, at most cap people present.
RosterCap == CASE kind = "none"   -> 0
               [] kind = "class"  -> Cardinality(User)
               [] kind = "direct" -> MaxDirect

Promise == INSTANCE Roster
           WITH User <- User, Role <- Role, NoRole <- "none",
                row <- row, present <- present, cap <- RosterCap

\* LiveSession implements Roster: every step of every request is an arrival, a
\* departure, the opening of the session, or changes nothing of the roster.
ImplementsRoster == Promise!Spec
=============================================================================
