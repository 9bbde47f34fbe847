---------------------------- MODULE AuthSessions ----------------------------
(***************************************************************************)
(* Session tokens of authd: refresh-token rotation with reuse detection,   *)
(* access tokens with a revoke-all generation (users.token_version) and a  *)
(* jti denylist, and the account operations that revoke them.              *)
(*                                                                         *)
(* Every HTTP request runs in a handler of its own against Postgres at     *)
(* READ COMMITTED.  A handler takes one action per committed statement or  *)
(* transaction boundary: what a transaction wrote becomes visible at its   *)
(* commit, so its writes are made by the action that commits.  A row lock  *)
(* (SELECT ... FOR UPDATE, or an UPDATE of the row) lasts to the end of    *)
(* the transaction.  A multi-row UPDATE fixes the rows it may touch when   *)
(* it starts (its snapshot, hRows) and locks the live ones one by one, in  *)
(* an order the query plan chooses, holding those it has while it waits    *)
(* for the next; rows inserted in the meantime are not in the snapshot and *)
(* are not touched.  A request that waits for its first lock is as much    *)
(* under way as one that waits for its second; a circle of waiters is      *)
(* broken by Postgres, which fails one of them.                            *)
(*                                                                         *)
(* The access token minted together with refresh token t is identified     *)
(* with t: each mint has its own jti and returns one refresh token.        *)
(***************************************************************************)
EXTENDS Naturals, FiniteSets

CONSTANTS
    User,       \* accounts
    Token,      \* refresh-token ids (opaque, never reused)
    Handler,    \* concurrently running requests
    MaxVersion, \* bound: no request is sent that would bump token_version past it
    NULL

ASSUME NullAssumption == NULL \notin User \cup Token \cup Handler
ASSUME MaxVersionAssumption == MaxVersion \in Nat

VARIABLES
    \* users
    status,       \* users.status
    tokenVersion, \* users.token_version
    userLock,     \* the handler whose open transaction has updated the row
    \* refresh_tokens
    rows,         \* ids of committed rows
    owner,        \* user_id
    family,       \* family_id; the id of the first token of the chain
    revoked,      \* rows with revoked_at set
    replacedBy,   \* replaced_by_id
    expired,      \* rows whose expires_at has passed
    rowLock,      \* the handler that locked the row FOR UPDATE
    \* access tokens and revoked_tokens
    minted,       \* sessions (pairs of tokens) returned to a client
    accessVer,    \* the tver claim of the access token
    denylist,     \* revoked_tokens
    \* handlers
    pc,           \* the next step of the request
    hTok,         \* presented token, later the token being issued
    hAcc,         \* the caller's access token
    hUser,        \* the account the request is about
    hRows,        \* snapshot of the running multi-row UPDATE
    hTodo,        \* its live rows the UPDATE has not locked yet
    hVer,         \* token_version read by mint
    \* history
    sealed        \* families a completed revocation covered in full

userVars == <<status, tokenVersion, userLock>>
rowVars == <<rows, owner, family, revoked, replacedBy, expired, rowLock>>
accessVars == <<minted, accessVer, denylist>>
localVars == <<hTok, hAcc, hUser, hRows, hTodo, hVer>>
vars == <<userVars, rowVars, accessVars, pc, localVars, sealed>>

Status == {"pending", "active", "suspended", "deleted"}

\* Steps of a request, named for what it is about to do.
Step == {"idle",
         "present",      \* Refresh: the presented row is to be locked
         "rotate",       \* Refresh: presented row locked, read as usable
         "theft",        \* Refresh: presented row locked, read as reused
         "reuse",        \* Refresh: family UPDATE of the theft response
         "readUser",     \* Refresh: rotated, GetUser next
         "insert",       \* IssueSession: account checked, INSERT next
         "readVersion",  \* mint: CurrentTokenVersion next
         "sign",         \* mint: MintAccess next
         "family",       \* Logout: caller validated, family looked up next
         "logout",       \* Logout: family UPDATE
         "denylist",     \* Logout: RevokeAccessToken next
         "all",          \* LogoutEverywhere: caller validated
         "everywhere",   \* LogoutEverywhere: UPDATE of all the user's rows
         "bump",         \* LogoutEverywhere: BumpTokenVersion next
         "lockUser",     \* Suspend: the users row is to be updated
         "suspend",      \* Suspend: users row updated, not committed
         "suspendRows",  \* Suspend: UPDATE of all the user's rows
         "close"}        \* CloseAccount: caller validated

TypeOK ==
    /\ status \in [User -> Status]
    /\ tokenVersion \in [User -> Nat]
    /\ userLock \in [User -> Handler \cup {NULL}]
    /\ rows \subseteq Token
    /\ owner \in [Token -> User \cup {NULL}]
    /\ family \in [Token -> Token \cup {NULL}]
    /\ revoked \subseteq Token
    /\ replacedBy \in [Token -> Token \cup {NULL}]
    /\ expired \subseteq Token
    /\ rowLock \in [Token -> Handler \cup {NULL}]
    /\ minted \subseteq Token
    /\ accessVer \in [Token -> Nat]
    /\ denylist \subseteq Token
    /\ pc \in [Handler -> Step]
    /\ hTok \in [Handler -> Token \cup {NULL}]
    /\ hAcc \in [Handler -> Token \cup {NULL}]
    /\ hUser \in [Handler -> User \cup {NULL}]
    /\ hRows \in [Handler -> SUBSET Token]
    /\ hTodo \in [Handler -> SUBSET Token]
    /\ hVer \in [Handler -> Nat]
    /\ sealed \subseteq Token

Init ==
    /\ status = [u \in User |-> "pending"]
    /\ tokenVersion = [u \in User |-> 0]
    /\ userLock = [u \in User |-> NULL]
    /\ rows = {}
    /\ owner = [t \in Token |-> NULL]
    /\ family = [t \in Token |-> NULL]
    /\ revoked = {}
    /\ replacedBy = [t \in Token |-> NULL]
    /\ expired = {}
    /\ rowLock = [t \in Token |-> NULL]
    /\ minted = {}
    /\ accessVer = [t \in Token |-> 0]
    /\ denylist = {}
    /\ pc = [h \in Handler |-> "idle"]
    /\ hTok = [h \in Handler |-> NULL]
    /\ hAcc = [h \in Handler |-> NULL]
    /\ hUser = [h \in Handler |-> NULL]
    /\ hRows = [h \in Handler |-> {}]
    /\ hTodo = [h \in Handler |-> {}]
    /\ hVer = [h \in Handler |-> 0]
    /\ sealed = {}

-----------------------------------------------------------------------------
(* What the store and the validator compute.                               *)

canHoldSession(s) == s \in {"pending", "active"}

\* Mutants: the validator looks at the account's status in place of its
\* generation; it accepts older generations.
ValidateByStatus(t) ==
    t \in minted /\ t \notin denylist /\ canHoldSession(status[owner[t]])
ValidateOlder(t) ==
    t \in minted /\ t \notin denylist /\ accessVer[t] <= tokenVersion[owner[t]]

\* An access token the validator accepts: not denylisted, and minted under the
\* generation its account has now.  Signature and expiry are taken as good.
Validate(t) ==
    /\ t \in minted
    /\ t \notin denylist
    /\ accessVer[t] = tokenVersion[owner[t]]

Live(t) == t \in rows /\ t \notin revoked

\* Mutant: only a rotated row counts as reuse, a revoked one does not.
ReusedIfReplaced(t) == replacedBy[t] # NULL

\* The row has been rotated away or revoked: presenting it again is reuse.
Reused(t) == t \in revoked \/ replacedBy[t] # NULL

FamilyRows(f) == {t \in rows : family[t] = f}
UserRows(u) == {t \in rows : owner[t] = u}

\* Mutant: the row is read without FOR UPDATE.
RowFreeUnlocked(h, t) == TRUE

\* Nobody else's transaction holds the row.
RowFree(h, t) == rowLock[t] \in {NULL, h}
UserFree(h, u) == userLock[u] \in {NULL, h}

\* The multi-row UPDATE of h starts on rows R: of those it sees, it is going to
\* lock the ones that are live now.
StartUpdate(h, R) ==
    /\ hRows' = [hRows EXCEPT ![h] = R]
    /\ hTodo' = [hTodo EXCEPT ![h] = R \ revoked]

\* The steps in which a multi-row UPDATE of refresh_tokens runs.
Updating(h) == pc[h] \in {"reuse", "logout", "everywhere", "suspendRows"}

\* The families of snapshot R in which no row has been inserted since.
Covered(R) == {f \in {family[t] : t \in R} : FamilyRows(f) \subseteq R}

\* UPDATE refresh_tokens SET revoked_at ... WHERE ... AND revoked_at IS NULL
RevokeRows(R) ==
    /\ revoked' = revoked \cup R
    /\ sealed' = sealed \cup Covered(R)

\* INSERT INTO refresh_tokens
InsertRow(n, u, f) ==
    /\ rows' = rows \cup {n}
    /\ owner' = [owner EXCEPT ![n] = u]
    /\ family' = [family EXCEPT ![n] = f]

Bump(u) == tokenVersion' = [tokenVersion EXCEPT ![u] = @ + 1]

\* Requests under way that are going to bump the generation of u.
Bumping(u) ==
    {h \in Handler : hUser[h] = u /\ pc[h] \in
        {"all", "everywhere", "bump", "lockUser", "suspend", "suspendRows", "close"}}

\* The bound MaxVersion: what is sent leaves room for what is under way.
RoomToBump(u) == tokenVersion[u] + Cardinality(Bumping(u)) < MaxVersion

\* Presenting t creates no token, now or later.
Spent(t) == Reused(t) \/ t \in expired

\* Requests under way that may still create a refresh token.
Creating ==
    {h \in Handler :
        pc[h] = "insert" \/ (pc[h] \in {"present", "rotate"} /\ ~Spent(hTok[h]))}

\* The bound on Token: a fresh id is left for a request that is sent now.
RoomForToken == Cardinality(Creating) < Cardinality(Token \ rows)

\* A handler's request ends and the end of its transaction frees its locks.
Return(h) ==
    /\ pc' = [pc EXCEPT ![h] = "idle"]
    /\ hTok' = [hTok EXCEPT ![h] = NULL]
    /\ hAcc' = [hAcc EXCEPT ![h] = NULL]
    /\ hUser' = [hUser EXCEPT ![h] = NULL]
    /\ hRows' = [hRows EXCEPT ![h] = {}]
    /\ hTodo' = [hTodo EXCEPT ![h] = {}]
    /\ hVer' = [hVer EXCEPT ![h] = 0]

Goto(h, s) == pc' = [pc EXCEPT ![h] = s]

\* Mutant: the transaction is left open.
UnlockRowsNever(h) == UNCHANGED rowLock

UnlockRows(h) ==
    rowLock' = [t \in Token |-> IF rowLock[t] = h THEN NULL ELSE rowLock[t]]
UnlockUsers(h) ==
    userLock' = [u \in User |-> IF userLock[u] = h THEN NULL ELSE userLock[u]]

\* A running UPDATE gets the next row of its snapshot, in any order.  It keeps
\* the row locked even where it finds it revoked in the meantime.
LockRow(h, t) ==
    /\ Updating(h)
    /\ t \in hTodo[h]
    /\ RowFree(h, t)
    /\ rowLock' = [rowLock EXCEPT ![t] = h]
    /\ hTodo' = [hTodo EXCEPT ![h] = @ \ {t}]
    /\ UNCHANGED <<userVars, rows, owner, family, revoked, replacedBy, expired,
                   accessVars, pc, hTok, hAcc, hUser, hRows, hVer, sealed>>

-----------------------------------------------------------------------------
(* Refresh                                                                 *)

\* A client presents refresh token t; an unknown one is answered with nothing
\* changed.
Refresh(h, t) ==
    /\ pc[h] = "idle"
    /\ t \in minted
    /\ Spent(t) \/ RoomForToken
    /\ hTok' = [hTok EXCEPT ![h] = t]
    /\ Goto(h, "present")
    /\ UNCHANGED <<userVars, rowVars, accessVars, hAcc, hUser, hRows, hTodo, hVer,
                   sealed>>

\* RotateRefreshToken locks the presented row and reads it.
RotateLock(h) ==
    /\ pc[h] = "present"
    /\ RowFree(h, hTok[h])
    /\ rowLock' = [rowLock EXCEPT ![hTok[h]] = h]
    /\ Goto(h, IF Reused(hTok[h]) THEN "theft" ELSE "rotate")
    /\ UNCHANGED <<userVars, rows, owner, family, revoked, replacedBy, expired,
                   accessVars, localVars, sealed>>

\* The presented token was already rotated or revoked: the theft response
\* starts its UPDATE of the family.
RotateReuse(h) ==
    /\ pc[h] = "theft"
    /\ StartUpdate(h, FamilyRows(family[hTok[h]]))
    /\ Goto(h, "reuse")
    /\ UNCHANGED <<userVars, rowVars, accessVars, hTok, hAcc, hUser, hVer, sealed>>

\* The theft response commits and Refresh answers ErrUnauthenticated.
RotateReuseCommit(h) ==
    /\ pc[h] = "reuse"
    /\ hTodo[h] = {}
    /\ RevokeRows(hRows[h])
    /\ UnlockRows(h)
    /\ Return(h)
    /\ UNCHANGED <<userVars, rows, owner, family, replacedBy, expired, accessVars>>

\* An expired token rotates nothing and is not reuse.
RotateExpired(h) ==
    /\ pc[h] = "rotate"
    /\ hTok[h] \in expired
    /\ UnlockRows(h)
    /\ Return(h)
    /\ UNCHANGED <<userVars, rows, owner, family, revoked, replacedBy, expired,
                   accessVars, sealed>>

\* The successor n is inserted in the same family, the presented row is marked
\* revoked and replaced, and the transaction commits.
RotateCommit(h, n) ==
    /\ pc[h] = "rotate"
    /\ hTok[h] \notin expired
    /\ n \in Token \ rows
    /\ InsertRow(n, owner[hTok[h]], family[hTok[h]])
    /\ revoked' = revoked \cup {hTok[h]}
    /\ replacedBy' = [replacedBy EXCEPT ![hTok[h]] = n]
    /\ UnlockRows(h)
    /\ hTok' = [hTok EXCEPT ![h] = n]
    /\ hUser' = [hUser EXCEPT ![h] = owner[hTok[h]]]
    /\ Goto(h, "readUser")
    /\ UNCHANGED <<userVars, expired, accessVars, hAcc, hRows, hTodo, hVer, sealed>>

\* Mutant: the account is not looked at again after the rotation.
RefreshReadUserUnchecked(h) ==
    /\ pc[h] = "readUser"
    /\ Goto(h, "readVersion")
    /\ UNCHANGED <<userVars, rowVars, accessVars, localVars, sealed>>

\* Refresh re-reads the account; only one in good standing gets a session.
RefreshReadUser(h) ==
    /\ pc[h] = "readUser"
    /\ canHoldSession(status[hUser[h]])
    /\ Goto(h, "readVersion")
    /\ UNCHANGED <<userVars, rowVars, accessVars, localVars, sealed>>

\* ErrAccountNotActive: the rotation stays committed, its token is never
\* handed out.
RefreshRefused(h) ==
    /\ pc[h] = "readUser"
    /\ ~canHoldSession(status[hUser[h]])
    /\ Return(h)
    /\ UNCHANGED <<userVars, rowVars, accessVars, sealed>>

-----------------------------------------------------------------------------
(* IssueSession and mint                                                   *)

\* A first factor has been proved; the account is read and must be in good
\* standing.
IssueReadUser(h, u) ==
    /\ pc[h] = "idle"
    /\ RoomForToken
    /\ canHoldSession(status[u])
    /\ hUser' = [hUser EXCEPT ![h] = u]
    /\ Goto(h, "insert")
    /\ UNCHANGED <<userVars, rowVars, accessVars, hTok, hAcc, hRows, hTodo, hVer,
                   sealed>>

\* The first token of a new family; its id names the family.
IssueRefreshToken(h, n) ==
    /\ pc[h] = "insert"
    /\ n \in Token \ rows
    /\ InsertRow(n, hUser[h], n)
    /\ hTok' = [hTok EXCEPT ![h] = n]
    /\ Goto(h, "readVersion")
    /\ UNCHANGED <<userVars, revoked, replacedBy, expired, rowLock, accessVars,
                   hAcc, hUser, hRows, hTodo, hVer, sealed>>

\* mint reads the generation in a statement of its own.
MintReadVersion(h) ==
    /\ pc[h] = "readVersion"
    /\ hVer' = [hVer EXCEPT ![h] = tokenVersion[hUser[h]]]
    /\ Goto(h, "sign")
    /\ UNCHANGED <<userVars, rowVars, accessVars, hTok, hAcc, hUser, hRows, hTodo,
                   sealed>>

\* The access token is signed and the pair is returned to the client.
MintAccess(h) ==
    /\ pc[h] = "sign"
    /\ minted' = minted \cup {hTok[h]}
    /\ accessVer' = [accessVer EXCEPT ![hTok[h]] = hVer[h]]
    /\ Return(h)
    /\ UNCHANGED <<userVars, rowVars, denylist, sealed>>

-----------------------------------------------------------------------------
(* Logout, LogoutEverywhere and CloseAccount.  requireAuth validates the   *)
(* caller's access token a first; the request goes on whatever happens to  *)
(* a afterwards.                                                           *)

\* Logout with refresh token t, NULL standing for one the store does not know.
Logout(h, a, t) ==
    /\ pc[h] = "idle"
    /\ Validate(a)
    /\ t \in minted \cup {NULL}
    /\ hAcc' = [hAcc EXCEPT ![h] = a]
    /\ hTok' = [hTok EXCEPT ![h] = t]
    /\ Goto(h, "family")
    /\ UNCHANGED <<userVars, rowVars, accessVars, hUser, hRows, hTodo, hVer, sealed>>

\* The family of the presented token, which never changes, is looked up and its
\* UPDATE starts.
LogoutFamily(h) ==
    /\ pc[h] = "family"
    /\ hTok[h] # NULL
    /\ StartUpdate(h, FamilyRows(family[hTok[h]]))
    /\ Goto(h, "logout")
    /\ UNCHANGED <<userVars, rowVars, accessVars, hTok, hAcc, hUser, hVer, sealed>>

\* An unknown refresh token is no error: only the access token is revoked.
LogoutUnknown(h) ==
    /\ pc[h] = "family"
    /\ hTok[h] = NULL
    /\ Goto(h, "denylist")
    /\ UNCHANGED <<userVars, rowVars, accessVars, localVars, sealed>>

LogoutRevokeFamily(h) ==
    /\ pc[h] = "logout"
    /\ hTodo[h] = {}
    /\ RevokeRows(hRows[h])
    /\ UnlockRows(h)
    /\ Goto(h, "denylist")
    /\ UNCHANGED <<userVars, rows, owner, family, replacedBy, expired, accessVars,
                   localVars>>

RevokeAccessToken(h) ==
    /\ pc[h] = "denylist"
    /\ denylist' = denylist \cup {hAcc[h]}
    /\ Return(h)
    /\ UNCHANGED <<userVars, rowVars, minted, accessVer, sealed>>

LogoutEverywhere(h, a) ==
    /\ pc[h] = "idle"
    /\ Validate(a)
    /\ RoomToBump(owner[a])
    /\ hUser' = [hUser EXCEPT ![h] = owner[a]]
    /\ Goto(h, "all")
    /\ UNCHANGED <<userVars, rowVars, accessVars, hTok, hAcc, hRows, hTodo, hVer,
                   sealed>>

\* RevokeAllSessions starts its UPDATE of every refresh token of the caller ...
RevokeAllSessions(h) ==
    /\ pc[h] = "all"
    /\ StartUpdate(h, UserRows(hUser[h]))
    /\ Goto(h, "everywhere")
    /\ UNCHANGED <<userVars, rowVars, accessVars, hTok, hAcc, hUser, hVer, sealed>>

\* ... which commits by itself ...
RevokeAllRefreshTokens(h) ==
    /\ pc[h] = "everywhere"
    /\ hTodo[h] = {}
    /\ RevokeRows(hRows[h])
    /\ UnlockRows(h)
    /\ Goto(h, "bump")
    /\ UNCHANGED <<userVars, rows, owner, family, replacedBy, expired, accessVars,
                   localVars>>

\* ... and then bumps the generation.
BumpTokenVersion(h) ==
    /\ pc[h] = "bump"
    /\ UserFree(h, hUser[h])
    /\ Bump(hUser[h])
    /\ Return(h)
    /\ UNCHANGED <<status, userLock, rowVars, accessVars, sealed>>

CloseAccount(h, a) ==
    /\ pc[h] = "idle"
    /\ Validate(a)
    /\ RoomToBump(owner[a])
    /\ hUser' = [hUser EXCEPT ![h] = owner[a]]
    /\ Goto(h, "close")
    /\ UNCHANGED <<userVars, rowVars, accessVars, hTok, hAcc, hRows, hTodo, hVer,
                   sealed>>

\* One statement deletes the account and bumps the generation.
CloseAccountCommit(h) ==
    /\ pc[h] = "close"
    /\ UserFree(h, hUser[h])
    /\ status' = [status EXCEPT ![hUser[h]] = "deleted"]
    /\ Bump(hUser[h])
    /\ Return(h)
    /\ UNCHANGED <<userLock, rowVars, accessVars, sealed>>

-----------------------------------------------------------------------------
(* Account operations                                                      *)

\* A moderator suspends u.
Suspend(h, u) ==
    /\ pc[h] = "idle"
    /\ RoomToBump(u)
    /\ hUser' = [hUser EXCEPT ![h] = u]
    /\ Goto(h, "lockUser")
    /\ UNCHANGED <<userVars, rowVars, accessVars, hTok, hAcc, hRows, hTodo, hVer,
                   sealed>>

\* SuspendUserAudited: the transaction updates the users row ...
SuspendUser(h) ==
    /\ pc[h] = "lockUser"
    /\ UserFree(h, hUser[h])
    /\ userLock' = [userLock EXCEPT ![hUser[h]] = h]
    /\ Goto(h, "suspend")
    /\ UNCHANGED <<status, tokenVersion, rowVars, accessVars, localVars, sealed>>

\* ... starts the UPDATE of the account's refresh tokens ...
SuspendRows(h) ==
    /\ pc[h] = "suspend"
    /\ StartUpdate(h, UserRows(hUser[h]))
    /\ Goto(h, "suspendRows")
    /\ UNCHANGED <<userVars, rowVars, accessVars, hTok, hAcc, hUser, hVer, sealed>>

\* ... bumps the generation, appends the audit entry and commits.
SuspendCommit(h) ==
    /\ pc[h] = "suspendRows"
    /\ hTodo[h] = {}
    /\ status' = [status EXCEPT ![hUser[h]] = "suspended"]
    /\ RevokeRows(hRows[h])
    /\ Bump(hUser[h])
    /\ UnlockUsers(h)
    /\ UnlockRows(h)
    /\ Return(h)
    /\ UNCHANGED <<rows, owner, family, replacedBy, expired, accessVars>>

\* ActivateUser, of onboarding and of a moderator's reinstatement; the account
\* has an adult basis (the activation trigger).
ActivateUser(u) ==
    /\ userLock[u] = NULL
    /\ status[u] # "active"
    /\ status' = [status EXCEPT ![u] = "active"]
    /\ UNCHANGED <<tokenVersion, userLock, rowVars, accessVars, pc, localVars,
                   sealed>>

\* The identity-downgrade trigger suspends an active account that lost its
\* adult basis and bumps the generation; it leaves refresh tokens alone.
IdentityDowngrade(u) ==
    /\ userLock[u] = NULL
    /\ status[u] = "active"
    /\ RoomToBump(u)
    /\ status' = [status EXCEPT ![u] = "suspended"]
    /\ Bump(u)
    /\ UNCHANGED <<userLock, rowVars, accessVars, pc, localVars, sealed>>

-----------------------------------------------------------------------------
(* Time and failure                                                        *)

Expire(t) ==
    /\ t \in rows \ expired
    /\ expired' = expired \cup {t}
    /\ UNCHANGED <<userVars, rows, owner, family, revoked, replacedBy, rowLock,
                   accessVars, pc, localVars, sealed>>

\* A statement fails, the client goes away or the process dies: the open
\* transaction rolls back and what was committed before stays.
Abort(h) ==
    /\ pc[h] # "idle"
    /\ UnlockRows(h)
    /\ UnlockUsers(h)
    /\ Return(h)
    /\ UNCHANGED <<status, tokenVersion, rows, owner, family, revoked,
                   replacedBy, expired, accessVars, sealed>>

-----------------------------------------------------------------------------
\* The steps a running request takes by itself.
Advance(h) ==
    \/ RotateLock(h)
    \/ RotateReuse(h)
    \/ RotateReuseCommit(h)
    \/ RotateExpired(h)
    \/ \E n \in Token : RotateCommit(h, n)
    \/ RefreshReadUser(h)
    \/ RefreshRefused(h)
    \/ \E n \in Token : IssueRefreshToken(h, n)
    \/ MintReadVersion(h)
    \/ MintAccess(h)
    \/ \E t \in Token : LockRow(h, t)
    \/ LogoutFamily(h)
    \/ LogoutUnknown(h)
    \/ LogoutRevokeFamily(h)
    \/ RevokeAccessToken(h)
    \/ RevokeAllSessions(h)
    \/ RevokeAllRefreshTokens(h)
    \/ BumpTokenVersion(h)
    \/ CloseAccountCommit(h)
    \/ SuspendUser(h)
    \/ SuspendRows(h)
    \/ SuspendCommit(h)

\* A client or a moderator sends a request.
Arrive(h) ==
    \/ \E t \in Token : Refresh(h, t)
    \/ \E u \in User : IssueReadUser(h, u)
    \/ \E a \in Token, t \in Token \cup {NULL} : Logout(h, a, t)
    \/ \E a \in Token : LogoutEverywhere(h, a)
    \/ \E a \in Token : CloseAccount(h, a)
    \/ \E u \in User : Suspend(h, u)

Next ==
    \/ \E h \in Handler : Advance(h) \/ Arrive(h) \/ Abort(h)
    \/ \E u \in User : ActivateUser(u) \/ IdentityDowngrade(u)
    \/ \E t \in Token : Expire(t)

Spec == Init /\ [][Next]_vars

\* The requests whose locks keep h from its next step.  An UPDATE that can still
\* lock another of its rows waits for nobody.
Blockers(h) ==
    {g \in Handler \ {h} :
        \/ /\ pc[h] = "present"
           /\ rowLock[hTok[h]] = g
        \/ /\ pc[h] \in {"lockUser", "bump", "close"}
           /\ userLock[hUser[h]] = g
        \/ /\ Updating(h)
           /\ \A t \in hTodo[h] : ~RowFree(h, t)
           /\ \E t \in hTodo[h] : rowLock[t] = g}

\* h is in a set of requests that all wait for each other.
Deadlocked(h) ==
    \E D \in SUBSET Handler :
        /\ h \in D
        /\ \A g \in D : Blockers(g) # {} /\ Blockers(g) \subseteq D

\* A request runs to its end: net/http drives it, and Postgres grants row locks
\* in the order they were asked for, so a waiting UPDATE is not passed over for
\* ever.  Postgres looks for deadlocks (deadlock_timeout) and fails a waiter it
\* finds in one.  Nothing else obliges a request to fail, nor a client to send one.
Fairness ==
    \A h \in Handler : SF_vars(Advance(h) \/ (Deadlocked(h) /\ Abort(h)))

FairSpec == Spec /\ Fairness

-----------------------------------------------------------------------------
(* Properties                                                              *)

(***************************************************************************)
(* Single-use rotation: however presentations of a family's tokens         *)
(* interleave with each other and with revocations, a family never has two *)
(* live tokens.  The row lock of RotateRefreshToken is what makes it so.   *)
(***************************************************************************)
OneLivePerFamily ==
    \A s, t \in rows : Live(s) /\ Live(t) /\ family[s] = family[t] => s = t

(***************************************************************************)
(* A rotation chain is a list: a replaced token is revoked, its successor  *)
(* belongs to the same account and family, and no token succeeds two.      *)
(* RotateRefreshToken writes successor and mark in one transaction.        *)
(***************************************************************************)
ChainsAreLists ==
    /\ \A t \in rows : replacedBy[t] # NULL =>
         /\ t \in revoked
         /\ replacedBy[t] \in rows \ {t}
         /\ owner[replacedBy[t]] = owner[t]
         /\ family[replacedBy[t]] = family[t]
    /\ \A s, t \in rows :
         replacedBy[s] # NULL /\ replacedBy[s] = replacedBy[t] => s = t

(***************************************************************************)
(* A revocation that no rotation of the family overtook is final: once a   *)
(* theft response, a logout, a logout-everywhere or a suspension has       *)
(* revoked every row of a family, the family never has a live token again, *)
(* in whatever order its old tokens are presented afterwards.              *)
(***************************************************************************)
SealedFamiliesStayDead ==
    \A t \in rows : family[t] \in sealed => t \in revoked

(***************************************************************************)
(* The inductive strengthening.                                            *)
(***************************************************************************)

\* Rows own an account and a family that started with a row; history and
\* client tokens name rows; only rows have successors.
RowsInv ==
    /\ revoked \subseteq rows
    /\ minted \subseteq rows
    /\ sealed \subseteq rows
    /\ \A t \in rows : owner[t] \in User /\ family[t] \in rows
    /\ \A t \in Token \ rows : replacedBy[t] = NULL

\* A request that has created its refresh token and not yet returned it.
Issuing(h) == pc[h] \in {"readUser", "readVersion", "sign"}

\* What each step of a request knows.
HandlerInv ==
    \A h \in Handler :
        /\ hRows[h] \subseteq rows
        /\ Updating(h) =>
              \A t \in hRows[h] : t \in revoked \/ t \in hTodo[h] \/ rowLock[t] = h
        /\ pc[h] \in {"present", "rotate", "theft", "reuse"} => hTok[h] \in rows
        /\ pc[h] = "rotate" =>
              rowLock[hTok[h]] = h /\ ~Reused(hTok[h])
        /\ Issuing(h) =>
              hTok[h] \in rows \ minted /\ hUser[h] = owner[hTok[h]]
        /\ pc[h] = "sign" => hVer[h] <= tokenVersion[hUser[h]]
        /\ pc[h] \in {"insert", "all", "everywhere", "bump", "lockUser", "suspend",
                     "suspendRows", "close"} => hUser[h] \in User
        /\ pc[h] \in {"family", "logout"} => hTok[h] \in rows \cup {NULL}
        /\ pc[h] \in {"family", "logout", "denylist"} => hAcc[h] \in minted

\* No two requests hold the same new refresh token.
IssuingApart ==
    \A g, h \in Handler : Issuing(g) /\ Issuing(h) /\ hTok[g] = hTok[h] => g = h

\* No access token is ahead of its account's generation.
AccessNotAhead ==
    \A t \in minted : accessVer[t] <= tokenVersion[owner[t]]

IInv ==
    /\ TypeOK
    /\ RowsInv
    /\ HandlerInv
    /\ IssuingApart
    /\ AccessNotAhead
    /\ OneLivePerFamily
    /\ ChainsAreLists
    /\ SealedFamiliesStayDead

(***************************************************************************)
(* An access token the validator has come to reject is never accepted      *)
(* again, whatever logins, refreshes, bumps and reinstatements follow.     *)
(***************************************************************************)
RejectedStaysRejected ==
    [][\A t \in minted : ~Validate(t) => ~Validate(t)']_vars

(***************************************************************************)
(* Every bump of token_version (logout-everywhere, suspension, closure,    *)
(* identity downgrade) kills all the access tokens the account has out.    *)
(***************************************************************************)
BumpKillsOutstanding ==
    [][\A t \in minted :
          tokenVersion'[owner[t]] # tokenVersion[owner[t]] => ~Validate(t)']_vars

\* A request past its account check may still mint for u.
MayMint(u) ==
    \E h \in Handler :
        hUser[h] = u /\ pc[h] \in {"insert", "readVersion", "sign"}

(***************************************************************************)
(* Once an account is suspended or deleted and the requests that had read  *)
(* it before have ended, it has no more valid access tokens than then,     *)
(* nor a request that could mint one, until it is in standing again:       *)
(* however many of its refresh tokens are still live, rotate or come back. *)
(***************************************************************************)
NoSessionWithoutStanding ==
    [][\A u \in User :
          ~canHoldSession(status[u]) /\ ~MayMint(u) =>
             /\ ~MayMint(u)'
             /\ \A t \in Token :
                   Validate(t)' /\ owner'[t] = u => Validate(t)]_vars

(***************************************************************************)
(* Every request is answered: rotations, revocations, suspensions and      *)
(* closures hold one lock while they wait for the next, and none of them   *)
(* waits for ever.  Two UPDATEs that lock the rows of two families in      *)
(* opposite orders do wait for each other; that takes Postgres' deadlock   *)
(* check, and no request is lost beside the one it fails.                  *)
(***************************************************************************)
EveryRequestReturns ==
    \A h \in Handler : pc[h] # "idle" ~> pc[h] = "idle"
=============================================================================
