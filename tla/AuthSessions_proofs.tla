------------------------ MODULE AuthSessions_proofs ------------------------
(***************************************************************************)
(* Proofs about AuthSessions, for any sets of accounts, tokens and         *)
(* handlers and any bound on the generation.                               *)
(*                                                                         *)
(* IInv is inductive.  Its heart is HandlerInv: a rotation that read its   *)
(* token as usable still holds the row's lock, so the token is live when   *)
(* the rotation commits; every other writer of revoked_at waits for that   *)
(* lock.  The family then has one live token before and after.             *)
(***************************************************************************)
EXTENDS AuthSessions, TLAPS

\* The invariant holds before any request: no rows, nobody running.
LEMMA InitIInv == Init => IInv
  BY NullAssumption
  DEF Init, IInv, TypeOK, Status, Step, RowsInv, HandlerInv, Issuing,
      IssuingApart, AccessNotAhead, OneLivePerFamily, ChainsAreLists,
      SealedFamiliesStayDead, Live

\* Every step, one case per action of the specification, keeps the invariant.
LEMMA NextIInv == IInv /\ [Next]_vars => IInv'
  <1> SUFFICES ASSUME IInv, [Next]_vars PROVE IInv'
    OBVIOUS
  <1> USE NullAssumption
      DEF IInv, TypeOK, Status, Step, RowsInv, HandlerInv, Issuing,
          IssuingApart, AccessNotAhead, OneLivePerFamily, ChainsAreLists,
          SealedFamiliesStayDead, Live, Reused, RowFree, Updating, UserFree,
          Goto, Return, UnlockRows, UnlockUsers, userVars, rowVars,
          accessVars, localVars
  <1>1. ASSUME NEW h \in Handler, RotateLock(h) PROVE IInv'
    BY <1>1 DEF RotateLock
  <1>2. ASSUME NEW h \in Handler, RotateReuse(h) PROVE IInv'
    BY <1>2 DEF RotateReuse, StartUpdate, FamilyRows
  <1>3. ASSUME NEW h \in Handler, RotateReuseCommit(h) PROVE IInv'
    BY <1>3 DEF RotateReuseCommit, RevokeRows, Covered, FamilyRows
  <1>4. ASSUME NEW h \in Handler, RotateExpired(h) PROVE IInv'
    BY <1>4 DEF RotateExpired
  <1>5. ASSUME NEW h \in Handler, NEW n \in Token, RotateCommit(h, n)
        PROVE IInv'
    BY <1>5 DEF RotateCommit, InsertRow
  <1>6. ASSUME NEW h \in Handler, RefreshReadUser(h) PROVE IInv'
    BY <1>6 DEF RefreshReadUser, canHoldSession
  <1>7. ASSUME NEW h \in Handler, RefreshRefused(h) PROVE IInv'
    BY <1>7 DEF RefreshRefused
  <1>8. ASSUME NEW h \in Handler, NEW u \in User, IssueReadUser(h, u)
        PROVE IInv'
    BY <1>8 DEF IssueReadUser, canHoldSession
  <1>9. ASSUME NEW h \in Handler, NEW n \in Token, IssueRefreshToken(h, n)
        PROVE IInv'
    BY <1>9 DEF IssueRefreshToken, InsertRow
  <1>10. ASSUME NEW h \in Handler, MintReadVersion(h) PROVE IInv'
    BY <1>10 DEF MintReadVersion
  <1>11. ASSUME NEW h \in Handler, MintAccess(h) PROVE IInv'
    BY <1>11 DEF MintAccess
  <1>12. ASSUME NEW h \in Handler, LogoutFamily(h)
         PROVE IInv'
    BY <1>12 DEF LogoutFamily, StartUpdate, FamilyRows
  <1>13. ASSUME NEW h \in Handler, LogoutUnknown(h)
         PROVE IInv'
    BY <1>13 DEF LogoutUnknown
  <1>14. ASSUME NEW h \in Handler, LogoutRevokeFamily(h) PROVE IInv'
    BY <1>14 DEF LogoutRevokeFamily, RevokeRows, Covered, FamilyRows
  <1>15. ASSUME NEW h \in Handler, RevokeAccessToken(h) PROVE IInv'
    BY <1>15 DEF RevokeAccessToken
  <1>16. ASSUME NEW h \in Handler, NEW a \in Token, LogoutEverywhere(h, a)
         PROVE IInv'
    BY <1>16 DEF LogoutEverywhere, Validate
  <1>17. ASSUME NEW h \in Handler, RevokeAllRefreshTokens(h) PROVE IInv'
    BY <1>17 DEF RevokeAllRefreshTokens, RevokeRows, Covered, FamilyRows
  <1>18. ASSUME NEW h \in Handler, BumpTokenVersion(h) PROVE IInv'
    BY <1>18 DEF BumpTokenVersion, Bump
  <1>19. ASSUME NEW h \in Handler, SuspendUser(h) PROVE IInv'
    BY <1>19 DEF SuspendUser
  <1>20. ASSUME NEW h \in Handler, SuspendRows(h) PROVE IInv'
    BY <1>20 DEF SuspendRows, StartUpdate, UserRows
  <1>21. ASSUME NEW h \in Handler, SuspendCommit(h) PROVE IInv'
    BY <1>21 DEF SuspendCommit, RevokeRows, Covered, FamilyRows, Bump
  <1>22. ASSUME NEW h \in Handler, Abort(h) PROVE IInv'
    BY <1>22 DEF Abort
  <1>23. ASSUME NEW h \in Handler, NEW a \in Token, CloseAccount(h, a) PROVE IInv'
    BY <1>23 DEF CloseAccount, Validate
  <1>24. ASSUME NEW u \in User, ActivateUser(u) PROVE IInv'
    BY <1>24 DEF ActivateUser
  <1>25. ASSUME NEW u \in User, IdentityDowngrade(u) PROVE IInv'
    BY <1>25 DEF IdentityDowngrade, Bump
  <1>26. ASSUME NEW t \in Token, Expire(t) PROVE IInv'
    BY <1>26 DEF Expire
  <1>27. ASSUME NEW h \in Handler, NEW t \in Token, Refresh(h, t)
         PROVE IInv'
    BY <1>27 DEF Refresh
  <1>28. ASSUME NEW h \in Handler, NEW t \in Token, LockRow(h, t)
         PROVE IInv'
    BY <1>28 DEF LockRow
  <1>29. ASSUME NEW h \in Handler, NEW a \in Token,
                NEW t \in Token \cup {NULL}, Logout(h, a, t)
         PROVE IInv'
    BY <1>29 DEF Logout, Validate
  <1>30. ASSUME NEW h \in Handler, RevokeAllSessions(h) PROVE IInv'
    BY <1>30 DEF RevokeAllSessions, StartUpdate, UserRows
  <1>31. ASSUME NEW h \in Handler, CloseAccountCommit(h) PROVE IInv'
    BY <1>31 DEF CloseAccountCommit, Bump
  <1>32. ASSUME NEW h \in Handler, NEW u \in User, Suspend(h, u)
         PROVE IInv'
    BY <1>32 DEF Suspend
  <1>33. CASE UNCHANGED vars
    BY <1>33 DEF vars
  <1> QED
    BY <1>1, <1>2, <1>3, <1>4, <1>5, <1>6, <1>7, <1>8, <1>9, <1>10, <1>11,
       <1>12, <1>13, <1>14, <1>15, <1>16, <1>17, <1>18, <1>19, <1>20, <1>21,
       <1>22, <1>23, <1>24, <1>25, <1>26, <1>27, <1>28, <1>29, <1>30, <1>31, <1>32, <1>33
    DEF Next, Advance, Arrive

\* The inductive invariant is an invariant of every behaviour.
THEOREM Invariance == Spec => []IInv
  BY InitIInv, NextIInv, PTL DEF Spec

\* Every variable keeps the type its table column or Go value has.
THEOREM TypeCorrect == Spec => []TypeOK
  <1>1. IInv => TypeOK
    BY DEF IInv
  <1> QED
    BY Invariance, <1>1, PTL

\* Single-use rotation: RotateRefreshToken never leaves a family with two live
\* tokens, however many requests present its tokens at once.
THEOREM SingleUseRotation == Spec => []OneLivePerFamily
  <1>1. IInv => OneLivePerFamily
    BY DEF IInv
  <1> QED
    BY Invariance, <1>1, PTL

\* Rotation chains are lists within one account and one family.
THEOREM RotationChains == Spec => []ChainsAreLists
  <1>1. IInv => ChainsAreLists
    BY DEF IInv
  <1> QED
    BY Invariance, <1>1, PTL

\* A revocation that covered all rows of a family is final.
THEOREM RevocationIsFinal == Spec => []SealedFamiliesStayDead
  <1>1. IInv => SealedFamiliesStayDead
    BY DEF IInv
  <1> QED
    BY Invariance, <1>1, PTL

\* What no step does to an access token that is out: change its owner or its
\* tver claim, take it off the denylist, lower its account's generation.
AccessStep ==
    /\ denylist \subseteq denylist'
    /\ \A u \in User : tokenVersion[u] <= tokenVersion'[u]
    /\ \A t \in minted : owner'[t] = owner[t] /\ accessVer'[t] = accessVer[t]

\* Every step is such a step: a new row is not out yet, MintAccess writes the
\* claim of a token that is not out, and the bumps add one.
LEMMA NextAccessStep == IInv /\ [Next]_vars => AccessStep
  <1> SUFFICES ASSUME IInv, [Next]_vars PROVE AccessStep
    OBVIOUS
  <1> USE NullAssumption
      DEF AccessStep, IInv, TypeOK, RowsInv, HandlerInv, Issuing, Goto,
          Return, userVars, rowVars, accessVars, localVars
  <1>1. ASSUME NEW h \in Handler, RotateLock(h)
        PROVE AccessStep
    BY <1>1 DEF RotateLock
  <1>2. ASSUME NEW h \in Handler, RotateReuse(h) PROVE AccessStep
    BY <1>2 DEF RotateReuse, StartUpdate
  <1>3. ASSUME NEW h \in Handler, RotateReuseCommit(h) PROVE AccessStep
    BY <1>3 DEF RotateReuseCommit
  <1>4. ASSUME NEW h \in Handler, RotateExpired(h) PROVE AccessStep
    BY <1>4 DEF RotateExpired
  <1>5. ASSUME NEW h \in Handler, NEW n \in Token, RotateCommit(h, n)
        PROVE AccessStep
    BY <1>5 DEF RotateCommit, InsertRow
  <1>6. ASSUME NEW h \in Handler, RefreshReadUser(h) PROVE AccessStep
    BY <1>6 DEF RefreshReadUser
  <1>7. ASSUME NEW h \in Handler, RefreshRefused(h) PROVE AccessStep
    BY <1>7 DEF RefreshRefused
  <1>8. ASSUME NEW h \in Handler, NEW u \in User, IssueReadUser(h, u)
        PROVE AccessStep
    BY <1>8 DEF IssueReadUser
  <1>9. ASSUME NEW h \in Handler, NEW n \in Token, IssueRefreshToken(h, n)
        PROVE AccessStep
    BY <1>9 DEF IssueRefreshToken, InsertRow
  <1>10. ASSUME NEW h \in Handler, MintReadVersion(h) PROVE AccessStep
    BY <1>10 DEF MintReadVersion
  <1>11. ASSUME NEW h \in Handler, MintAccess(h) PROVE AccessStep
    BY <1>11 DEF MintAccess
  <1>12. ASSUME NEW h \in Handler, LogoutFamily(h)
         PROVE AccessStep
    BY <1>12 DEF LogoutFamily, StartUpdate
  <1>13. ASSUME NEW h \in Handler, LogoutUnknown(h)
         PROVE AccessStep
    BY <1>13 DEF LogoutUnknown
  <1>14. ASSUME NEW h \in Handler, LogoutRevokeFamily(h) PROVE AccessStep
    BY <1>14 DEF LogoutRevokeFamily
  <1>15. ASSUME NEW h \in Handler, RevokeAccessToken(h) PROVE AccessStep
    BY <1>15 DEF RevokeAccessToken
  <1>16. ASSUME NEW h \in Handler, NEW a \in Token, LogoutEverywhere(h, a)
         PROVE AccessStep
    BY <1>16 DEF LogoutEverywhere, Validate
  <1>17. ASSUME NEW h \in Handler, RevokeAllRefreshTokens(h) PROVE AccessStep
    BY <1>17 DEF RevokeAllRefreshTokens
  <1>18. ASSUME NEW h \in Handler, BumpTokenVersion(h) PROVE AccessStep
    BY <1>18 DEF BumpTokenVersion, Bump
  <1>19. ASSUME NEW h \in Handler, SuspendUser(h)
         PROVE AccessStep
    BY <1>19 DEF SuspendUser
  <1>20. ASSUME NEW h \in Handler, SuspendRows(h) PROVE AccessStep
    BY <1>20 DEF SuspendRows, StartUpdate
  <1>21. ASSUME NEW h \in Handler, SuspendCommit(h) PROVE AccessStep
    BY <1>21 DEF SuspendCommit, Bump
  <1>22. ASSUME NEW h \in Handler, Abort(h) PROVE AccessStep
    BY <1>22 DEF Abort
  <1>23. ASSUME NEW h \in Handler, NEW a \in Token, CloseAccount(h, a) PROVE AccessStep
    BY <1>23 DEF CloseAccount, Validate
  <1>24. ASSUME NEW u \in User, ActivateUser(u) PROVE AccessStep
    BY <1>24 DEF ActivateUser
  <1>25. ASSUME NEW u \in User, IdentityDowngrade(u) PROVE AccessStep
    BY <1>25 DEF IdentityDowngrade, Bump
  <1>26. ASSUME NEW t \in Token, Expire(t) PROVE AccessStep
    BY <1>26 DEF Expire
  <1>27. ASSUME NEW h \in Handler, NEW t \in Token, Refresh(h, t)
         PROVE AccessStep
    BY <1>27 DEF Refresh
  <1>28. ASSUME NEW h \in Handler, NEW t \in Token, LockRow(h, t)
         PROVE AccessStep
    BY <1>28 DEF LockRow
  <1>29. ASSUME NEW h \in Handler, NEW a \in Token,
                NEW t \in Token \cup {NULL}, Logout(h, a, t)
         PROVE AccessStep
    BY <1>29 DEF Logout, Validate
  <1>30. ASSUME NEW h \in Handler, RevokeAllSessions(h) PROVE AccessStep
    BY <1>30 DEF RevokeAllSessions, StartUpdate, UserRows
  <1>31. ASSUME NEW h \in Handler, CloseAccountCommit(h) PROVE AccessStep
    BY <1>31 DEF CloseAccountCommit, Bump
  <1>32. ASSUME NEW h \in Handler, NEW u \in User, Suspend(h, u)
         PROVE AccessStep
    BY <1>32 DEF Suspend
  <1>33. CASE UNCHANGED vars
    BY <1>33 DEF vars
  <1> QED
    BY <1>1, <1>2, <1>3, <1>4, <1>5, <1>6, <1>7, <1>8, <1>9, <1>10, <1>11,
       <1>12, <1>13, <1>14, <1>15, <1>16, <1>17, <1>18, <1>19, <1>20, <1>21,
       <1>22, <1>23, <1>24, <1>25, <1>26, <1>27, <1>28, <1>29, <1>30, <1>31, <1>32, <1>33
    DEF Next, Advance, Arrive

\* The validator's two reasons to reject a token that is out, the denylist and a
\* generation its account has left behind, outlast every step.
LEMMA RejectionStep ==
    ASSUME IInv, [Next]_vars, NEW t \in minted, ~Validate(t)
    PROVE  ~Validate(t)'
  <1>1. AccessStep
    BY NextAccessStep
  <1>2. owner[t] \in User /\ accessVer[t] <= tokenVersion[owner[t]]
    BY DEF IInv, RowsInv, AccessNotAhead
  <1>3. tokenVersion[owner[t]] \in Nat /\ tokenVersion'[owner[t]] \in Nat
    <2>1. TypeOK'
      BY NextIInv DEF IInv
    <2> QED
      BY <1>2, <2>1 DEF IInv, TypeOK
  <1>4. accessVer[t] \in Nat
    BY DEF IInv, TypeOK
  <1> QED
    BY <1>1, <1>2, <1>3, <1>4 DEF AccessStep, Validate

\* A rejected access token stays rejected.
THEOREM RejectionIsFinal == Spec => RejectedStaysRejected
  <1>1. IInv /\ [Next]_vars => [\A t \in minted : ~Validate(t) => ~Validate(t)']_vars
    BY RejectionStep
  <1> QED
    BY Invariance, <1>1, PTL DEF Spec, RejectedStaysRejected

\* Every bump of token_version kills all the access tokens the account has out.
THEOREM BumpIsRevokeAll == Spec => BumpKillsOutstanding
  <1>1. ASSUME IInv, [Next]_vars
        PROVE [\A t \in minted :
                 tokenVersion'[owner[t]] # tokenVersion[owner[t]]
                    => ~Validate(t)']_vars
    <2>1. AccessStep
      BY <1>1, NextAccessStep
    <2> SUFFICES ASSUME NEW t \in minted,
                        tokenVersion'[owner[t]] # tokenVersion[owner[t]]
                 PROVE ~Validate(t)'
      OBVIOUS
    <2>2. owner[t] \in User /\ accessVer[t] <= tokenVersion[owner[t]]
      BY <1>1 DEF IInv, RowsInv, AccessNotAhead
    <2>3. tokenVersion[owner[t]] \in Nat /\ tokenVersion'[owner[t]] \in Nat
      <3>1. TypeOK'
        BY <1>1, NextIInv DEF IInv
      <3> QED
        BY <1>1, <2>2, <3>1 DEF IInv, TypeOK
    <2>4. accessVer[t] \in Nat
      BY <1>1 DEF IInv, TypeOK
    <2> QED
      BY <2>1, <2>2, <2>3, <2>4 DEF AccessStep, Validate
  <1> QED
    BY Invariance, <1>1, PTL DEF Spec, BumpKillsOutstanding

\* A request between its account check and its mint, so that nothing stops it.
Minting(h) == pc[h] \in {"insert", "readVersion", "sign"}

\* How a request gets to mint, and what it then mints: it has just found its account in
\* standing, or it was minting for this account before; and a pair of tokens comes out
\* only from a request that was about to sign it, for the account of its row.
MintStep ==
    /\ \A h \in Handler : Minting(h)' =>
         \/ Minting(h) /\ hUser'[h] = hUser[h]
         \/ canHoldSession(status[hUser'[h]])
    /\ \A t \in minted' \ minted : owner'[t] = owner[t] /\
         \E h \in Handler : Minting(h) /\ hUser[h] = owner[t]

\* Every step is such a step: RefreshReadUser and IssueReadUser are the only ways in,
\* MintAccess is the only way out with a session.
LEMMA NextMintStep == IInv /\ [Next]_vars => MintStep
  <1> SUFFICES ASSUME IInv, [Next]_vars PROVE MintStep
    OBVIOUS
  <1> USE NullAssumption
      DEF MintStep, IInv, TypeOK, Step, HandlerInv, Issuing, Minting, Goto,
          Return, userVars, rowVars, accessVars, localVars
  <1>1. ASSUME NEW h \in Handler, RotateLock(h)
        PROVE MintStep
    BY <1>1 DEF RotateLock
  <1>2. ASSUME NEW h \in Handler, RotateReuse(h) PROVE MintStep
    BY <1>2 DEF RotateReuse, StartUpdate
  <1>3. ASSUME NEW h \in Handler, RotateReuseCommit(h) PROVE MintStep
    BY <1>3 DEF RotateReuseCommit
  <1>4. ASSUME NEW h \in Handler, RotateExpired(h) PROVE MintStep
    BY <1>4 DEF RotateExpired
  <1>5. ASSUME NEW h \in Handler, NEW n \in Token, RotateCommit(h, n)
        PROVE MintStep
    BY <1>5 DEF RotateCommit, InsertRow
  <1>6. ASSUME NEW h \in Handler, RefreshReadUser(h) PROVE MintStep
    BY <1>6 DEF RefreshReadUser
  <1>7. ASSUME NEW h \in Handler, RefreshRefused(h) PROVE MintStep
    BY <1>7 DEF RefreshRefused
  <1>8. ASSUME NEW h \in Handler, NEW u \in User, IssueReadUser(h, u)
        PROVE MintStep
    BY <1>8 DEF IssueReadUser
  <1>9. ASSUME NEW h \in Handler, NEW n \in Token, IssueRefreshToken(h, n)
        PROVE MintStep
    BY <1>9 DEF IssueRefreshToken, InsertRow
  <1>10. ASSUME NEW h \in Handler, MintReadVersion(h) PROVE MintStep
    BY <1>10 DEF MintReadVersion
  <1>11. ASSUME NEW h \in Handler, MintAccess(h) PROVE MintStep
    BY <1>11 DEF MintAccess
  <1>12. ASSUME NEW h \in Handler, LogoutFamily(h)
         PROVE MintStep
    BY <1>12 DEF LogoutFamily, StartUpdate
  <1>13. ASSUME NEW h \in Handler, LogoutUnknown(h)
         PROVE MintStep
    BY <1>13 DEF LogoutUnknown
  <1>14. ASSUME NEW h \in Handler, LogoutRevokeFamily(h) PROVE MintStep
    BY <1>14 DEF LogoutRevokeFamily
  <1>15. ASSUME NEW h \in Handler, RevokeAccessToken(h) PROVE MintStep
    BY <1>15 DEF RevokeAccessToken
  <1>16. ASSUME NEW h \in Handler, NEW a \in Token, LogoutEverywhere(h, a)
         PROVE MintStep
    BY <1>16 DEF LogoutEverywhere, Validate
  <1>17. ASSUME NEW h \in Handler, RevokeAllRefreshTokens(h) PROVE MintStep
    BY <1>17 DEF RevokeAllRefreshTokens
  <1>18. ASSUME NEW h \in Handler, BumpTokenVersion(h) PROVE MintStep
    BY <1>18 DEF BumpTokenVersion, Bump
  <1>19. ASSUME NEW h \in Handler, SuspendUser(h)
         PROVE MintStep
    BY <1>19 DEF SuspendUser
  <1>20. ASSUME NEW h \in Handler, SuspendRows(h) PROVE MintStep
    BY <1>20 DEF SuspendRows, StartUpdate
  <1>21. ASSUME NEW h \in Handler, SuspendCommit(h) PROVE MintStep
    BY <1>21 DEF SuspendCommit, Bump
  <1>22. ASSUME NEW h \in Handler, Abort(h) PROVE MintStep
    BY <1>22 DEF Abort
  <1>23. ASSUME NEW h \in Handler, NEW a \in Token, CloseAccount(h, a) PROVE MintStep
    BY <1>23 DEF CloseAccount, Validate
  <1>24. ASSUME NEW u \in User, ActivateUser(u) PROVE MintStep
    BY <1>24 DEF ActivateUser
  <1>25. ASSUME NEW u \in User, IdentityDowngrade(u) PROVE MintStep
    BY <1>25 DEF IdentityDowngrade, Bump
  <1>26. ASSUME NEW t \in Token, Expire(t) PROVE MintStep
    BY <1>26 DEF Expire
  <1>27. ASSUME NEW h \in Handler, NEW t \in Token, Refresh(h, t)
         PROVE MintStep
    BY <1>27 DEF Refresh
  <1>28. ASSUME NEW h \in Handler, NEW t \in Token, LockRow(h, t)
         PROVE MintStep
    BY <1>28 DEF LockRow
  <1>29. ASSUME NEW h \in Handler, NEW a \in Token,
                NEW t \in Token \cup {NULL}, Logout(h, a, t)
         PROVE MintStep
    BY <1>29 DEF Logout, Validate
  <1>30. ASSUME NEW h \in Handler, RevokeAllSessions(h) PROVE MintStep
    BY <1>30 DEF RevokeAllSessions, StartUpdate, UserRows
  <1>31. ASSUME NEW h \in Handler, CloseAccountCommit(h) PROVE MintStep
    BY <1>31 DEF CloseAccountCommit, Bump
  <1>32. ASSUME NEW h \in Handler, NEW u \in User, Suspend(h, u)
         PROVE MintStep
    BY <1>32 DEF Suspend
  <1>33. CASE UNCHANGED vars
    BY <1>33 DEF vars
  <1> QED
    BY <1>1, <1>2, <1>3, <1>4, <1>5, <1>6, <1>7, <1>8, <1>9, <1>10, <1>11,
       <1>12, <1>13, <1>14, <1>15, <1>16, <1>17, <1>18, <1>19, <1>20, <1>21,
       <1>22, <1>23, <1>24, <1>25, <1>26, <1>27, <1>28, <1>29, <1>30, <1>31, <1>32, <1>33
    DEF Next, Advance, Arrive

\* Suspension and deletion are the end of an account's sessions: once the requests that
\* had read the account before are over, no refresh, login or retry mints for it, and no
\* access token of it becomes valid (Refresh, IssueSession, mint, ValidateAccess).
THEOREM StandingGatesSessions == Spec => NoSessionWithoutStanding
  <1>1. ASSUME IInv, [Next]_vars
        PROVE [\A u \in User :
                 ~canHoldSession(status[u]) /\ ~MayMint(u) =>
                    /\ ~MayMint(u)'
                    /\ \A t \in Token :
                          Validate(t)' /\ owner'[t] = u => Validate(t)]_vars
    <2>1. MintStep /\ AccessStep
      BY <1>1, NextMintStep, NextAccessStep
    <2> SUFFICES ASSUME NEW u \in User, ~canHoldSession(status[u]), ~MayMint(u)
                 PROVE  /\ ~MayMint(u)'
                        /\ \A t \in Token :
                              Validate(t)' /\ owner'[t] = u => Validate(t)
      OBVIOUS
    <2>2. ~MayMint(u)'
      BY <2>1 DEF MintStep, MayMint, Minting
    <2>3. ASSUME NEW t \in Token, Validate(t)', owner'[t] = u
          PROVE  Validate(t)
      <3>1. t \in minted
        <4>1. t \in minted'
          BY <2>3 DEF Validate
        <4> QED
          BY <2>1, <2>3, <4>1 DEF MintStep, MayMint, Minting
      <3> QED
        BY <1>1, <2>3, <3>1, RejectionStep
    <2> QED
      BY <2>2, <2>3
  <1> QED
    BY Invariance, <1>1, PTL DEF Spec, NoSessionWithoutStanding
=============================================================================
