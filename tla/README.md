# A TLA+ verification of laplat

laplat is an adults-only platform for live classes. Its server `authd` (Go)
issues sessions, grades accounts by how strongly adulthood is proved, admits
people to LiveKit rooms, records rooms whose participants consent, and keeps
three trails: an audit log, a consent ledger and a presence trail. All durable
state is in Postgres, at READ COMMITTED; requests run concurrently and several
authd processes may share the database. LiveKit, the eKYC vendor, the remote
signer and the identity providers are outside.

What makes this code hard to test is that most operations are several
statements in a row, each of its own transaction, with the answer to the first
used by the last. The modules therefore split a request where the code lets
another request in: at every statement or transaction boundary and at every
remote call. What one transaction writes becomes visible in one step, at its
commit.

## 1. Inventory

| component | state | operations | interacts with | hard part | correct when |
| --- | --- | --- | --- | --- | --- |
| session tokens | `refresh_tokens`, `users.token_version`, `revoked_tokens` | issue, refresh (rotation, reuse detection), logout, logout-everywhere | moderation and identity bump the generation | row locks, multi-row UPDATEs against inserts, a generation read before signing | one live token per family, revocation is final, a bump kills all |
| assurance and identity | `identity_vault`, `tos_acceptances`, `users.status` | accept terms, begin, callback, reversal, activate | vendor callbacks, two triggers, mint | triggers that read what another transaction is about to change | active accounts have an adult basis; nothing verified without an approved result |
| recording control plane | `recordings`, replay cache | start, stop, reconcile, webhook | live sessions, consent ledger, LiveKit | gate read before the egress is asked for, stale rows, late webhooks, timeouts | one in flight, terminal is final, withdrawal stops |
| audit log, consent ledger | `audit_log`, `consent_records`, one advisory lock each | append within a transaction, verify, latest decision | every audited action, recording gate | forks of the chain, sequence gaps, lock order | verifies as one chain, seq is commit order |
| presence trail | `presence_events`, `presence_checkpoints` | append, checkpoint, verify | live sessions, audit log | unlocked inserts against a moving resume point, crashes | no row covered twice, every row verifies |
| live sessions | `sessions`, `session_participants` | create, join, leave, start, end | presence, recording, learner data | status read before the insert, cap of two, rejoin | the cap holds, the trail agrees with the roster |
| one-time codes, step-up | `login_challenges`, `phone_challenges`, `stepup_grants` | request, verify, consume, grant, export | session tokens, linkage | check-then-increment, unconditional consume, a channel picked twice | limits are overrun by no more than the requests at once; a grant proves its owner |
| linkage | `email_`, `phone_`, `federated_identities` | resolve: get, create, link | session tokens, identity | three statements, unique link | one account per external identity, for ever |
| federation | two cookies per browser, nothing on the server | start, callback: exchange, verify, userinfo | linkage, identity providers | mixed-up tabs, states and codes; replays | a callback does nothing the browser did not ask for |
| provider keys | cached JWKS, `lastFetch`, `expiry` | lookup with refresh | federation | rotation, a provider that is down, clamps | stale answers are bounded in time |
| signing keys | verify set of the process | load, sign, verify, rotate in Vault | tokens and all trails | restarts with another environment | what is signed verifies |
| classes, enrollment, entitlements | `classes`, `class_members`, `entitlements` | publish, set capacity, enrol, leave, grant, revoke | playback, audit log | soft cap, gates in statements of their own | overshoot is bounded, the trail replays to what is owned |
| playback authorization | audit-once map, signed URLs | mint, authorize, audit | entitlements, audit log | a token that outlives its right, a mark before the write | no play without a right, none in silence |
| learner data | none of its own | progress, completions | live sessions, enrollment | joins that race an end, sessions reopened | a certificate means full attendance and stands |
| rate limiter | buckets | allow, sweep | every request, recording starts | clocks read before the lock, eviction | never more than burst + rate x time, no starvation |
| Merkle tree | none | root, proof, verify | presence | sizes that are no power of two | verify accepts exactly the true proofs |
| moderation, operator tool | none of their own | suspend, reinstate, instructor, verify, promote | all of the above | see there | see there |

The rest (message delivery, the wire formats of the connectors, HTTP plumbing,
most of the configuration, generated listings, the web front end) keeps no state
that outlives a request. `PROJECT.json` lists every component with its sources,
and under `hazards` what can go wrong at which line.

## 2. Plan

All modules of the plan are built; in order of importance:

1. `AuthSessions`: session tokens.
2. `Recording`: the recording control plane with consent and webhooks.
3. `AuditChain`, shown to implement `AppendOnlyLog`: both ledgers.
4. `Presence` and the trees under its checkpoints, `Merkle`.
5. `Identity`: tiers, triggers, activation.
6. `LiveSession`, shown to implement `Roster`.
7. `Login`: one-time codes, step-up, linkage.
8. `Access`: classes, entitlements, playback; `Learning`: progress and completion.
9. `Federation`, `KeyCache`, `SigningKeys`, `RateLimit`.

What is left:

- `LiveSession` composed with `Recording`: `Recording` has its own small Join and Leave,
  which allow everything `Roster` allows.

## 3. Modules and the code

A component has a module `M`, a TLC instance `MCM` with one `.cfg` per run and,
where there are theorems, `M_proofs`. Some instances hold several components: a
variable `part`, chosen at the start, then says which of them moves (`MCTrails`: `AuditChain`,
`Presence`, `Merkle`; `MCFederation`: `Federation`, `KeyCache`,
`SigningKeys`, `RateLimit`; `MCAccess`: `Access`, `Learning`). That is sound where
the parts neither read nor write each other's state, which each of these modules
argues at its head. Their theorems are together too (`Trails_proofs`, `Federation_proofs`,
`Access_proofs`), and for the last two instances `PartsRun` shows that what TLC explores is a
behaviour of every part. `PROJECT.json` maps every definition to its lines. A
definition introduced by a comment that begins with "Mutant" is a deliberately
wrong variant, used to see that a property can fail; no specification uses it.

### AuthSessions

`rows`, `owner`, `family`, `revoked`, `replacedBy` and `expired` are the columns
of `refresh_tokens`; `rowLock` and `userLock` the row locks of open
transactions. A handler's `pc` names the statement it is about to run. The
presented row is locked and read by `RotateLock`; what it read decides between
`RotateReuse` (theft response), `RotateExpired` and `RotateCommit`. A multi-row
UPDATE fixes its snapshot `hRows` when it starts (`StartUpdate`), locks the live rows of it
one by one in any order (`LockRow`), holding those it has, and writes at its commit;
rows inserted in between are missed, as in Postgres. A request arrives in a step of its
own, in which its access token is validated (`Refresh`, `Logout`, `LogoutEverywhere`,
`CloseAccount`, `Suspend`), so that one that waits for its first lock is under way too.
`mint` is two steps, the read of the generation and the signature.
`Abort` rolls back at any point; Postgres fails one of a circle of waiters
(`Blockers`, `Deadlocked`). `sealed` is a history variable: families a
completed revocation covered in full.

Abstractions: an access token and the refresh token minted with it share an
id; hashes are injective; signatures and the short expiry of access tokens are
taken as good. `ActivateUser` may happen at any time here: when it may is
the subject of `Identity`.

### Recording

One session; `rstatus` and `linked` are the row (`status`, `egress_id`), `egress` is
LiveKit's own state. `Start` is gate, create, egress call, link; `Stop` and
`ReconcileForSession` find the row and then work with what they read (`hRec`,
`hEgress`). An egress may be reported in whatever state it is in by then, or by a name
that `mapStatus` does not know (`Unnamed`, reported as `"OTHER"`). A call that fails and the write
that marks its row failed are two steps. `Sent` is every webhook LiveKit has ever had reason to post, so any
order, delay and repetition is covered. With `CallsFail` calls time out after
they took effect, requests are cut short and the replay cache forgets;
without it the cache is exact.

The per-host rate limit and the global capacity appear only as refusals that
change nothing.

### AuditChain and AppendOnlyLog

A writer is a transaction: `Begin`, `Mutate` for each row of its target (it keeps the locks it
has while it waits for the next), `TakeLock`, `ReadTail`, `Insert` (which draws the seq), `Commit`. Two
writers that lock the same rows in different orders wait for each other until Postgres
fails one (`Deadlocked`). The log holds committed rows only. `AppendOnlyLog` says what a ledger is: a sequence that
grows at its end by entries that name their predecessor. The refinement mapping
drops the seq from each row. The consent ledger runs the same steps
under its own lock, so the results hold of it too.

### Presence

A seq is drawn (`DrawSeq`) before its row is visible (`CommitEvent`) or lost
(`RollbackEvent`). The worker is three transactions: read the resume point, read
at most `Batch` rows, write range, root and audit entry. A root is identified
with the rows under it: `leafBytes` is injective and the hash collision-free.
`Verify` follows the service: the covering checkpoint with the greatest end, the
rows now in its range.

### Merkle

`Root`, `path` and `rootFromProof` are the recursive functions of `pkg/merkle`, with hashes as
terms; the recursion is on the number of leaves (`rootOf`, `pathOf`, `upOf`), so that it can be
reasoned about. A null result of `rootFromProof` is the empty set. The one action adds a
leaf, so that every tree up to the bound is seen; the reference definition
(`RootIsPairwise`) builds the same tree pairwise from the bottom.

### Identity

One account; `Proc` are concurrent requests. The activation trigger reads in
`ActivateUser`, which takes the row lock, and the new status is visible from
`ActivateCommit` on; the downgrade trigger runs within the update of the vault and
sees only a status already committed. `bearer` is the set of tiers that valid
access tokens carry; it over-approximates a token whose generation was read
before a bump and signed after. `lapsed` is a history variable for the
two ways in which a basis goes unnoticed; it is taken back as soon as there is a basis again or
the account is no longer active, so it excuses no later loss.

### LiveSession and Roster

One session. `row` and `present` are `session_participants`, `trail` the presence events
and `granted` the LiveKit tokens that reached a client. Joining is: status read, roster
read (`roleFor`), the insert with its trigger in three steps (`LockSession`, `CountPresent`,
the insert at commit), the presence event, the reply. Starting and ending update
the session row and wait for its lock. The caller's tier and capabilities come
with the access token of each request (`claims`) and may be others in the next one.
`Roster` is what others may rely on: each person enters once with one role, leaves
once, and the cap holds.

### Login

`challenge` is the sequence of challenges of all addresses, in order of creation; a
challenge ages from fresh (within the resend cooldown) over settled to expired. A
guess is right or wrong. `RequestCode` and `CreateChallenge`, `VerifyCode` and `Increment` or
`Consume` are separate statements, as in the code, and so are the steps of the three
resolvers (`Lookup`, `NewPendingUser`, `LinkIdentity`). Step-up picks its channel at request and
again at verification, among the factors for which a sender is configured (`senders`; the two may
reach processes of different configuration). `Fail` may end a request anywhere. `uses` is a history
variable.

### Federation, KeyCache, SigningKeys, RateLimit

`Federation`: a login stands for its state and its secret (the nonce, or the PKCE
verifier for Zalo). A callback may bring any code and any state to any provider's
path; what it has to match are the browser's two cookies and, at the provider, the
login the code was given for. `attempt`, `answered` and `redeemed` are history variables.

`KeyCache`: `VerificationKey` holds its mutex over the fetch, so a lookup is one action
with three outcomes: from the cache, from the provider, or the provider is down.

`SigningKeys`: an environment is a signing key id, an optional local key, Vault or not,
and the listed keys; `Boot` is `config.Load` and `buildSigning`, `Sign` uses Vault's latest
version, which may rotate. Earlier signatures stay. A local key beside Vault is a start the code
allows, and so it is one of the model's, and a case the premise of `SignaturesVerify` names
(section 6).

`RateLimit`: the clock is read before the lock is taken, so buckets see times out of
order. Tokens are counted in units so that a rate may be fractional. `admits` and `newest`
are history variables: the times at which a key was let through, numbered to tell equal
times apart, and the latest time that reached its bucket.

### Access and Learning

`Access` is one class. Enrolling is the status, the entitlement gate, the capacity,
the membership, the count, the insert; getting a token for a recording is its gate and the
signature; serving a recording is the token, the re-check, the mark in
the audit-once map, the entry, the answer. An entry that fails is logged and not tried again
(`failed`). Grants and revocations are transactions
with their audit entry. `widest` and `hOwned` are history variables.

`Learning` has the two queries of the learner's page as operators (`Progress`, `Complete`,
`CompletedAt`) over sessions that are created, started, ended and reopened while
learners enrol, join and leave.

## 4. Runs

| run | question | instance |
| --- | --- | --- |
| `AuthSafety` | Is rotation single-use, is a complete revocation final, do rejected access tokens stay rejected, do bumps kill all, can an account out of standing gain a token? | 1 account, 2 requests; chains of 3 tokens up to the first bump, of 2 over 2 bumps |
| `AuthLiveness` | Does every request come back, from waits for several rows and from deadlocks too? | 2 tokens, 2 requests, 2 bumps, fairness |
| `RecordingSafety` | One in flight, completed is real, linked terminal rows are final? | 2 recordings, 2 requests, 1 delivery, failing calls |
| `RecordingLiveness` | Does a reconciliation stop a linked egress, whatever runs beside it; do rows settle in whatever order webhooks come? | 1 recording, 2 requests, 1 delivery at a time, calls that succeed, fairness |
| `RecordingWithdrawalStops` | Does the withdrawal of somebody who consented always stop the recording? No. | 2 people, 1 recording, 2 requests, fairness |
| `Trails` | Does the log verify and implement `AppendOnlyLog`, does every writer end; are checkpoint ranges disjoint, does a verified row stay so, does every row come to verify; is the tree sound at every size, and the one that pairwise joining gives? | 3 writers, 2 rows to change, 3 entries and sequence numbers; 1 worker, 5 rows, batches of 2; trees of up to 7 leaves |
| `PresenceAllEventsFolded` | Is every row folded into a root? No. | 1 worker, 3 rows, fairness |
| `Identity` | Do active accounts have a basis but for the named exceptions, does everything verified go back to an approved result? | 2 requests |
| `LiveSession` | Do the cap, the trail, the host's right to publish and the promise of `Roster` hold under every interleaving? | 3 people, 2 requests with any claims, a direct session of 2 or a class of up to 2 |
| `Login` | Do sessions and grants go to the owner of the address, and by how much are the limits overrun? | 1 email, 1 phone, 1 federated pair, 2 accounts, 2 challenges, 2 requests, 1 attempt, any senders |
| `Federation` | Does a callback stay within what its browser asked for, once; are stale keys bounded; does what is signed verify; does the limiter keep its window and starve nobody? | 2 browsers, 2 logins, 3 providers, 2 callbacks; 3 provider keys; 2 key ids and pairs; 2 clients |
| `Access` | Is overshoot bounded, does the trail account for access, do revocations bite, is every play audited, does a certificate stand? | 3 people (2 of them viewers), 2 requests, capacity 0 or 1; 2 learners, 2 sessions |

`Federation` and `Access` check a type invariant over all their parts (`TypesOK`), which says
what a callback needs at each step and that columns stay within their checks;
elsewhere types are part of the inductive invariants that are proved.

**Bounds.** One account, session or class suffices because rows of different ones
share neither locks nor keys. Two requests are the least that interleave; that no
third one changes the picture is what the theorems below show for the safety
properties, not what TLC shows. Three tokens make a chain with a beginning, a
middle and an end: the old token presented again, the live one, and a successor
being inserted. `MaxVersion` 2 lets a token survive one bump wrongly and be asked about
after another. Two recordings are needed for a freed slot taken by a second one.
Three writers give a holder, a waiter for the advisory lock and a waiter for rows, and two
rows are enough for a circle; a transaction that fails after its insert leaves a gap and two
more sequence numbers. Five presence rows in
batches of two make three checkpoints. Seven leaves give every shape of a tree up
to three levels. A third person is the one too many of a direct session. One
attempt, one seat and two requests are the least at which a limit can be overrun
and then seen to hold. Two challenges of one address let an older one become the
newest active one again. The key cache needs a tick between each pair of clamps, and
a `Cache-Control` below, within and above them. The limiter refills one request in three ticks, so that fractions carry over
and a bucket is swept, and made again full, before it would have been full by itself; its clock runs
long enough for that. Bounds on tokens, generations and sequence numbers are met when a request arrives
(`RoomForToken`, `RoomToBump`, `RoomForEntry`): one that has begun always finds room, so that no bound gives it
a way out that the code has not.

Where `CHECK_DEADLOCK FALSE` is given the instance really may stop: ids, sequence
numbers, versions, logins or time are used up. `Identity`,
`LiveSession`, `Login` and `Access` are checked for deadlock.

**Fairness.** `AuthSessions` and `AuditChain`: strong fairness of each request's own
steps, since Postgres queues the waiters of a lock in the order they came and so
does not pass one over for ever, and of a failure only where the request is in a circle of
waiters, which Postgres detects and breaks; clients, moderators and other failures owe nothing.
`Recording`: weak fairness of running requests and of delivery, since LiveKit
posts an event again until it is acknowledged; an egress need not make
progress. `Presence`: an insert ends; the ticker of `runPresenceCheckpoints` goes on
after errors; a read or write tried on every tick does not fail every time.

## 5. Theorems

All are proved with TLAPS for every value of the constants, under the named
`ASSUME`s only (the null values are no members of the sets they are added to,
bounds are natural numbers, people, requests and the sessions of a class are finitely many, the
host is a person, requests and couriers are distinct, the clamps of the key cache are in
order, a bucket is kept for longer than two requests wait for the lock).

- `AuthSessions_proofs`. `IInv` adds to the properties what each `pc` knows
  (`HandlerInv`: a handler about to rotate holds the lock of a row that is still
  live), that no two requests hold the same new token, and that no token is ahead of
  its account's generation. Without the first conjunct `OneLivePerFamily` is not
  inductive: `RotateCommit` adds a live row and only the lock says that the one
  it replaces is the family's last. `SingleUseRotation`, `RotationChains`,
  `RevocationIsFinal`, `TypeCorrect` follow. `RejectionIsFinal` and `BumpIsRevokeAll`
  are action properties: `NextAccessStep` shows that no step changes a token that is
  out, shortens the denylist or lowers a generation; the rest is arithmetic with
  `AccessNotAhead`. `StandingGatesSessions`: the only ways to a mint are a first-factor login and
  a rotation that have just found the account in standing, and the only new token is
  one a request was about to sign for the account of its row (`NextMintStep`).
- `Recording_proofs`. `IInv` adds `StartersOwn` (a start in progress owns its unlinked row,
  alone), `RowsInv` and what LiveKit has told whoever is about to write a status (`ReportsInv`).
  `SingleInFlight`, `CompletedMeansComplete`, `TypeCorrect`, and the action property
  `TerminalIsFinal`: the one write without a terminal guard, `SetRecordingEgress`, works
  on a row that is not linked yet.
- `Trails_proofs`, the audit chain. `IInv` says that a writer past `TakeLock` is alone, has seen the
  present tail, and has drawn a seq above all others. `CommitOrder` and `ChainIsIntact`
  follow, the latter by picking the row before in the log as the one named.
  `Refinement`: `Commit` maps to `AppendEntry`, every other step to a stutter.
- `Trails_proofs`, presence. `NoDoubleCover`, for one worker (`OneWorker`): what the worker has in hand
  is above everything covered, because nobody else writes. The assumption is
  needed: two workers that read the same resume point write the same range twice.
  `VerifiedRowsStay`: a new checkpoint begins above every earlier one, so the one that
  answers for a row goes on to answer for it, and only a late commit within its range
  changes the rows under its root.
- `Trails_proofs`, trees. `TreesAreSound` and `NothingElseVerifies` hold of lists of any length,
  leaves of any kind and, the latter, proofs of any origin. A recursive function of TLA+ is a
  `CHOOSE` and has to be shown to exist: the bodies (the loop for k, root, path,
  verification, the levels of the reference) only look at smaller numbers (`LooksDown`),
  and every such recursion has a solution (`RecursionDefines`). That and the rest is strong induction, stated for sets of
  numbers (`SetInduction`, from the well-foundedness of `<`). Then `RootsApart`: equal roots are
  of equal kind, and their halves are equal lists by induction; `ProofsSound`: a verification
  that ends in the root of a list came, at each level, through the root of the half that
  holds the index; `ProofsComplete`: a proof that begins with the path of a leaf leads to the
  root. For these, k need only lie between 1 and n - 1 (`SplitBounds`). `RootPairwise` needs
  that it is the power of two it is named for (`SplitIsPower`): joining neighbours does not
  cross an even boundary (`JoinGlues`), so the full tree on the left goes up on its own until
  one node of it is left, and one of the right.
- `Identity_proofs`. `AdultsOnly` and `EKYCIsEarned`: an activation between trigger and
  commit still has its basis, or `lapsed` is set; every verification, read vault and
  grant in flight goes back to an approved result.
- `LiveSession_proofs`. The inductive invariant says who holds the lock of the session row
  and that what its holder counted is still so; `CapHolds` needs exactly that. The role a
  request works with is the one in its caller's row from the insert on, whence
  `TrailFaithful` and `OwnerPublishes`. `RosterRefined` maps each insert to an arrival and each
  removal to a departure.
- `Login_proofs`. In `IInv`, `Knows` says what a request relies on at each step (its challenge
  is for its address; a caller who steps up is linked to that address). No step of
  another request can undo it, because challenges keep their addresses and links
  never move (`Evolves`, `LinksStand`): `OwnersGetSessions`, `StepUpProven`, `LinksStay`. `LimitsHold` counts:
  wrong guesses counted and on the way, uses and requests about to consume, codes in
  the mail and requests about to send. It needs that challenges age in the order of
  their creation (`AgesInv`), since the cooldown looks at the newest only.
- `Access_proofs`. `TrailAccountsForAccess` and `RevocationHolds` from what each request was told and
  whether its caller owned the class since; `PlaysAreAccounted` from the fact that a mark has
  an entry, somebody about to write it, or one that failed and was logged; `OvershootIsBounded` by counting members together
  with those past the check.

  `CertificatesStand`, of `Learning`: the three counts of the query are compared sets of one
  class, so equal counts are equal sets (`CountsMeanAll`); a row keeps its date because a
  second join meets the primary key.
- `Federation_proofs`, federated logins. `FedInv`: every cookie and every code names a login
  that was started, in that browser and with that provider, and a login is written
  once; a callback knows that of what it has read, and what each of its checks added.
  Nothing ties the state cookie to the provider, so `CallbacksBind` comes from the code's own
  provider and secret alone. `CookiesAreOneShot`: the state of an answered callback has left
  the cookie, and no redirect uses a state twice.
- `Federation_proofs`, provider keys. `KeyInv` adds that the time to live is within the clamps
  or nothing was ever fetched; `CacheIsBounded` for all clamps and all ages of an answer.
- `Federation_proofs`, signing keys. `SigningInv`: all that was signed and all that is trusted
  pairs an id with a key it was meant to have, and the process trusts its own id.
  `SignaturesStayGood`: with one key per id in that set, the trusted key is the one that signed.
- `Federation_proofs`, rate limiter. Refilling a bucket, forwards or back, leaves
  `tokens - Rate * last` alone, but for the cap. `Charged` says that whatever a key was let
  through with since a time was paid out of the full bucket of that time; `BucketInv`, that a
  bucket owes no more than the refill up to the newest arrival of its key, and that no request
  to come has read the clock before the bucket's first moment; `Idle`, that a
  key without a bucket has been silent until all it took was supplied again. A bucket may be swept
  long before it is full: then a burst per `Silence` is what a key can come by, and `Supply` is
  the faster of that and the refill. Both are put on one scale by `Worth`, which lies between them.
  The only assumption is that a bucket is kept for longer (10 minutes) than two requests wait for
  the mutex (`WaitsAreShort`). `WindowsAreBounded` and `NobodyStarves` follow, for every rate,
  burst, retention, number of callers and delay.

Only model-checked: the liveness properties (`EveryRequestReturns`,
`LinkedRowsSettle`, `ReconcileStopsLinked`, `AppendsReturn`, `RowsGetVerified`), which
need fairness and ENABLED.

## 6. Findings

Each is a run that TLC refutes, on a line of the repository that says otherwise.

1. `RecordingWithdrawalStops`. `stop` (`src/internal/recording/recording.go:221`) goes by the egress
   id of a row it read earlier. When somebody who consented withdraws before `Start` has linked the
   running egress, the row is aborted locally, linked afterwards, and nobody reconciles again.
2. `PresenceAllEventsFolded`. The checkpoint worker resumes after the greatest covered seq
   (`src/internal/store/presence_checkpoint.go:82`) although inserts take no lock. A row that
   commits late is never folded; if its seq is within the range that passed it, the rows of
   that range stop verifying too ("range tampered").

Other lines of the repository that the code does not bear out. They have no run of their own;
the model behaves as the code does, and the property that comes nearest names the case as
its exception:

- `src/internal/store/repos.go:156` says of `RevokeAllSessions` that a concurrent rotation cannot
  outrun the version bump. It is two statements: a rotation whose successor is inserted after the
  first has taken its snapshot is missed, and its session lives on past the bump. A theft
  response can miss a successor in the same way. `SealedFamiliesStayDead` asks for families that
  were covered in full.
- `moderation.go:44` says that a suspension revokes all sessions immediately. A refresh that read
  the standing before the suspension commits and the generation after it
  (`src/internal/auth/service.go:158`) gets an access token that outlives it.
  `NoSessionWithoutStanding` exempts such requests (`MayMint`).
- The egress "is only ever started when every present participant has consented". The gate
  (`src/internal/recording/recording.go:127`) is not asked again after a withdrawal or a join
  that comes before the egress starts, and a join triggers no reconciliation.
- "Out-of-order webhook deliveries are safe" (`recording.go:293`). The one that ends an egress may come before the row
  has its egress id (`src/internal/recording/recording.go:302`): it is acknowledged, not
  posted again, and the row stays in flight. `LinkedRowsSettle` asks for an egress that was
  live when it was linked.
- `ACCESS-MODEL.md:44` calls "active member => adult" true by construction. The activation trigger
  reads the vault and the downgrade trigger the status, each before the other's commit; and an
  attestation may be withdrawn with a second `AcceptToS`. `ActiveHasBasis` names both (`lapsed`).
- `ACCESS-MODEL.md:27` says a user keeps the tier while a verification is pending. `Begin`
  (`src/internal/identity/identity.go:109`) overwrites a verified vault with pending.
- `src/internal/config/config.go:267` says a process can always verify what it mints. With a local
  key beside Vault (line 307) it trusts the one and signs with the other; another key listed under
  the signing id, or a rotation in Vault under the same id, has the same effect.
  `SignaturesVerify` names the condition: an id is never given two keys.

Seen on the way, mostly where no line of the repository speaks of it:

- `ActivateUser` does not look at the status it leaves, so a callback or an
  accepted attestation on a token still held reactivates a suspended account.
- A start whose call times out after LiveKit accepted leaves an egress running that no row knows.
  An aborted row that is linked afterwards is in flight again. A stop that fails is only logged.
- `StartSession` reopens an ended session, and a participant who left cannot join
  again: the primary key still has the row. A failed presence event leaves its
  participant on the roster, and counts as attendance. A join that read the status
  before the end may add its row after it, so a certificate can be dated later.
- A code lets through every request that read its challenge before the first consumed
  it. Consuming the newest code makes an older one active again. Step-up and login
  share challenges.
- The answer to one login clears the cookies of another tab's. The state cookie is not
  tied to a provider; the nonce or the PKCE verifier is. A code delivered to the wrong
  login is spent before the nonce is looked at.
- A failed fetch of the keys does not move `lastFetch`, so the distance `remote.go:17` speaks of
  holds between successful fetches. One key of an unknown type spoils the document.
- A limiter so slow that a bucket takes more than ten minutes to fill (`config.go:624` takes any
  positive rate) hands out a new burst when the bucket is swept.
- A seat outlives the revocation of the entitlement it was taken with, or may be taken on a right
  revoked since the gate. The capacity of a
  class can be overrun by concurrent enrollments. A play whose audit entry fails is not audited
  again while its mark stands.

## 7. Not modelled

The encoding of claims and entries and the signature algorithms; the HTTP layer and
its error texts; delivery by SMTP and SMS; the wire formats of OIDC, Zalo, eKYC, Vault
and LiveKit, and the cache of Apple's client secret; settings other than keys and
connectors; profile edits, listings and other single statements that only read or
overwrite; the promotion of a moderator by the operator tool; the generated query code
as such; the web front end. They keep no shared state, or fail as a whole, which the
`Abort`, `Fail` and refusal actions cover.
