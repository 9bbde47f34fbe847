-------------------------------- MODULE Login --------------------------------
(***************************************************************************)
(* One-time codes and what they open: a login with an email address or a   *)
(* phone number, the binding of a phone to the caller's account, a step-up *)
(* grant with its data export; and the account a proven principal is       *)
(* linked to, for codes and for federated logins alike.                    *)
(*                                                                         *)
(* A request takes one action per database statement that others can come  *)
(* between.  Codes are told apart by their challenge: a guess is right or  *)
(* wrong for the challenge it is compared with.  Time is the age of a      *)
(* challenge, which passes from fresh (within the resend cooldown) over    *)
(* settled to expired, never out of the order of creation.                 *)
(***************************************************************************)
EXTENDS Naturals, Sequences, FiniteSets

CONSTANTS
    Email, Phone,    \* normalized addresses
    Federated,       \* (provider, subject) pairs
    User,            \* ids for new accounts
    Handler,         \* concurrently running requests
    maxCodeAttempts,
    MaxChallenge,    \* bound: challenges ever created
    NULL

ASSUME BoundAssumption == maxCodeAttempts \in Nat /\ MaxChallenge \in Nat
ASSUME NullAssumption == NULL \notin User
ASSUME AddressAssumption ==
    Email \cap Phone = {} /\ (Email \cup Phone) \cap Federated = {}
ASSUME HandlerAssumption == IsFiniteSet(Handler)

VARIABLES
    challenge,  \* login_challenges and phone_challenges, in order of creation
    accounts,   \* users with a row
    link,       \* account an address or federated pair is linked to
    grants,     \* stepup_grants: [user, ch, live]
    issued,     \* sessions given out: [user, subject, caller]
    exported,   \* accounts whose data export was served
    uses,       \* history: right guesses that were let through
    pc, hSubject, hCh, hCaller, hGoal, hUser

linkVars == <<accounts, link>>
outVars == <<grants, issued, exported>>
localVars == <<hSubject, hCh, hCaller, hGoal, hUser>>
vars == <<challenge, linkVars, outVars, uses, pc, localVars>>

Address == Email \cup Phone
Subject == Address \cup Federated
ChId == 1..MaxChallenge
Age == {"fresh", "settled", "expired"}
Challenge == [addr : Address, attempts : Nat, consumed : BOOLEAN, age : Age]

Step == {"idle",
         "create",  \* RequestCode: Create...Challenge next
         "miss",    \* Verify: Increment...Attempts next
         "consume", \* Verify: Consume...Challenge next
         "grant",   \* step-up: CreateStepUpGrant next
         "resolve", \* Resolve: Get...Identity next
         "account", \* Resolve: newPendingUser next
         "link",    \* Resolve: Link...Identity next
         "issue"}   \* Authenticate: IssueSession next

TypeOK ==
    /\ challenge \in Seq(Challenge)
    /\ Len(challenge) <= MaxChallenge
    /\ accounts \subseteq User
    /\ link \in [Subject -> User \cup {NULL}]
    /\ grants \subseteq [user : User, ch : ChId, live : BOOLEAN]
    /\ issued \subseteq [user : User, subject : Subject, caller : User \cup {NULL}]
    /\ exported \subseteq User
    /\ uses \in [ChId -> Nat]
    /\ pc \in [Handler -> Step]
    /\ hSubject \in [Handler -> Subject \cup {NULL}]
    /\ hCh \in [Handler -> ChId \cup {0}]
    /\ hCaller \in [Handler -> User \cup {NULL}]
    /\ hGoal \in [Handler -> {"login", "stepup"}]
    /\ hUser \in [Handler -> User \cup {NULL}]

Init ==
    /\ challenge = <<>>
    /\ accounts = {}
    /\ link = [s \in Subject |-> NULL]
    /\ grants = {}
    /\ issued = {}
    /\ exported = {}
    /\ uses = [c \in ChId |-> 0]
    /\ pc = [h \in Handler |-> "idle"]
    /\ hSubject = [h \in Handler |-> NULL]
    /\ hCh = [h \in Handler |-> 0]
    /\ hCaller = [h \in Handler |-> NULL]
    /\ hGoal = [h \in Handler |-> "login"]
    /\ hUser = [h \in Handler |-> NULL]

-----------------------------------------------------------------------------
Goto(h, s) == pc' = [pc EXCEPT ![h] = s]

Return(h) ==
    /\ Goto(h, "idle")
    /\ hSubject' = [hSubject EXCEPT ![h] = NULL]
    /\ hCh' = [hCh EXCEPT ![h] = 0]
    /\ hCaller' = [hCaller EXCEPT ![h] = NULL]
    /\ hGoal' = [hGoal EXCEPT ![h] = "login"]
    /\ hUser' = [hUser EXCEPT ![h] = NULL]

IsActive(c, a) ==
    /\ challenge[c].addr = a
    /\ ~challenge[c].consumed
    /\ challenge[c].age # "expired"

\* GetActiveLoginChallenge, GetActivePhoneChallenge: the newest active one.
ActiveChallenge(a) ==
    {c \in DOMAIN challenge :
        /\ IsActive(c, a)
        /\ \A d \in DOMAIN challenge : IsActive(d, a) => d <= c}

\* Mutant: step-up takes any address on file for the whole platform.
ChannelAny(u, senders) == Address

\* GetIdentityFactors: the addresses of one kind linked to an account.
OnFile(u, S) == {a \in S : link[a] = u}

\* The code senders a process is configured with, which a restart may change between
\* any two requests.
Sender == {"sms", "email"}

\* pickChannel: a phone first, else an email, each if there is a sender for it; of
\* several phones of one account the database returns any.
Channel(u, senders) ==
    IF "sms" \in senders /\ OnFile(u, Phone) # {} THEN OnFile(u, Phone)
    ELSE IF "email" \in senders THEN OnFile(u, Email)
    ELSE {}

-----------------------------------------------------------------------------
(* RequestCode of email, phone and step-up                                 *)

\* A fresh challenge outstanding suppresses a resend.
MaySend(a) == \A c \in ActiveChallenge(a) : challenge[c].age # "fresh"

RequestCode(h, a) ==
    /\ pc[h] = "idle"
    /\ MaySend(a)
    /\ Goto(h, "create")
    /\ hSubject' = [hSubject EXCEPT ![h] = a]
    /\ UNCHANGED <<challenge, linkVars, outVars, uses, hCh, hCaller,
                   hGoal, hUser>>

EmailRequest(h) == \E a \in Email : RequestCode(h, a)

PhoneRequest(h) == \E a \in Phone : RequestCode(h, a)

StepUpRequest(h) ==
    \E u \in accounts, senders \in SUBSET Sender :
        \E a \in Channel(u, senders) : RequestCode(h, a)

\* The code goes out by mail or SMS; a delivery that fails leaves the challenge.
CreateChallenge(h) ==
    /\ pc[h] = "create"
    /\ Len(challenge) < MaxChallenge
    /\ challenge' = Append(challenge, [addr |-> hSubject[h], attempts |-> 0,
                                       consumed |-> FALSE, age |-> "fresh"])
    /\ Return(h)
    /\ UNCHANGED <<linkVars, outVars, uses>>

\* Time passes for a challenge, for the older ones first.
GrowOld(c) ==
    /\ challenge[c].age # "expired"
    /\ LET next == IF challenge[c].age = "fresh" THEN "settled" ELSE "expired"
       IN  /\ \A d \in 1..(c - 1) : challenge[d].age \in {next, "expired"}
           /\ challenge' = [challenge EXCEPT ![c].age = next]
    /\ UNCHANGED <<linkVars, outVars, uses, pc, localVars>>

-----------------------------------------------------------------------------
(* VerifyCode of email and phone, Verify of step-up                        *)

\* Mutant: the attempts of the challenge are not looked at.
AttemptsLeftAlways(c) == TRUE

AttemptsLeft(c) == challenge[c].attempts < maxCodeAttempts

\* The challenge is read with its attempts and the guess compared with it.
VerifyCode(h, a, goal, caller, right) ==
    /\ pc[h] = "idle"
    /\ \E c \in ActiveChallenge(a) :
         /\ AttemptsLeft(c)
         /\ hCh' = [hCh EXCEPT ![h] = c]
    /\ hSubject' = [hSubject EXCEPT ![h] = a]
    /\ hCaller' = [hCaller EXCEPT ![h] = caller]
    /\ hGoal' = [hGoal EXCEPT ![h] = goal]
    /\ Goto(h, IF right THEN "consume" ELSE "miss")
    /\ UNCHANGED <<challenge, linkVars, outVars, uses, hUser>>

EmailVerify(h, right) == \E a \in Email : VerifyCode(h, a, "login", NULL, right)

\* With a valid bearer the phone is to be bound to the caller's account.
PhoneVerify(h, right) ==
    \E a \in Phone, caller \in accounts \cup {NULL} :
        VerifyCode(h, a, "login", caller, right)

StepUpVerify(h, right) ==
    \E u \in accounts, senders \in SUBSET Sender :
        \E a \in Channel(u, senders) : VerifyCode(h, a, "stepup", u, right)

\* The wrong guess is counted.
Increment(h) ==
    /\ pc[h] = "miss"
    /\ challenge' = [challenge EXCEPT ![hCh[h]].attempts = @ + 1]
    /\ Return(h)
    /\ UNCHANGED <<linkVars, outVars, uses>>

\* UPDATE ... SET consumed_at, whatever it was.
Consume(h) ==
    /\ pc[h] = "consume"
    /\ challenge' = [challenge EXCEPT ![hCh[h]].consumed = TRUE]
    /\ uses' = [uses EXCEPT ![hCh[h]] = @ + 1]
    /\ Goto(h, IF hGoal[h] = "stepup" THEN "grant" ELSE "resolve")
    /\ UNCHANGED <<linkVars, outVars, localVars>>

-----------------------------------------------------------------------------
(* Step-up grants and the data export                                      *)

CreateStepUpGrant(h) ==
    /\ pc[h] = "grant"
    /\ grants' = grants \cup {[user |-> hCaller[h], ch |-> hCh[h], live |-> TRUE]}
    /\ Return(h)
    /\ UNCHANGED <<challenge, linkVars, issued, exported, uses>>

ExpireGrant(g) ==
    /\ g.live
    /\ grants' = (grants \ {g}) \cup {[g EXCEPT !.live = FALSE]}
    /\ UNCHANGED <<challenge, linkVars, issued, exported, uses, pc, localVars>>

\* ValidGrant: an unexpired grant of this user; it may be used again and again.
ValidGrant(u) == \E g \in grants : g.user = u /\ g.live

\* Everything held on a user, in seven reads; when one fails nothing is served.
Export(u) == exported' \in {exported, exported \cup {u}}

DataExport(u) ==
    /\ ValidGrant(u)
    /\ Export(u)
    /\ UNCHANGED <<challenge, linkVars, grants, issued, uses, pc, localVars>>

-----------------------------------------------------------------------------
(* Authenticate: the link resolvers and the session                        *)

\* The callback of a federated login has proved the pair.
FederatedCallback(h, s) ==
    /\ pc[h] = "idle"
    /\ Goto(h, "resolve")
    /\ hSubject' = [hSubject EXCEPT ![h] = s]
    /\ UNCHANGED <<challenge, linkVars, outVars, uses, hCh, hCaller, hGoal,
                   hUser>>

\* The linked account logs in.
UseLinked(h) ==
    /\ hUser' = [hUser EXCEPT ![h] = link[hSubject[h]]]
    /\ Goto(h, "issue")
    /\ UNCHANGED <<hSubject, hCh, hCaller, hGoal>>

\* The caller's account gets the phone; without a caller an account is created.
NewOwner(h) ==
    /\ hUser' = [hUser EXCEPT ![h] = hCaller[h]]
    /\ Goto(h, IF hCaller[h] = NULL THEN "account" ELSE "link")
    /\ UNCHANGED <<hSubject, hCh, hCaller, hGoal>>

\* Get...Identity of a subject in the set S.
Lookup(h, S) ==
    /\ pc[h] = "resolve"
    /\ hSubject[h] \in S
    /\ IF link[hSubject[h]] # NULL THEN UseLinked(h) ELSE NewOwner(h)
    /\ UNCHANGED <<challenge, linkVars, outVars, uses>>

EmailResolve(h) == Lookup(h, Email)

FederatedResolve(h) == Lookup(h, Federated)

\* Mutant: nobody asks whose phone it is.
ConflictNever(h) == FALSE

\* ErrPhoneConflict: the phone belongs to another account than the caller's.
Conflict(h) ==
    /\ link[hSubject[h]] # NULL
    /\ hCaller[h] # NULL
    /\ hCaller[h] # link[hSubject[h]]

PhoneResolve(h) == Lookup(h, Phone) /\ ~Conflict(h)

PhoneRefused(h) ==
    /\ pc[h] = "resolve"
    /\ Conflict(h)
    /\ Return(h)
    /\ UNCHANGED <<challenge, linkVars, outVars, uses>>

\* newPendingUser: the user's row and the vault's.
NewPendingUser(h, u) ==
    /\ pc[h] = "account"
    /\ u \notin accounts
    /\ accounts' = accounts \cup {u}
    /\ hUser' = [hUser EXCEPT ![h] = u]
    /\ Goto(h, "link")
    /\ UNCHANGED <<challenge, link, outVars, uses, hSubject, hCh, hCaller,
                   hGoal>>

\* The primary key refuses a second link of the same address or pair.
LinkIdentity(h) ==
    /\ pc[h] = "link"
    /\ \/ /\ link[hSubject[h]] = NULL
          /\ link' = [link EXCEPT ![hSubject[h]] = hUser[h]]
          /\ Goto(h, "issue")
          /\ UNCHANGED localVars
       \/ /\ link[hSubject[h]] # NULL
          /\ Return(h)
          /\ UNCHANGED link
    /\ UNCHANGED <<challenge, accounts, outVars, uses>>

IssueSession(h) ==
    /\ pc[h] = "issue"
    /\ issued' = issued \cup {[user |-> hUser[h], subject |-> hSubject[h],
                                 caller |-> hCaller[h]]}
    /\ Return(h)
    /\ UNCHANGED <<challenge, linkVars, grants, exported, uses>>

-----------------------------------------------------------------------------
\* A statement fails or the request is cut short; a wrong guess then goes
\* uncounted, as it does when the error of the increment is ignored.
Fail(h) ==
    /\ pc[h] # "idle"
    /\ Return(h)
    /\ UNCHANGED <<challenge, linkVars, outVars, uses>>

HandlerStep(h) ==
    \/ CreateChallenge(h)
    \/ Increment(h) \/ Consume(h) \/ CreateStepUpGrant(h)
    \/ EmailResolve(h) \/ PhoneResolve(h) \/ PhoneRefused(h) \/ FederatedResolve(h)
    \/ \E u \in User : NewPendingUser(h, u)
    \/ LinkIdentity(h) \/ IssueSession(h)

Request(h) ==
    \/ EmailRequest(h) \/ PhoneRequest(h) \/ StepUpRequest(h)
    \/ \E right \in BOOLEAN :
          EmailVerify(h, right) \/ PhoneVerify(h, right) \/ StepUpVerify(h, right)
    \/ \E s \in Federated : FederatedCallback(h, s)

Next ==
    \/ \E h \in Handler : Request(h) \/ HandlerStep(h) \/ Fail(h)
    \/ \E c \in DOMAIN challenge : GrowOld(c)
    \/ \E g \in grants : ExpireGrant(g)
    \/ \E u \in User : DataExport(u)

Spec == Init /\ [][Next]_vars

-----------------------------------------------------------------------------
(* Properties                                                              *)

\* Whoever proves an address or a federated pair gets a session of the one account
\* it is linked to, even when first logins and phone bindings race, and a caller who
\* is logged in never comes out with somebody else's session (Resolve).
SessionsGoToOwner ==
    \A s \in issued : link[s.subject] = s.user /\ s.caller \in {NULL, s.user}

\* A link is made once and never moves to another account: the accounts a person
\* reaches are not merged or taken over (LinkEmailIdentity, ErrPhoneConflict).
LinksNeverMove == [][\A s \in Subject : link[s] # NULL => link'[s] = link[s]]_vars

\* A step-up grant comes from a code that was sent to an address of the very account
\* it is for, although the channel is picked anew by request and by verification, and
\* a login may share the challenge (StepUp.Verify).
GrantProvesOwner ==
    \A g \in grants :
        /\ g.ch \in DOMAIN challenge
        /\ challenge[g.ch].consumed
        /\ link[challenge[g.ch].addr] = g.user

\* Nobody's data is exported before a code sent to an address of that account came
\* back right (handleDataExport).
ExportWasProven ==
    \A u \in exported :
        \E c \in DOMAIN challenge : challenge[c].consumed /\ link[challenge[c].addr] = u

\* The attempt limit holds up to the requests that run at once: of a challenge's wrong
\* guesses, those counted and those about to be are no more than that, although
\* attempts are read before the comparison and counted after it.  A guess whose count
\* is lost is free (VerifyCode, IncrementLoginAttempts).
GuessBound ==
    \A c \in DOMAIN challenge :
        challenge[c].attempts + Cardinality({h \in Handler : pc[h] = "miss" /\ hCh[h] = c})
          <= maxCodeAttempts + Cardinality(Handler) - 1

\* A code lets through at most the requests that read its challenge before the first
\* of them consumed it (ConsumeLoginChallenge reports nothing).
UseBound == \A c \in ChId : uses[c] <= Cardinality(Handler)

\* The resend cooldown holds up to the requests that run at once: of an address's
\* unanswered codes, those younger than the cooldown and those on the way are no more
\* than that (RequestCode).
ResendBound ==
    \A a \in Address :
        Cardinality({c \in DOMAIN challenge :
                        IsActive(c, a) /\ challenge[c].age = "fresh"})
          + Cardinality({h \in Handler : pc[h] = "create" /\ hSubject[h] = a})
          <= Cardinality(Handler)

\* Step-up proves possession: no grant, and no export of anybody's data, without a code
\* that went to an address of that very account (StepUp.Verify, handleDataExport).
StepUpProvesOwner == GrantProvesOwner /\ ExportWasProven

\* Checks and counts of codes are statements of their own, so limits can be overrun, but
\* only by the requests that run at once: guesses, uses and codes in the mail.
OverrunBound == GuessBound /\ UseBound /\ ResendBound
=============================================================================
