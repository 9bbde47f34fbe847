------------------------------ MODULE Identity ------------------------------
(***************************************************************************)
(* One account's way up and down the assurance tiers: the terms-of-service *)
(* attestation, the eKYC session and its callback, activation, and the two *)
(* triggers that tie users.status to an adult basis.                       *)
(*                                                                         *)
(* Every request is a sequence of statements, each its own transaction.    *)
(* UPDATE users SET status = 'active' takes two steps: its trigger reads   *)
(* the vault and the attestation, and the row becomes visible at the       *)
(* commit; in between the row is locked but the vault is not.  A write to  *)
(* the vault whose trigger looks for an active row does not wait for an    *)
(* activation it cannot see yet.                                           *)
(*                                                                         *)
(* Token generations are left to AuthSessions: bearer holds the tiers that *)
(* the account's valid access tokens carry, and a bump empties it.         *)
(***************************************************************************)
CONSTANTS
    Proc,  \* concurrent requests
    NULL

ASSUME ProcAssumption == NULL \notin Proc

VARIABLES
    status,     \* users.status
    instructor, \* users.can_instruct, and who set it
    vault,      \* identity_vault.verification_status
    adult,      \* identity_vault.is_adult
    attested,   \* tos_acceptances.adult_attested
    phone,      \* a phone_identities row exists
    bearer,     \* tiers carried by the valid access tokens
    opened,     \* an eKYC session is open at the vendor
    results,    \* what the vendor, or the operator, has decided
    userLock,   \* the request that holds the lock of the users row
    pc, hVault,
    lapsed      \* history: the account has no basis and no trigger looked when it went

userVars == <<status, instructor, userLock>>
vaultVars == <<vault, adult>>
vendorVars == <<opened, results>>
vars == <<userVars, vaultVars, attested, phone, bearer, vendorVars,
          pc, hVault, lapsed>>

Status == {"pending", "active", "suspended", "deleted"}
Verification == {"none", "pending", "verified"}
Tier == {"none", "pending", "declared", "phone_verified", "verified"}
Outcome == {"approved", "underage", "rejected"}
Step == {"idle", "vendor", "pend", "verify", "activate", "commit", "mint", "grant"}

TypeOK ==
    /\ status \in Status
    /\ instructor \in {"no", "self", "moderator"}
    /\ vault \in Verification
    /\ adult \in BOOLEAN
    /\ attested \in BOOLEAN
    /\ phone \in BOOLEAN
    /\ bearer \subseteq Tier
    /\ opened \in BOOLEAN
    /\ results \subseteq Outcome
    /\ userLock \in Proc \cup {NULL}
    /\ pc \in [Proc -> Step]
    /\ hVault \in [Proc -> Verification]
    /\ lapsed \in BOOLEAN

\* newPendingUser
Init ==
    /\ status = "pending"
    /\ instructor = "no"
    /\ vault = "none"
    /\ adult = FALSE
    /\ attested = FALSE
    /\ phone = FALSE
    /\ bearer = {}
    /\ opened = FALSE
    /\ results = {}
    /\ userLock = NULL
    /\ pc = [p \in Proc |-> "idle"]
    /\ hVault = [p \in Proc |-> "none"]
    /\ lapsed = FALSE

-----------------------------------------------------------------------------
Goto(p, s) == pc' = [pc EXCEPT ![p] = s]

\* requireAuth: the request carries a valid access token.
Authenticated(p) == pc[p] = "idle" /\ bearer # {}

\* The facts of enforce_adult_activation.
HasBasis == (adult /\ vault = "verified") \/ attested

\* builtinSignals and defaultAssurancePolicy: the first rule that holds.
tierOf(v, a, ph) ==
    IF v = "verified" THEN "verified"
    ELSE IF ph /\ a THEN "phone_verified"
    ELSE IF a THEN "declared"
    ELSE IF v = "pending" THEN "pending"
    ELSE "none"

\* An activation is past its trigger and not yet visible.
Activating == \E p \in Proc : pc[p] = "commit"

\* The basis goes where no trigger looks: the attestation is withdrawn, or the vault
\* is downgraded under an activation.  The exception lasts until there is a basis
\* again, or until the account is no longer active and about to be.
Lapse ==
    lapsed' = /\ lapsed \/ (attested /\ ~attested') \/ (HasBasis /\ Activating)
              /\ ~HasBasis'
              /\ status' = "active" \/ Activating'

-----------------------------------------------------------------------------
(* Terms of service                                                        *)

\* Withdrawing the attestation fires no trigger.
AcceptToS(p, adultAttested) ==
    /\ Authenticated(p)
    /\ attested' = adultAttested
    /\ Goto(p, IF adultAttested THEN "activate" ELSE "idle")
    /\ UNCHANGED <<userVars, vaultVars, phone, bearer, vendorVars, hVault>>
    /\ Lapse

-----------------------------------------------------------------------------
(* The vault and its trigger                                               *)

\* Mutant: a verification that is only pending does not downgrade.
enforceIdentityDowngradeNone(s, a) ==
    IF s = "none" /\ ~attested /\ status = "active"
    THEN userLock = NULL /\ status' = "suspended" /\ bearer' = {}
    ELSE UNCHANGED <<status, bearer>>

\* AFTER UPDATE: without a basis an active account is suspended and its tokens
\* are revoked.  Only a row that is visibly active is waited for.
enforceIdentityDowngrade(s, a) ==
    IF ~(a /\ s = "verified") /\ ~attested /\ status = "active"
    THEN userLock = NULL /\ status' = "suspended" /\ bearer' = {}
    ELSE UNCHANGED <<status, bearer>>

UpdateVault(s, a) ==
    /\ vault' = s
    /\ adult' = a
    /\ enforceIdentityDowngrade(s, a)
    /\ UNCHANGED <<instructor, userLock, attested, phone>>

-----------------------------------------------------------------------------
(* eKYC                                                                    *)

\* The vault row exists already; the vendor is asked next.
Begin(p) ==
    /\ Authenticated(p)
    /\ Goto(p, "vendor")
    /\ UNCHANGED <<userVars, vaultVars, attested, phone, bearer, vendorVars,
                   hVault, lapsed>>

BeginAtVendor(p) ==
    /\ pc[p] = "vendor"
    /\ opened' = TRUE
    /\ Goto(p, "pend")
    /\ UNCHANGED <<userVars, vaultVars, attested, phone, bearer, results,
                   hVault, lapsed>>

SetIdentityVerificationPending(p) ==
    /\ pc[p] = "pend"
    /\ UpdateVault("pending", adult)
    /\ Goto(p, "idle")
    /\ UNCHANGED <<vendorVars, hVault>>
    /\ Lapse

VendorDecides(o) ==
    /\ opened
    /\ results' = results \cup {o}
    /\ UNCHANGED <<userVars, vaultVars, attested, phone, bearer, opened, pc,
                   hVault, lapsed>>

\* Mutant: the over-18 flag of the callback is not looked at.
ApplyAnyAge(p, o) ==
    /\ pc[p] = "idle"
    /\ o \in results
    /\ Goto(p, IF o = "rejected" THEN "idle" ELSE "verify")
    /\ UNCHANGED <<userVars, vaultVars, attested, phone, bearer, vendorVars,
                   hVault, lapsed>>

\* A callback, delivered any number of times.  A rejected or under-age result
\* is acknowledged and changes nothing.
Apply(p, o) ==
    /\ pc[p] = "idle"
    /\ o \in results
    /\ Goto(p, IF o = "approved" THEN "verify" ELSE "idle")
    /\ UNCHANGED <<userVars, vaultVars, attested, phone, bearer, vendorVars,
                   hVault, lapsed>>

\* adminctl verify and bootstrap: the operator is the provider.
OperatorApproves(p) ==
    /\ pc[p] = "idle"
    /\ results' = results \cup {"approved"}
    /\ Goto(p, "verify")
    /\ UNCHANGED <<userVars, vaultVars, attested, phone, bearer, opened,
                   hVault, lapsed>>

VerifyAdultIdentity(p) ==
    /\ pc[p] = "verify"
    /\ UpdateVault("verified", TRUE)
    /\ Goto(p, "activate")
    /\ UNCHANGED <<vendorVars, hVault>>
    /\ Lapse

\* An eKYC reversal.
RevokeIdentityVerification ==
    /\ UpdateVault("none", FALSE)
    /\ UNCHANGED <<vendorVars, pc, hVault>>
    /\ Lapse

-----------------------------------------------------------------------------
(* Activation                                                              *)

\* The statement has the row and its trigger has found a basis.
ActivateUser(p) ==
    /\ pc[p] = "activate"
    /\ userLock = NULL
    /\ HasBasis
    /\ userLock' = p
    /\ Goto(p, "commit")
    /\ UNCHANGED <<status, instructor, vaultVars, attested, phone, bearer,
                   vendorVars, hVault, lapsed>>

ActivateRefused(p) ==
    /\ pc[p] = "activate"
    /\ userLock = NULL
    /\ ~HasBasis
    /\ Goto(p, "idle")
    /\ UNCHANGED <<userVars, vaultVars, attested, phone, bearer, vendorVars,
                   hVault, lapsed>>

\* From any status: pending, suspended and deleted rows are not told apart.
ActivateCommit(p) ==
    /\ pc[p] = "commit"
    /\ status' = "active"
    /\ userLock' = NULL
    /\ Goto(p, "idle")
    /\ UNCHANGED <<instructor, vaultVars, attested, phone, bearer, vendorVars,
                   hVault, lapsed>>

-----------------------------------------------------------------------------
(* Moderation and the account holder                                       *)

Suspend ==
    /\ userLock = NULL
    /\ status' = "suspended"
    /\ bearer' = {}
    /\ UNCHANGED <<instructor, userLock, vaultVars, attested, phone, vendorVars,
                   pc, hVault>>
    /\ Lapse

Reinstate(p) ==
    /\ pc[p] = "idle"
    /\ Goto(p, "activate")
    /\ UNCHANGED <<userVars, vaultVars, attested, phone, bearer, vendorVars,
                   hVault, lapsed>>

SetInstructor(grant) ==
    /\ userLock = NULL
    /\ instructor' = IF grant THEN "moderator" ELSE "no"
    /\ UNCHANGED <<status, userLock, vaultVars, attested, phone, bearer,
                   vendorVars, pc, hVault, lapsed>>

CloseAccount ==
    /\ bearer # {}
    /\ userLock = NULL
    /\ status' = "deleted"
    /\ bearer' = {}
    /\ UNCHANGED <<instructor, userLock, vaultVars, attested, phone, vendorVars,
                   pc, hVault>>
    /\ Lapse

LinkPhoneIdentity ==
    /\ phone' = TRUE
    /\ UNCHANGED <<userVars, vaultVars, attested, bearer, vendorVars, pc, hVault,
                   lapsed>>

\* The gate reads the token's tier, not the vault.
BecomeInstructor(p) ==
    /\ pc[p] = "idle"
    /\ "verified" \in bearer
    /\ Goto(p, "grant")
    /\ UNCHANGED <<userVars, vaultVars, attested, phone, bearer, vendorVars,
                   hVault, lapsed>>

GrantInstructor(p) ==
    /\ pc[p] = "grant"
    /\ userLock = NULL
    /\ instructor' = "self"
    /\ Goto(p, "idle")
    /\ UNCHANGED <<status, userLock, vaultVars, attested, phone, bearer,
                   vendorVars, hVault, lapsed>>

-----------------------------------------------------------------------------
(* Issuing and refreshing tokens                                           *)

\* GetUser and GetIdentity, before mint.
MintReadIdentity(p) ==
    /\ pc[p] = "idle"
    /\ status \in {"pending", "active"}
    /\ hVault' = [hVault EXCEPT ![p] = vault]
    /\ Goto(p, "mint")
    /\ UNCHANGED <<userVars, vaultVars, attested, phone, bearer, vendorVars, lapsed>>

\* The attestation and the phone are read later than the vault.
Mint(p) ==
    /\ pc[p] = "mint"
    /\ bearer' = bearer \cup {tierOf(hVault[p], attested, phone)}
    /\ hVault' = [hVault EXCEPT ![p] = "none"]
    /\ Goto(p, "idle")
    /\ UNCHANGED <<userVars, vaultVars, attested, phone, vendorVars, lapsed>>

\* Expiry, logout or logout-everywhere.
TokenDies(t) ==
    /\ t \in bearer
    /\ bearer' = bearer \ {t}
    /\ UNCHANGED <<userVars, vaultVars, attested, phone, vendorVars, pc, hVault,
                   lapsed>>

\* A statement fails or the process dies: what was committed stays.
Abort(p) ==
    /\ pc[p] # "idle"
    /\ userLock' = IF userLock = p THEN NULL ELSE userLock
    /\ hVault' = [hVault EXCEPT ![p] = "none"]
    /\ Goto(p, "idle")
    /\ UNCHANGED <<status, instructor, vaultVars, attested, phone, bearer,
                   vendorVars>>
    /\ Lapse

-----------------------------------------------------------------------------
ProcNext(p) ==
    \/ AcceptToS(p, TRUE) \/ AcceptToS(p, FALSE)
    \/ Begin(p) \/ BeginAtVendor(p) \/ SetIdentityVerificationPending(p)
    \/ \E o \in Outcome : Apply(p, o)
    \/ OperatorApproves(p) \/ VerifyAdultIdentity(p)
    \/ ActivateUser(p) \/ ActivateRefused(p) \/ ActivateCommit(p)
    \/ Reinstate(p)
    \/ BecomeInstructor(p) \/ GrantInstructor(p)
    \/ MintReadIdentity(p) \/ Mint(p)
    \/ Abort(p)

Next ==
    \/ \E p \in Proc : ProcNext(p)
    \/ \E o \in Outcome : VendorDecides(o)
    \/ RevokeIdentityVerification
    \/ Suspend \/ SetInstructor(TRUE) \/ SetInstructor(FALSE) \/ CloseAccount
    \/ LinkPhoneIdentity
    \/ \E t \in Tier : TokenDies(t)

Spec == Init /\ [][Next]_vars

-----------------------------------------------------------------------------
(* Properties                                                              *)

(***************************************************************************)
(* The two triggers together keep every active account on an adult basis,  *)
(* through retried callbacks, second verifications, reversals and          *)
(* reinstatements, with two exceptions: the account holder withdraws the   *)
(* attestation, or the vault is downgraded while an activation stands      *)
(* between its trigger and its commit.  An exception is over with the next *)
(* basis or the next suspension: it excuses no later loss.                 *)
(***************************************************************************)
ActiveHasBasis == status = "active" => HasBasis \/ lapsed

(***************************************************************************)
(* Nothing that needs eKYC is had without it: an adult vault, a token of   *)
(* the verified tier and a self-granted instructor all go back to an       *)
(* approved, over-18 result, however stale the token or the read it was    *)
(* minted from.                                                            *)
(***************************************************************************)
VerifiedIsApproved ==
    adult \/ vault = "verified" \/ "verified" \in bearer \/ instructor = "self"
        => "approved" \in results
=============================================================================
