-------------------------- MODULE Identity_proofs --------------------------
(***************************************************************************)
(* Proofs that an active account has an adult basis and that everything of *)
(* the verified tier goes back to an approved result, for any number of    *)
(* concurrent requests.                                                    *)
(***************************************************************************)
EXTENDS Identity, TLAPS

\* What requests in flight hold: an activation past its trigger has a basis or
\* has lost it in one of the two named ways; a verification, a read of the
\* vault and a grant in flight go back to an approved result.
InFlight ==
    \A p \in Proc :
        /\ pc[p] = "commit" => HasBasis \/ lapsed
        /\ pc[p] = "verify" => "approved" \in results
        /\ pc[p] = "grant" => "approved" \in results
        /\ hVault[p] = "verified" => "approved" \in results

IInv == TypeOK /\ ActiveHasBasis /\ VerifiedIsApproved /\ InFlight

LEMMA InitIInv == Init => IInv
BY DEF Init, IInv, TypeOK, ActiveHasBasis, VerifiedIsApproved, InFlight, HasBasis,
       Status, Verification, Step

\* The trigger on the vault: an active account that loses its basis is no longer
\* active, and an activation it cannot see is recorded as lapsed.
LEMMA VaultStep ==
    ASSUME IInv, NEW s \in Verification, NEW a \in BOOLEAN, UpdateVault(s, a), Lapse,
           a \/ s = "verified" => "approved" \in results,
           UNCHANGED vendorVars, hVault' = hVault,
           pc' \in [Proc -> Step],
           \A p \in Proc : pc'[p] = pc[p] \/ pc'[p] \in {"idle", "activate"}
    PROVE  IInv'
<1> USE DEF IInv, vendorVars, UpdateVault
<1>1. /\ status' \in Status /\ bearer' \subseteq bearer
      /\ status' = "active" =>
           status = "active" /\ ((a /\ s = "verified") \/ attested)
  BY DEF enforceIdentityDowngrade, TypeOK, Status
<1>2. TypeOK'
  BY <1>1 DEF TypeOK, Lapse
<1>3. ActiveHasBasis'
  BY <1>1 DEF ActiveHasBasis, HasBasis
<1>4. VerifiedIsApproved'
  BY <1>1 DEF VerifiedIsApproved
<1>5. ASSUME NEW p \in Proc, pc'[p] = "commit" PROVE HasBasis' \/ lapsed'
  <2>1. pc[p] = "commit" /\ (HasBasis \/ lapsed)
    BY <1>5 DEF InFlight
  <2>2. Activating /\ Activating'
    BY <2>1, <1>5 DEF Activating
  <2> QED BY <2>1, <2>2 DEF Lapse
<1>6. InFlight'
  BY <1>5 DEF InFlight, TypeOK
<1> QED BY <1>2, <1>3, <1>4, <1>6

\* A step that leaves the facts and the status alone preserves the invariant
\* when what it puts in flight is warranted.
LEMMA ControlStep ==
    ASSUME IInv, UNCHANGED <<status, vaultVars, attested, phone, lapsed>>,
           results \subseteq results', results' \subseteq Outcome, opened' \in BOOLEAN,
           instructor' \in {"no", "self", "moderator"},
           instructor' = "self" => "approved" \in results',
           bearer' \subseteq Tier,
           "verified" \in bearer' => "approved" \in results',
           userLock' \in Proc \cup {NULL},
           pc' \in [Proc -> Step], hVault' \in [Proc -> Verification],
           \A p \in Proc : pc'[p] = "commit" => pc[p] = "commit" \/ HasBasis,
           \A p \in Proc : pc'[p] \in {"verify", "grant"} => "approved" \in results',
           \A p \in Proc : hVault'[p] = "verified" => "approved" \in results'
    PROVE  IInv'
<1> USE DEF IInv, vaultVars
<1>1. TypeOK'
  BY DEF TypeOK
<1>2. ActiveHasBasis'
  BY DEF ActiveHasBasis, HasBasis
<1>3. VerifiedIsApproved'
  BY DEF VerifiedIsApproved
<1>4. InFlight'
  BY DEF InFlight, HasBasis
<1> QED BY <1>1, <1>2, <1>3, <1>4

LEMMA ProcIInv ==
    ASSUME IInv, NEW p \in Proc, ProcNext(p)
    PROVE  IInv'
<1> USE DEF IInv, vars, userVars, vaultVars, vendorVars, Goto, TypeOK, Step,
            Verification, Outcome
<1>0. /\ "verified" \in bearer => "approved" \in results
      /\ instructor = "self" => "approved" \in results
      /\ vault = "verified" => "approved" \in results
      /\ adult => "approved" \in results
  BY DEF VerifiedIsApproved
<1>i. \A q \in Proc :
        /\ pc[q] \in {"verify", "grant"} => "approved" \in results
        /\ hVault[q] = "verified" => "approved" \in results
  BY DEF InFlight
<1>1. CASE AcceptToS(p, TRUE) \/ AcceptToS(p, FALSE)
  <2>1. TypeOK'
    BY <1>1 DEF AcceptToS, Lapse
  <2>2. ActiveHasBasis'
    BY <1>1 DEF AcceptToS, Lapse, ActiveHasBasis, HasBasis
  <2>3. VerifiedIsApproved'
    BY <1>1 DEF AcceptToS, VerifiedIsApproved
  <2>4. InFlight'
    <3>1. ASSUME NEW q \in Proc, pc'[q] = "commit" PROVE HasBasis' \/ lapsed'
      <4>1. pc[q] = "commit" /\ (HasBasis \/ lapsed)
        BY <1>1, <3>1 DEF AcceptToS, InFlight
      <4>2. Activating /\ Activating'
        BY <4>1, <3>1 DEF Activating
      <4> QED BY <1>1, <4>1, <4>2 DEF Lapse, AcceptToS
    <3> QED BY <1>1, <3>1 DEF AcceptToS, InFlight
  <2> QED BY <2>1, <2>2, <2>3, <2>4
<1>2. CASE Begin(p)
  BY <1>2, <1>0, <1>i, ControlStep DEF Begin
<1>3. CASE BeginAtVendor(p)
  BY <1>3, <1>0, <1>i, ControlStep DEF BeginAtVendor
<1>4. CASE SetIdentityVerificationPending(p)
  BY <1>4, <1>0, VaultStep DEF SetIdentityVerificationPending
<1>5. CASE \E o \in Outcome : Apply(p, o)
  BY <1>5, <1>0, <1>i, ControlStep DEF Apply
<1>6. CASE OperatorApproves(p)
  BY <1>6, <1>0, <1>i, ControlStep DEF OperatorApproves
<1>7. CASE VerifyAdultIdentity(p)
  BY <1>7, <1>i, VaultStep DEF VerifyAdultIdentity
<1>8. CASE ActivateUser(p)
  BY <1>8, <1>0, <1>i, ControlStep DEF ActivateUser
<1>9. CASE ActivateRefused(p)
  BY <1>9, <1>0, <1>i, ControlStep DEF ActivateRefused
<1>10. CASE ActivateCommit(p)
  <2>1. HasBasis \/ lapsed
    BY <1>10 DEF ActivateCommit, InFlight
  <2>2. TypeOK'
    BY <1>10 DEF ActivateCommit, Status
  <2>3. ActiveHasBasis'
    BY <1>10, <2>1 DEF ActivateCommit, ActiveHasBasis, HasBasis
  <2>4. VerifiedIsApproved'
    BY <1>10 DEF ActivateCommit, VerifiedIsApproved
  <2>5. InFlight'
    BY <1>10 DEF ActivateCommit, InFlight, HasBasis
  <2> QED BY <2>2, <2>3, <2>4, <2>5
<1>11. CASE Reinstate(p)
  BY <1>11, <1>0, <1>i, ControlStep DEF Reinstate
<1>12. CASE BecomeInstructor(p)
  BY <1>12, <1>0, <1>i, ControlStep DEF BecomeInstructor
<1>13. CASE GrantInstructor(p)
  BY <1>13, <1>0, <1>i, ControlStep DEF GrantInstructor
<1>14. CASE MintReadIdentity(p)
  BY <1>14, <1>0, <1>i, ControlStep DEF MintReadIdentity
<1>15. CASE Mint(p)
  <2>1. /\ tierOf(hVault[p], attested, phone) \in Tier
        /\ tierOf(hVault[p], attested, phone) = "verified" => hVault[p] = "verified"
    BY DEF tierOf, Tier
  <2> QED BY <1>15, <1>0, <1>i, <2>1, ControlStep DEF Mint
<1>16. CASE Abort(p)
  <2>1. TypeOK'
    BY <1>16 DEF Abort, Lapse
  <2>2. ActiveHasBasis' /\ VerifiedIsApproved'
    BY <1>16 DEF Abort, Lapse, ActiveHasBasis, VerifiedIsApproved, HasBasis
  <2>3. ASSUME NEW q \in Proc, pc'[q] = "commit" PROVE HasBasis' \/ lapsed'
    <3>1. pc[q] = "commit" /\ (HasBasis \/ lapsed)
      BY <1>16, <2>3 DEF Abort, InFlight
    <3> QED BY <1>16, <2>3, <3>1 DEF Abort, Lapse, Activating
  <2>4. InFlight'
    BY <1>16, <2>3 DEF Abort, InFlight
  <2> QED BY <2>1, <2>2, <2>4
<1> QED
  BY <1>1, <1>2, <1>3, <1>4, <1>5, <1>6, <1>7, <1>8, <1>9, <1>10, <1>11, <1>12,
     <1>13, <1>14, <1>15, <1>16 DEF ProcNext

LEMMA NextIInv == IInv /\ [Next]_vars => IInv'
<1> SUFFICES ASSUME IInv, [Next]_vars PROVE IInv'
  OBVIOUS
<1> USE DEF IInv, userVars, vaultVars, vendorVars
<1>1. ASSUME NEW p \in Proc, ProcNext(p) PROVE IInv'
  BY <1>1, ProcIInv
<1>2. ASSUME NEW o \in Outcome, VendorDecides(o) PROVE IInv'
  BY <1>2, ControlStep DEF VendorDecides, TypeOK, InFlight, VerifiedIsApproved
<1>3. CASE RevokeIdentityVerification
  BY <1>3, VaultStep DEF RevokeIdentityVerification, TypeOK, Verification
<1>4. CASE Suspend \/ CloseAccount
  <2>1. TypeOK'
    BY <1>4 DEF Suspend, CloseAccount, Lapse, TypeOK, Status
  <2>2. ActiveHasBasis' /\ VerifiedIsApproved'
    BY <1>4 DEF Suspend, CloseAccount, ActiveHasBasis, VerifiedIsApproved
  <2>3. ASSUME NEW q \in Proc, pc'[q] = "commit" PROVE HasBasis' \/ lapsed'
    <3>1. pc[q] = "commit" /\ (HasBasis \/ lapsed)
      BY <1>4, <2>3 DEF Suspend, CloseAccount, InFlight
    <3> QED BY <1>4, <2>3, <3>1 DEF Suspend, CloseAccount, Lapse, Activating
  <2>4. InFlight'
    BY <1>4, <2>3 DEF Suspend, CloseAccount, InFlight, HasBasis
  <2> QED BY <2>1, <2>2, <2>4
<1>5. CASE SetInstructor(TRUE) \/ SetInstructor(FALSE)
  BY <1>5, ControlStep DEF SetInstructor, TypeOK, InFlight, VerifiedIsApproved
<1>6. CASE LinkPhoneIdentity
  BY <1>6 DEF LinkPhoneIdentity, TypeOK, ActiveHasBasis, VerifiedIsApproved,
              InFlight, HasBasis
<1>7. ASSUME NEW t \in Tier, TokenDies(t) PROVE IInv'
  BY <1>7, ControlStep DEF TokenDies, TypeOK, InFlight, VerifiedIsApproved
<1>8. CASE UNCHANGED vars
  BY <1>8 DEF vars, TypeOK, ActiveHasBasis, VerifiedIsApproved, InFlight, HasBasis
<1> QED BY <1>1, <1>2, <1>3, <1>4, <1>5, <1>6, <1>7, <1>8 DEF Next

\* The inductive invariant holds in every state the account and its requests
\* reach.
THEOREM Invariance == Spec => []IInv
<1> QED BY InitIInv, NextIInv, PTL DEF Spec

\* The triggers enforce_adult_activation and enforce_identity_downgrade keep an
\* active account on an adult basis but for the two ways that ActiveHasBasis
\* names.
THEOREM AdultsOnly == Spec => []ActiveHasBasis
<1>1. IInv => ActiveHasBasis
  BY DEF IInv
<1> QED BY Invariance, <1>1, PTL

\* Apply, mint and BecomeInstructor never give the verified tier or what it opens
\* to an account without an approved, over-18 result.
THEOREM EKYCIsEarned == Spec => []VerifiedIsApproved
<1>1. IInv => VerifiedIsApproved
  BY DEF IInv
<1> QED BY Invariance, <1>1, PTL
=============================================================================
