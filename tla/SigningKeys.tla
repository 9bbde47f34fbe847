----------------------------- MODULE SigningKeys -----------------------------
(***************************************************************************)
(* Which key signs and which keys are trusted: the operator's environment, *)
(* the start of the process and the key that Vault may rotate under it.    *)
(*                                                                         *)
(* A key stands for its pair, and a signature for the key that made it and *)
(* the key id that is stamped beside it: tokens, audit entries and consent *)
(* records are signed and verified alike.                                  *)
(***************************************************************************)
EXTENDS Naturals, Sequences, FiniteSetsExt

CONSTANTS
    KeyId,
    KeyPair,
    MaxListed,   \* bound: entries of LAPLAT_VERIFY_KEYS
    NoKey

ASSUME ListedAssumption == MaxListed \in Nat
ASSUME NoKeyAssumption == NoKey \notin KeyPair

VARIABLES
    env,         \* the environment of the running process, if one runs
    trust,       \* its verify set, a function on key ids
    vaultKey,    \* latest version of the key in Vault
    signed,      \* every signature that was made, by this process or one before
    meant        \* history: the keys an id was ever given, by listing or signing

signVars == <<env, trust, vaultKey, signed, meant>>

Binding == [kid : KeyId, key : KeyPair]
Listings == UNION {[1..n -> Binding] : n \in 0..MaxListed}
Environment ==
    [kid : KeyId, local : KeyPair \cup {NoKey}, vault : BOOLEAN, listed : Listings]

SigningTypeOK ==
    /\ env \in Environment \cup {NoKey}
    /\ DOMAIN trust \subseteq KeyId
    /\ \A k \in DOMAIN trust : trust[k] \in KeyPair
    /\ vaultKey \in KeyPair
    /\ signed \subseteq Binding
    /\ meant \subseteq Binding

SigningInit ==
    /\ env = NoKey
    /\ trust = [k \in {} |-> NoKey]
    /\ vaultKey \in KeyPair
    /\ signed = {}
    /\ meant = {}

-----------------------------------------------------------------------------
(* Start-up                                                                *)

\* The last entry of a key id stands.
parseVerifyKeys(listed) ==
    [k \in {listed[i].kid : i \in DOMAIN listed} |->
        listed[Max({i \in DOMAIN listed : listed[i].kid = k})].key]

\* keys with kid bound to key, unless it has a key already.
AddKey(keys, kid, key) ==
    [k \in DOMAIN keys \cup {kid} |-> IF k \in DOMAIN keys THEN keys[k] ELSE key]

\* config.Load wants a local key or a Vault ...
LoadSucceeds(e) == e.vault \/ e.local # NoKey

\* ... and registers the local key for its id, unless the id is listed.
Load(e) ==
    IF e.local = NoKey THEN parseVerifyKeys(e.listed)
    ELSE AddKey(parseVerifyKeys(e.listed), e.kid, e.local)

\* Mutant: the key of Vault is not fetched.
buildSigningLocal(e) == Load(e)

\* Vault's public key is fetched when the id has none yet.
buildSigning(e) == IF e.vault THEN AddKey(Load(e), e.kid, vaultKey) ELSE Load(e)

\* The key that signs for an environment now.
SigningKey(e) == IF e.vault THEN vaultKey ELSE e.local

\* What the environment says about key ids, in its lists and by what it signs with.
Meaning(e) ==
    {e.listed[i] : i \in DOMAIN e.listed}
    \cup {[kid |-> e.kid, key |-> k] : k \in {e.local, SigningKey(e)} \ {NoKey}}

\* The process starts; when Vault does not answer it does not.
Boot(e) ==
    /\ env = NoKey
    /\ LoadSucceeds(e)
    /\ env' = e
    /\ trust' = buildSigning(e)
    /\ meant' = meant \cup Meaning(e)
    /\ UNCHANGED <<vaultKey, signed>>

Stop ==
    /\ env # NoKey
    /\ env' = NoKey
    /\ trust' = [k \in {} |-> NoKey]
    /\ UNCHANGED <<vaultKey, signed, meant>>

-----------------------------------------------------------------------------
(* Signing                                                                 *)

\* Vault's key gets a new version, under the same name and for the same id.
RotateVault(k) ==
    /\ vaultKey' = k
    /\ meant' = IF env # NoKey /\ env.vault
                THEN meant \cup {[kid |-> env.kid, key |-> k]} ELSE meant
    /\ UNCHANGED <<env, trust, signed>>

\* Sign: the local key, or Vault with its latest version.
Sign ==
    /\ env # NoKey
    /\ signed' = signed \cup {[kid |-> env.kid, key |-> SigningKey(env)]}
    /\ UNCHANGED <<env, trust, vaultKey, meant>>

SigningNext ==
    \/ \E e \in Environment : Boot(e)
    \/ \E k \in KeyPair : RotateVault(k)
    \/ Stop \/ Sign

SigningSpec == SigningInit /\ [][SigningNext]_signVars

-----------------------------------------------------------------------------
(* Properties                                                              *)

\* Verifier.Verify and VerifyEntry look the key up by the id of the signature.
Verifies(s) == s.kid \in DOMAIN trust /\ trust[s.kid] = s.key

OneKeyPerId == \A x, y \in meant : x.kid = y.kid => x.key = y.key

\* As long as no key id was ever given two keys, by a listing, by a local key left
\* beside Vault or by a rotation in Vault, the process verifies what it signs and
\* every older signature whose id it trusts, across restarts with another
\* environment (config.Load, buildSigning, SignRaw).
SignaturesVerify ==
    env # NoKey /\ OneKeyPerId =>
        /\ env.kid \in DOMAIN trust
        /\ \A s \in signed : s.kid \in DOMAIN trust => Verifies(s)
=============================================================================
