-------------------------- MODULE Federation_proofs --------------------------
(***************************************************************************)
(* Proofs about what stands around the service, for any number of          *)
(* browsers, providers, logins, keys, clients and callers: federated       *)
(* logins, the cache of a provider's keys, the service's own keys and the  *)
(* rate limiter.                                                           *)
(***************************************************************************)
EXTENDS MCFederation, FiniteSetTheorems, TLAPS

-----------------------------------------------------------------------------
(* Federation                                                              *)
(*                                                                         *)
(* What ties a callback to the redirect before it is that every cookie and *)
(* every code of the provider names a login, and a login has one browser   *)
(* and one provider for ever: attempt is written once.                     *)

\* Login l was started in browser b.
StartedIn(l, b) == attempt[l] # NULL /\ attempt[l].browser = b

\* Cookies and codes name logins that were started, in that browser and with that
\* provider; the state of an answered login is in no cookie any more.
CookiesInv ==
    /\ \A b \in Browser :
         /\ cState[b] # NULL => StartedIn(cState[b], b)
         /\ cSecret[b] # NULL => StartedIn(cSecret[b], b)
    /\ \A c \in codes : attempt[c.login] # NULL /\ attempt[c.login].provider = c.provider
    /\ \A x \in answered : attempt[x[2]] # NULL /\ cState[x[1]] # x[2]

\* What a callback has read, and what each of its checks has shown.
CallbackInv ==
    \A r \in Request :
        /\ pc[r] # "idle" =>
             /\ hCode[r] \in codes
             /\ StartedIn(hState[r], hBrowser[r])
             /\ StartedIn(hSecret[r], hBrowser[r])
        /\ pc[r] \in {"verify", "userinfo", "issue"} => hCode[r].provider = hProvider[r]
        /\ pc[r] \in {"userinfo", "issue"} => hCode[r].login = hSecret[r]

FedInv == FedTypeOK /\ CookiesInv /\ CallbackInv /\ CallbackBinds

LEMMA FedInitInv == FedInit => FedInv
BY FedNullAssumption
DEF FedInit, FedInv, FedTypeOK, CookiesInv, CallbackInv, CallbackBinds,
    SessionMatchesLogin, OnlyOwnRedirect

\* A request between its arrival and its answer holds nothing that is missing.
LEMMA FedHolds ==
    ASSUME FedTypeOK, NEW r \in Request, pc[r] # "idle"
    PROVE  /\ hBrowser[r] \in Browser /\ hProvider[r] \in Provider /\ hCode[r] \in Code
           /\ hState[r] \in Login /\ hSecret[r] \in Login
BY DEF FedTypeOK

\* A step that only moves one request on, within what its checks have shown.
LEMMA MoveStep ==
    ASSUME FedInv, NEW r \in Request, pc[r] # "idle",
           NEW s \in {"verify", "userinfo", "issue", "refuse"},
           s \in {"verify", "userinfo", "issue"} => hCode[r].provider = hProvider[r],
           s \in {"userinfo", "issue"} => hCode[r].login = hSecret[r],
           pc' = [pc EXCEPT ![r] = s],
           spent \subseteq spent', spent' \subseteq codes,
           redeemed' \subseteq redeemed \cup {<<hBrowser[r], hState[r]>>},
           UNCHANGED <<connectors, cookieVars, codes, attempt, answered, sessions, localVars>>
    PROVE  FedInv'
<1> USE DEF cookieVars, localVars
<1>1. hBrowser[r] \in Browser /\ hState[r] \in Login
  BY FedHolds DEF FedInv
<1>2. FedTypeOK'
  BY <1>1 DEF FedInv, FedTypeOK
<1>3. CookiesInv'
  BY DEF FedInv, CookiesInv, StartedIn
<1>4. CallbackInv'
  BY DEF FedInv, FedTypeOK, CallbackInv, StartedIn
<1>5. SessionMatchesLogin'
  BY DEF FedInv, CallbackBinds, SessionMatchesLogin
<1>6. OnlyOwnRedirect'
  BY DEF FedInv, CallbackBinds, OnlyOwnRedirect, CallbackInv, StartedIn
<1> QED BY <1>2, <1>3, <1>4, <1>5, <1>6 DEF FedInv, CallbackBinds

\* Every step, one case per action, keeps the invariant.
LEMMA FedNextInv == FedInv /\ [FedNext]_fedVars => FedInv'
<1> SUFFICES ASSUME FedInv, [FedNext]_fedVars PROVE FedInv'
  OBVIOUS
<1> USE FedNullAssumption, ProviderAssumption
    DEF cookieVars, providerVars, historyVars, localVars
<1>1. ASSUME NEW C \in SUBSET Provider, BuildFederation(C) PROVE FedInv'
  BY <1>1 DEF BuildFederation, FedInv, FedTypeOK, CookiesInv, StartedIn, CallbackInv, CallbackBinds,
     SessionMatchesLogin, OnlyOwnRedirect
<1>2. ASSUME NEW b \in Browser, NEW p \in Provider, NEW l \in Login, Start(b, p, l)
      PROVE FedInv'
  <2> DEFINE a == [browser |-> b, provider |-> p]
  <2>1. /\ attempt[l] = NULL
        /\ attempt' = [attempt EXCEPT ![l] = a]
        /\ cState' = [cState EXCEPT ![b] = l]
        /\ cSecret' = [cSecret EXCEPT ![b] = l]
        /\ UNCHANGED <<connectors, codes, spent, answered, redeemed, sessions, pc, localVars>>
    BY <1>2 DEF Start
  <2>2. a \in [browser : Browser, provider : Provider] /\ a.browser = b
    OBVIOUS
  <2>3. FedTypeOK'
    BY <2>1, <2>2 DEF FedInv, FedTypeOK
  <2>4. a # NULL
    BY <2>2
  <2>5. \A k \in Login : attempt[k] # NULL => k # l /\ attempt'[k] = attempt[k]
    BY <2>1 DEF FedInv, FedTypeOK
  <2>6. attempt'[l] = a
    BY <2>1 DEF FedInv, FedTypeOK
  <2>7. CookiesInv'
    <3>1. \A k \in Login, x \in Browser : StartedIn(k, x) => StartedIn(k, x)'
      BY <2>5 DEF StartedIn
    <3>2. StartedIn(l, b)'
      BY <2>2, <2>4, <2>6 DEF StartedIn
    <3>3. \A x \in Browser :
            /\ cState'[x] # NULL => StartedIn(cState[x], x)' 
            /\ cSecret'[x] # NULL => StartedIn(cSecret[x], x)'
      <4> SUFFICES ASSUME NEW x \in Browser
                   PROVE /\ cState'[x] # NULL => StartedIn(cState[x], x)'
                         /\ cSecret'[x] # NULL => StartedIn(cSecret[x], x)'
        OBVIOUS
      <4>1. CASE x = b
        BY <2>1, <3>2, <4>1 DEF FedInv, FedTypeOK
      <4>2. CASE x # b
        BY <2>1, <3>1, <4>2 DEF FedInv, FedTypeOK, CookiesInv, StartedIn
      <4> QED BY <4>1, <4>2
    <3>4. \A c \in codes : c.login \in Login
      BY DEF FedInv, FedTypeOK, Code
    <3>5. \A x \in answered : x[1] \in Browser /\ x[2] \in Login
      BY DEF FedInv, FedTypeOK
    <3> QED BY <2>1, <2>5, <3>3, <3>4, <3>5 DEF FedInv, FedTypeOK, CookiesInv
  <2>8. CallbackInv'
    <3> SUFFICES ASSUME NEW r \in Request PROVE CallbackInv!(r)'
      BY DEF CallbackInv
    <3>1. pc[r] # "idle" => hState[r] \in Login /\ hSecret[r] \in Login
      BY FedHolds DEF FedInv
    <3> QED BY <2>1, <2>5, <3>1 DEF FedInv, CallbackInv, StartedIn
  <2>9. CallbackBinds'
    <3>1. \A c \in codes : c.login \in Login
      BY DEF FedInv, FedTypeOK, Code
    <3>2. \A x \in redeemed : x[2] \in Login
      BY DEF FedInv, FedTypeOK
    <3>3. SessionMatchesLogin'
      <4> SUFFICES ASSUME NEW s \in sessions
                   PROVE \E c \in codes :
                            /\ c.provider = s.provider
                            /\ c.account = s.account
                            /\ attempt'[c.login] = [browser |-> s.browser, provider |-> s.provider]
        BY <2>1 DEF SessionMatchesLogin
      <4>1. PICK c \in codes :
               /\ c.provider = s.provider
               /\ c.account = s.account
               /\ attempt[c.login] = [browser |-> s.browser, provider |-> s.provider]
        BY DEF FedInv, CallbackBinds, SessionMatchesLogin
      <4>2. attempt'[c.login] = attempt[c.login]
        BY <2>5, <3>1 DEF FedInv, CookiesInv
      <4> QED BY <4>1, <4>2
    <3>4. OnlyOwnRedirect'
      BY <2>1, <2>5, <3>2 DEF FedInv, CallbackBinds, OnlyOwnRedirect
    <3> QED BY <3>3, <3>4 DEF CallbackBinds
  <2> QED BY <2>3, <2>7, <2>8, <2>9 DEF FedInv
<1>3. ASSUME NEW b \in Browser, LoseCookie(b) PROVE FedInv'
  <2> USE DEF LoseCookie
  <2>1. FedTypeOK'
    BY <1>3 DEF FedInv, FedTypeOK
  <2>2. CookiesInv'
    <3>1. \A x \in answered : x[1] \in Browser /\ x[2] \in Login
      BY DEF FedInv, FedTypeOK
    <3> QED BY <1>3, <3>1 DEF FedInv, FedTypeOK, CookiesInv, StartedIn
  <2>3. CallbackInv' /\ CallbackBinds'
    BY <1>3 DEF FedInv, CallbackInv, StartedIn, CallbackBinds, SessionMatchesLogin,
                OnlyOwnRedirect
  <2> QED BY <2>1, <2>2, <2>3 DEF FedInv
<1>4. ASSUME NEW l \in Login, NEW x \in Account, Approve(l, x) PROVE FedInv'
  <2> DEFINE c == [provider |-> attempt[l].provider, login |-> l, account |-> x]
  <2>1. /\ attempt[l] # NULL
        /\ codes' = codes \cup {c}
        /\ UNCHANGED <<connectors, cState, cSecret, spent, attempt, answered, redeemed,
                       sessions, pc, localVars>>
    BY <1>4 DEF Approve
  <2>2. attempt[l].provider \in Provider
    BY <2>1 DEF FedInv, FedTypeOK
  <2>3. c \in Code
    BY <2>2 DEF Code
  <2> HIDE DEF c
  <2>4. FedTypeOK'
    BY <2>1, <2>3 DEF FedInv, FedTypeOK
  <2>5. c.login = l /\ c.provider = attempt[l].provider
    BY DEF c
  <2>6. CookiesInv'
    BY <2>1, <2>5 DEF FedInv, CookiesInv, StartedIn
  <2>7. CallbackInv' /\ CallbackBinds'
    BY <2>1 DEF FedInv, CallbackInv, StartedIn, CallbackBinds, SessionMatchesLogin,
                OnlyOwnRedirect
  <2> QED BY <2>4, <2>6, <2>7 DEF FedInv
<1>5. ASSUME NEW r \in Request, NEW b \in Browser, NEW p \in Provider, NEW c \in codes,
             NEW s \in Login, Callback(r, b, p, c, s)
      PROVE FedInv'
  <2> USE DEF Callback, StateMatches, Complete
  <2>1. c \in Code /\ c # NULL
    BY DEF FedInv, FedTypeOK, Code
  <2>2. cState[b] = s /\ cSecret[b] # NULL /\ cSecret[b] \in Login
    BY <1>5 DEF FedInv, FedTypeOK
  <2>3. FedTypeOK'
    BY <1>5, <2>1, <2>2 DEF FedInv, FedTypeOK
  <2>4. CookiesInv'
    BY <1>5 DEF FedInv, CookiesInv, StartedIn
  <2>5. CallbackInv'
    <3>1. StartedIn(s, b) /\ StartedIn(cSecret[b], b)
      BY <2>2 DEF FedInv, CookiesInv
    <3> QED BY <1>5, <3>1 DEF FedInv, FedTypeOK, CallbackInv, StartedIn
  <2>6. CallbackBinds'
    BY <1>5 DEF FedInv, CallbackBinds, SessionMatchesLogin, OnlyOwnRedirect
  <2> QED BY <2>3, <2>4, <2>5, <2>6 DEF FedInv
<1>6. ASSUME NEW r \in Request, OIDCExchange(r) PROVE FedInv'
  BY <1>6, MoveStep DEF OIDCExchange, Redeem, ProviderAccepts, FedInv, FedTypeOK, CallbackInv
<1>7. ASSUME NEW r \in Request, PKCEExchange(r) PROVE FedInv'
  BY <1>7, MoveStep DEF PKCEExchange, Redeem, ProviderAccepts, FedInv, FedTypeOK, CallbackInv
<1>8. ASSUME NEW r \in Request, ExchangeFails(r) PROVE FedInv'
  BY <1>8, MoveStep DEF ExchangeFails, FedInv, FedTypeOK
<1>9. ASSUME NEW r \in Request, Verify(r) PROVE FedInv'
  BY <1>9, MoveStep DEF Verify, NonceMatches, FedInv, FedTypeOK, CallbackInv
<1>10. ASSUME NEW r \in Request, UserInfo(r) PROVE FedInv'
  BY <1>10, MoveStep DEF UserInfo, FedInv, FedTypeOK, CallbackInv
<1>11. ASSUME NEW r \in Request, Respond(r) PROVE FedInv'
  <2> USE DEF Respond, ClearCookies, FedReturn
  <2>1. pc[r] # "idle"
    BY <1>11
  <2>2. /\ hBrowser[r] \in Browser /\ hProvider[r] \in Provider /\ hCode[r] \in Code
        /\ hState[r] \in Login
    BY <2>1, FedHolds DEF FedInv
  <2>3. SessionOf(r) \in [browser : Browser, provider : Provider, account : Account]
    BY <2>2 DEF SessionOf, Code
  <2>4. FedTypeOK'
    BY <1>11, <2>2, <2>3 DEF FedInv, FedTypeOK
  <2>5. CookiesInv'
    <3>1. \A x \in answered : x[1] \in Browser /\ x[2] \in Login
      BY DEF FedInv, FedTypeOK
    <3>2. attempt[hState[r]] # NULL
      BY <2>1 DEF FedInv, CallbackInv, StartedIn
    <3>3. \A x \in answered' : attempt'[x[2]] # NULL /\ cState'[x[1]] # x[2]
      BY <1>11, <2>2, <3>1, <3>2 DEF FedInv, FedTypeOK, CookiesInv
    <3>4. \A b \in Browser :
            /\ cState'[b] # NULL => StartedIn(cState[b], b)'
            /\ cSecret'[b] # NULL => StartedIn(cSecret[b], b)'
      BY <1>11, <2>2 DEF FedInv, FedTypeOK, CookiesInv, StartedIn
    <3>5. \A c \in codes' : attempt'[c.login] # NULL /\ attempt'[c.login].provider = c.provider
      BY <1>11 DEF FedInv, CookiesInv
    <3> QED BY <3>3, <3>4, <3>5 DEF CookiesInv
  <2>6. CallbackInv'
    BY <1>11 DEF FedInv, FedTypeOK, CallbackInv, StartedIn
  <2>7. SessionMatchesLogin'
    <3> SUFFICES ASSUME NEW s \in sessions' PROVE SessionMatchesLogin!(s)'
      BY DEF SessionMatchesLogin
    <3>1. codes' = codes /\ attempt' = attempt
      BY <1>11
    <3>2. CASE s \in sessions
      BY <3>1, <3>2 DEF FedInv, CallbackBinds, SessionMatchesLogin
    <3>3. CASE s \notin sessions
      <4>1. s = SessionOf(r) /\ pc[r] = "issue"
        BY <1>11, <3>3
      <4>2. /\ hCode[r] \in codes
            /\ hCode[r].provider = hProvider[r]
            /\ hCode[r].login = hSecret[r]
            /\ StartedIn(hSecret[r], hBrowser[r])
        BY <4>1 DEF FedInv, CallbackInv
      <4>3. hSecret[r] \in Login
        BY <2>1, FedHolds DEF FedInv
      <4>4. attempt[hSecret[r]] \in [browser : Browser, provider : Provider]
        BY <4>2, <4>3 DEF StartedIn, FedInv, FedTypeOK
      <4>5. attempt[hSecret[r]].provider = hProvider[r] /\ attempt[hSecret[r]].browser = hBrowser[r]
        BY <4>2 DEF FedInv, CookiesInv, StartedIn
      <4>6. attempt[hSecret[r]] = [browser |-> hBrowser[r], provider |-> hProvider[r]]
        BY <4>4, <4>5
      <4> QED BY <3>1, <4>1, <4>2, <4>6 DEF SessionOf
    <3> QED BY <3>2, <3>3
  <2>8. OnlyOwnRedirect'
    BY <1>11 DEF FedInv, CallbackBinds, OnlyOwnRedirect
  <2> QED BY <2>4, <2>5, <2>6, <2>7, <2>8 DEF FedInv, CallbackBinds
<1>12. ASSUME NEW r \in Request, LoseAnswer(r) PROVE FedInv'
  <2> USE DEF LoseAnswer, FedReturn
  <2>1. FedTypeOK'
    BY <1>12 DEF FedInv, FedTypeOK
  <2>2. CookiesInv' /\ CallbackBinds'
    BY <1>12 DEF FedInv, CookiesInv, StartedIn, CallbackBinds, SessionMatchesLogin, OnlyOwnRedirect
  <2>3. CallbackInv'
    BY <1>12 DEF FedInv, FedTypeOK, CallbackInv, StartedIn
  <2> QED BY <2>1, <2>2, <2>3 DEF FedInv
<1>13. CASE UNCHANGED fedVars
  BY <1>13 DEF fedVars, FedInv, FedTypeOK, CookiesInv, StartedIn, CallbackInv, CallbackBinds,
     SessionMatchesLogin, OnlyOwnRedirect
<1> QED
  BY <1>1, <1>2, <1>3, <1>4, <1>5, <1>6, <1>7, <1>8, <1>9, <1>10, <1>11, <1>12, <1>13
  DEF FedNext

\* The invariant of federated logins holds in every behaviour.
THEOREM FedInvariance == FedSpec => []FedInv
BY FedInitInv, FedNextInv, PTL DEF FedSpec

\* A session in a browser is for an account approved in a login that this browser
\* started with that provider, and no code is redeemed for a redirect the browser did
\* not ask for: nonce, PKCE and the state cookie suffice, whatever is mixed up.
THEOREM CallbacksBind == FedSpec => []CallbackBinds
<1>1. FedInv => CallbackBinds
  BY DEF FedInv
<1> QED BY FedInvariance, <1>1, PTL

\* A callback that was answered is not taken again from that browser: its state has
\* left the cookie and no later redirect brings it back.
THEOREM CookiesAreOneShot == FedSpec => OneShot
<1>1. ASSUME FedInv, [FedNext]_fedVars
      PROVE [\A r \in Request : pc[r] = "idle" /\ pc'[r] # "idle"
               => <<hBrowser'[r], hState'[r]>> \notin answered]_fedVars
  <2> SUFFICES ASSUME FedNext, NEW r \in Request, pc[r] = "idle", pc'[r] # "idle"
               PROVE  <<hBrowser'[r], hState'[r]>> \notin answered
    BY <1>1 DEF fedVars
  <2>1. PICK b \in Browser, p \in Provider, c \in codes, s \in Login : Callback(r, b, p, c, s)
    BY <1>1 DEF FedNext, BuildFederation, Start, LoseCookie, Approve, Callback, OIDCExchange,
       PKCEExchange, Redeem, ExchangeFails, Verify, UserInfo, Respond, LoseAnswer, FedReturn,
       FedInv, FedTypeOK
  <2>2. hBrowser'[r] = b /\ hState'[r] = s /\ cState[b] = s
    BY <1>1, <2>1 DEF Callback, StateMatches, FedInv, FedTypeOK
  <2> QED BY <1>1, <2>2 DEF FedInv, CookiesInv
<1> QED BY FedInvariance, <1>1, PTL DEF FedSpec, OneShot

-----------------------------------------------------------------------------
(* KeyCache                                                                *)
(*                                                                         *)
(* All three bounds rest on the lower and the upper clamp of cacheTTL: the *)
(* cache stays fresh for at least minJWKSTTL after a fetch, and for        *)
(* maxJWKSTTL at most; before the first fetch it is not fresh.             *)

KeyInv ==
    /\ KeyTypeOK
    /\ ttl >= minJWKSTTL \/ (ttl = 0 /\ sinceFetch = LongAgo)
    /\ CacheBounds

\* Whatever Cache-Control says, the time to live is within the clamps.
LEMMA Clamped ==
    ASSUME NEW age \in Nat
    PROVE  cacheTTL(age) \in minJWKSTTL..maxJWKSTTL
BY TTLAssumption DEF cacheTTL

\* What a lookup writes down is a lookup.
LEMMA AnswerIsLookup ==
    ASSUME KeyTypeOK, NEW k \in Kid, NEW found \in BOOLEAN, NEW origin \in Origin,
           Answer(k, found, origin)
    PROVE  last' \subseteq Lookup
<1>1. sinceFetch \in Nat
  BY TTLAssumption DEF KeyTypeOK
<1> QED BY <1>1 DEF Answer, Lookup

LEMMA KeyInitInv == KeyInit => KeyInv
BY TTLAssumption
DEF KeyInit, KeyInv, KeyTypeOK, CacheBounds, FetchesApart, RetiredKeyFades, RotationHeals

\* Every step, one case per way a lookup may go, keeps the invariant.
LEMMA KeyNextInv == KeyInv /\ [KeyNext]_keyVars => KeyInv'
<1> SUFFICES ASSUME KeyInv, [KeyNext]_keyVars PROVE KeyInv'
  OBVIOUS
<1> USE TTLAssumption
<1>a. sinceFetch \in Nat /\ ttl \in Nat
  BY DEF KeyInv, KeyTypeOK
<1>1. CASE Tick
  BY <1>1, <1>a DEF Tick, KeyInv, KeyTypeOK, CacheBounds, FetchesApart, RetiredKeyFades, RotationHeals
<1>2. CASE Rotate
  BY <1>2 DEF Rotate, KeyInv, KeyTypeOK, CacheBounds, FetchesApart, RetiredKeyFades, RotationHeals
<1>3. ASSUME NEW k \in Kid, FromCache(k) PROVE KeyInv'
  <2>1. last' \subseteq Lookup
    BY <1>3, AnswerIsLookup DEF FromCache, KeyInv, Origin
  <2>2. sinceFetch < maxJWKSTTL
    BY <1>3, <1>a DEF FromCache, Fresh, KeyInv, KeyTypeOK
  <2>3. CacheBounds'
    BY <1>3, <1>a, <2>2 DEF FromCache, Answer, CacheBounds, FetchesApart, RetiredKeyFades, RotationHeals
  <2> QED BY <1>3, <2>1, <2>3 DEF FromCache, KeyInv, KeyTypeOK
<1>4. ASSUME NEW k \in Kid, HeldBack(k) PROVE KeyInv'
  <2>1. last' \subseteq Lookup
    BY <1>4, AnswerIsLookup DEF HeldBack, KeyInv, Origin
  <2>2. sinceFetch < minRefresh
    BY <1>4, <1>a DEF HeldBack, MustFetch
  <2>3. CacheBounds'
    BY <1>4, <1>a, <2>2 DEF HeldBack, Answer, CacheBounds, FetchesApart, RetiredKeyFades, RotationHeals
  <2> QED BY <1>4, <2>1, <2>3 DEF HeldBack, KeyInv, KeyTypeOK
<1>5. ASSUME NEW k \in Kid, RefetchFails(k) PROVE KeyInv'
  <2>1. last' \subseteq Lookup
    <3>1. (k \in keys) \in BOOLEAN /\ "down" \in Origin
      BY DEF Origin
    <3>2. Answer(k, k \in keys, "down")
      BY <1>5 DEF RefetchFails
    <3> QED BY <3>1, <3>2, AnswerIsLookup DEF KeyInv
  <2>2. CacheBounds'
    BY <1>5 DEF RefetchFails, Answer, CacheBounds, FetchesApart, RetiredKeyFades, RotationHeals
  <2> QED BY <1>5, <2>1, <2>2 DEF RefetchFails, KeyInv, KeyTypeOK
<1>6. ASSUME NEW k \in Kid, NEW age \in MaxAge, Refetch(k, age) PROVE KeyInv'
  <2>1. last' \subseteq Lookup
    <3>1. (k \in published) \in BOOLEAN /\ "provider" \in Origin
      BY DEF Origin
    <3>2. Answer(k, k \in published, "provider")
      BY <1>6 DEF Refetch
    <3> QED BY <3>1, <3>2, AnswerIsLookup DEF KeyInv
  <2>2. sinceFetch >= minRefresh
    BY <1>6, <1>a DEF Refetch, MustFetch, Fresh, KeyInv
  <2>3. CacheBounds'
    BY <1>6, <1>a, <2>2 DEF Refetch, Answer, CacheBounds, FetchesApart, RetiredKeyFades, RotationHeals
  <2>4. ttl' \in minJWKSTTL..maxJWKSTTL
    BY <1>6, MaxAgeAssumption, Clamped DEF Refetch
  <2> QED BY <1>6, <2>1, <2>3, <2>4 DEF Refetch, KeyInv, KeyTypeOK
<1>7. CASE UNCHANGED keyVars
  BY <1>7 DEF keyVars, KeyInv, KeyTypeOK, CacheBounds, FetchesApart, RetiredKeyFades, RotationHeals
<1> QED BY <1>1, <1>2, <1>3, <1>4, <1>5, <1>6, <1>7 DEF KeyNext, VerificationKey

THEOREM KeyInvariance == KeySpec => []KeyInv
BY KeyInitInv, KeyNextInv, PTL DEF KeySpec

\* However the provider rotates its keys, answers or fails to, and whatever max-age it
\* sends: successful fetches are minRefresh apart, a withdrawn key is accepted for less
\* than maxJWKSTTL and a new one refused for less than minRefresh while it answers.
THEOREM CacheIsBounded == KeySpec => []CacheBounds
<1>1. KeyInv => CacheBounds
  BY DEF KeyInv
<1> QED BY KeyInvariance, <1>1, PTL

-----------------------------------------------------------------------------
(* SigningKeys                                                             *)
(*                                                                         *)
(* Everything that is signed or trusted was meant: a signature carries the *)
(* id and the key its environment gave it, and every entry of the verify   *)
(* set comes from the list, the local key or Vault.  Where no id was given *)
(* two keys, the two sides must then agree.                                *)

\* A set of numbers up to n has a greatest one: below n, reflected, there is a least.
LEMMA MaxOfSome ==
    ASSUME NEW n \in Nat, NEW S \in SUBSET (1..n), S # {}
    PROVE  Max(S) \in S
<1> DEFINE T == {j \in 0..n : n - j \in S}
<1>1. T \subseteq Nat /\ T # {}
  <2>1. PICK i \in S : TRUE
    OBVIOUS
  <2>2. n - i \in T
    OBVIOUS
  <2>3. T \subseteq Nat
    OBVIOUS
  <2> HIDE DEF T
  <2> QED BY <2>2, <2>3
<1>2. PICK j \in T : \A k \in T : ~(<<k, j>> \in OpToRel(<, Nat))
  BY <1>1, NatLessThanWellFounded, WFMin
<1>3. \A k \in T : k >= j
  <2>1. OpToRel(<, Nat) = {p \in Nat \X Nat : p[1] < p[2]}
    BY DEF OpToRel
  <2> SUFFICES ASSUME NEW k \in T, k < j PROVE FALSE
    OBVIOUS
  <2>2. <<k, j>> \in {p \in Nat \X Nat : p[1] < p[2]}
    OBVIOUS
  <2>3. <<k, j>> \in OpToRel(<, Nat)
    BY <2>1, <2>2
  <2> QED BY <1>2, <2>3
<1>4. \A i \in S : n - j >= i
  <2> SUFFICES ASSUME NEW i \in S PROVE n - j >= i
    OBVIOUS
  <2>1. n - i \in T
    OBVIOUS
  <2>2. n - i >= j
    BY <1>3, <2>1
  <2> QED BY <2>2, <1>1
<1>5. \E x \in S : \A y \in S : x >= y
  BY <1>4
<1> QED BY <1>5 DEF Max

\* Signatures and the verify set say nothing that was not meant, and a running process
\* trusts some key under the id it signs with.
SigningInv ==
    /\ SigningTypeOK
    /\ signed \subseteq meant
    /\ \A k \in DOMAIN trust : [kid |-> k, key |-> trust[k]] \in meant
    /\ env # NoKey =>
         /\ env \in Environment
         /\ SigningKey(env) \in KeyPair
         /\ [kid |-> env.kid, key |-> SigningKey(env)] \in meant
         /\ env.kid \in DOMAIN trust

LEMMA SigningInitInv == SigningInit => SigningInv
BY DEF SigningInit, SigningInv, SigningTypeOK

\* A verify set with one key added: what it says, it said before or was told.
LEMMA AddKeySays ==
    ASSUME NEW M, NEW keys0, NEW kid, NEW key,
           \A k \in DOMAIN keys0 : [kid |-> k, key |-> keys0[k]] \in M,
           kid \notin DOMAIN keys0 => [kid |-> kid, key |-> key] \in M
    PROVE  /\ kid \in DOMAIN AddKey(keys0, kid, key)
           /\ \A k \in DOMAIN AddKey(keys0, kid, key) :
                [kid |-> k, key |-> AddKey(keys0, kid, key)[k]] \in M
BY DEF AddKey

\* The list of verify keys binds an id to a key that is listed for it.
LEMMA ListSays ==
    ASSUME NEW e \in Environment, NEW k \in DOMAIN parseVerifyKeys(e.listed)
    PROVE  [kid |-> k, key |-> parseVerifyKeys(e.listed)[k]] \in Meaning(e)
<1> DEFINE listed == e.listed
           at == {i \in DOMAIN listed : listed[i].kid = k}
<1>1. PICK n \in 0..MaxListed : listed \in [1..n -> Binding]
  BY DEF Environment, Listings
<1>2. at \in SUBSET (1..n) /\ at # {}
  BY <1>1 DEF parseVerifyKeys
<1>3. Max(at) \in at
  <2>1. n \in Nat
    BY <1>1, ListedAssumption
  <2> HIDE DEF at
  <2> QED BY <2>1, <1>2, MaxOfSome
<1>4. parseVerifyKeys(listed)[k] = listed[Max(at)].key
  BY DEF parseVerifyKeys
<1>5. listed[Max(at)] \in Binding /\ listed[Max(at)].kid = k
  BY <1>1, <1>3
<1>6. listed[Max(at)] = [kid |-> k, key |-> listed[Max(at)].key]
  BY <1>5 DEF Binding
<1>7. listed[Max(at)] \in Meaning(e)
  BY <1>3 DEF Meaning
<1> QED BY <1>4, <1>6, <1>7

\* The verify set of a process that starts says only what its environment means, and
\* has the id it signs with.
LEMMA BuildSays ==
    ASSUME NEW e \in Environment, LoadSucceeds(e), vaultKey \in KeyPair
    PROVE  /\ e.kid \in DOMAIN buildSigning(e)
           /\ \A k \in DOMAIN buildSigning(e) :
                [kid |-> k, key |-> buildSigning(e)[k]] \in Meaning(e)
<1> USE NoKeyAssumption
<1>1. \A k \in DOMAIN parseVerifyKeys(e.listed) :
         [kid |-> k, key |-> parseVerifyKeys(e.listed)[k]] \in Meaning(e)
  BY ListSays
<1>2. e.local # NoKey => [kid |-> e.kid, key |-> e.local] \in Meaning(e)
  BY DEF Meaning
<1>3. e.vault => [kid |-> e.kid, key |-> vaultKey] \in Meaning(e)
  BY DEF Meaning, SigningKey
<1>4. /\ \A k \in DOMAIN Load(e) : [kid |-> k, key |-> Load(e)[k]] \in Meaning(e)
      /\ e.local # NoKey => e.kid \in DOMAIN Load(e)
  BY <1>1, <1>2, AddKeySays DEF Load
<1>5. CASE e.vault
  BY <1>3, <1>4, <1>5, AddKeySays DEF buildSigning
<1>6. CASE ~e.vault
  BY <1>4, <1>6 DEF buildSigning, LoadSucceeds
<1> QED BY <1>5, <1>6

\* What an environment means are bindings of ids to keys.
LEMMA MeaningType ==
    ASSUME NEW e \in Environment, LoadSucceeds(e), vaultKey \in KeyPair
    PROVE  /\ Meaning(e) \subseteq Binding
           /\ SigningKey(e) \in KeyPair
           /\ [kid |-> e.kid, key |-> SigningKey(e)] \in Meaning(e)
<1> USE NoKeyAssumption
<1>1. e.kid \in KeyId /\ e.local \in KeyPair \cup {NoKey}
  BY DEF Environment
<1>2. SigningKey(e) \in KeyPair
  BY <1>1 DEF SigningKey, LoadSucceeds
<1>3. \A i \in DOMAIN e.listed : e.listed[i] \in Binding
  BY DEF Environment, Listings
<1> QED BY <1>1, <1>2, <1>3 DEF Meaning, Binding

\* Every step keeps the invariant.
LEMMA SigningNextInv == SigningInv /\ [SigningNext]_signVars => SigningInv'
<1> SUFFICES ASSUME SigningInv, [SigningNext]_signVars PROVE SigningInv'
  OBVIOUS
<1> USE NoKeyAssumption
<1>1. ASSUME NEW e \in Environment, Boot(e) PROVE SigningInv'
  <2>1. /\ Meaning(e) \subseteq Binding
        /\ SigningKey(e) \in KeyPair
        /\ [kid |-> e.kid, key |-> SigningKey(e)] \in Meaning(e)
    BY <1>1, MeaningType DEF Boot, SigningInv, SigningTypeOK
  <2>2. /\ e.kid \in DOMAIN trust'
        /\ \A k \in DOMAIN trust' : [kid |-> k, key |-> trust'[k]] \in Meaning(e)
    BY <1>1, BuildSays DEF Boot, SigningInv, SigningTypeOK
  <2>3. \A k \in DOMAIN trust' : k \in KeyId /\ trust'[k] \in KeyPair
    BY <2>1, <2>2 DEF Binding
  <2>4. SigningKey(env)' = SigningKey(e)
    BY <1>1 DEF Boot, SigningKey
  <2> QED BY <1>1, <2>1, <2>2, <2>3, <2>4 DEF Boot, SigningInv, SigningTypeOK
<1>2. ASSUME NEW k \in KeyPair, RotateVault(k) PROVE SigningInv'
  <2>1. env # NoKey => SigningKey(env)' = IF env.vault THEN k ELSE SigningKey(env)
    BY <1>2 DEF RotateVault, SigningKey
  <2>2. env # NoKey => env.kid \in KeyId
    BY DEF SigningInv, Environment
  <2> QED BY <1>2, <2>1, <2>2 DEF RotateVault, SigningInv, SigningTypeOK, Binding
<1>3. CASE Stop
  BY <1>3 DEF Stop, SigningInv, SigningTypeOK
<1>4. CASE Sign
  BY <1>4 DEF Sign, SigningInv, SigningTypeOK, SigningKey
<1>5. CASE UNCHANGED signVars
  BY <1>5 DEF signVars, SigningInv, SigningTypeOK, SigningKey
<1> QED BY <1>1, <1>2, <1>3, <1>4, <1>5 DEF SigningNext

THEOREM SigningInvariance == SigningSpec => []SigningInv
BY SigningInitInv, SigningNextInv, PTL DEF SigningSpec

\* As long as no id was ever given two keys, a process verifies what it signs and every
\* older signature whose id it trusts, through any number of restarts, lists of verify
\* keys and rotations in Vault.
THEOREM SignaturesStayGood == SigningSpec => []SignaturesVerify
<1>1. SigningInv => SignaturesVerify
  <2> SUFFICES ASSUME SigningInv, env # NoKey, OneKeyPerId,
                      NEW s \in signed, s.kid \in DOMAIN trust
               PROVE  trust[s.kid] = s.key
    BY DEF SignaturesVerify, Verifies, SigningInv
  <2>1. s \in meant /\ [kid |-> s.kid, key |-> trust[s.kid]] \in meant
    BY DEF SigningInv
  <2> QED BY <2>1 DEF OneKeyPerId
<1> QED BY SigningInvariance, <1>1, PTL

-----------------------------------------------------------------------------
(* RateLimit                                                               *)
(*                                                                         *)
(* Refilling a bucket for the time between two arrivals, forwards or back, *)
(* leaves tokens - Rate * last alone; the cap can only lower it, to what a *)
(* full bucket has at that time, and a request that is let through lowers  *)
(* it by Cost.  So what a key was let through with since any time t is     *)
(* paid for out of the full bucket of that time, by refill back to the     *)
(* time from which this bucket could be asked, and at the rate of Supply   *)
(* before that (Charged).  A bucket is swept only after its key was silent *)
(* for Silence, in which Supply brings the full bucket that replaces it    *)
(* (Idle).  Everything is counted Silence times over, to stay in integers. *)

Full == Burst * Cost

\* What time brings, and what requests cost.
Earned(ticks) == Rate * ticks
Price(n) == Cost * n

\* Silence times that many units; what the time since, or the time to, a bucket's
\* first moment is worth in such units.
Scaled(units) == Silence * units
Supplied(ticks) == Supply * ticks
Worth(ticks) == IF ticks >= 0 THEN Scaled(Earned(ticks)) ELSE Supplied(ticks)

\* The requests among A that read the clock at t or later.
Since(A, t) == {x \in A : x[1] >= t}

\* A bucket that cannot be asked for a time before first, with these tokens at time at,
\* has paid for the requests A.
Charged(A, tokens, at, first) ==
    \A t \in Time : Since(A, t) # {} =>
        Scaled(tokens + Price(Cardinality(Since(A, t)))) + Worth(t - first)
            <= Scaled(Full) + Worth(at - first)

\* At time now, what the requests A took has been supplied again, and the longest wait
\* for the lock is over besides.
Idle(A, now) ==
    \A t \in Time : Since(A, t) # {} =>
        Scaled(Price(Cardinality(Since(A, t)))) + Supplied(t) + Supplied(MaxWait)
            <= Supplied(now)

\* A request waits for the lock no longer than the bound.
ArrivalInv ==
    \A r \in Caller : arrived[r] # NoCall =>
        arrived[r].now <= clock /\ clock <= arrived[r].now + MaxWait

\* Nothing is let through in the future, and the numbers keep requests apart.
AdmitInv ==
    \A k \in ClientKey :
        /\ IsFiniteSet(admits[k])
        /\ newest[k] <= clock
        /\ \A x \in admits[k] : x[1] <= newest[k]
        /\ \A x \in admits[k] : x[2] < Cardinality(AdmittedAt(k, x[1]))

\* A bucket has paid for its key's requests; what it owes at most is the refill up to
\* the newest arrival of the key, which is not far ahead of the last one.  No request
\* still waiting, or to come, has read the clock before the bucket's first moment.
BucketInv ==
    \A k \in DOMAIN buckets :
        /\ buckets[k].last <= newest[k] /\ newest[k] <= buckets[k].last + MaxWait
        /\ buckets[k].tokens + Earned(newest[k]) >= Earned(buckets[k].last)
        /\ \E first \in Int :
              /\ first <= buckets[k].last /\ first + MaxWait <= clock
              /\ Charged(admits[k], buckets[k].tokens, buckets[k].last, first)

\* A key without a bucket has none because it was silent, or always was.
SweptInv == \A k \in ClientKey \ DOMAIN buckets : Idle(admits[k], clock)

RateInv == RateTypeOK /\ ArrivalInv /\ AdmitInv /\ BucketInv /\ SweptInv /\ WindowBound

LEMMA MinPair ==
    ASSUME NEW x \in Int, NEW y \in Int
    PROVE  Min({x, y}) = IF x <= y THEN x ELSE y
BY DEF Min

LEMMA MaxPair ==
    ASSUME NEW x \in Int, NEW y \in Int
    PROVE  Max({x, y}) = IF x >= y THEN x ELSE y
BY DEF Max

LEMMA EarnedInt == \A x \in Int : Earned(x) \in Int
BY RateAssumption DEF Earned

LEMMA PriceNat == \A n \in Nat : Price(n) \in Nat
BY RateAssumption DEF Price

\* Refilling is linear in time, and longer times refill more.
LEMMA EarnedLinear ==
    ASSUME NEW x \in Int, NEW y \in Int
    PROVE  /\ Earned(x - y) = Earned(x) - Earned(y)
           /\ Earned(x + y) = Earned(x) + Earned(y)
           /\ x <= y => Earned(x) <= Earned(y)
BY RateAssumption DEF Earned

\* So is what requests cost.
LEMMA PriceLinear ==
    ASSUME NEW m \in Nat, NEW n \in Nat
    PROVE  /\ Price(m + 1) = Price(m) + Cost
           /\ m <= n => Price(m) <= Price(n)
BY RateAssumption DEF Price

\* Buckets are kept for some time, in which Supply brings a refill and a full bucket.
LEMMA SupplySuffices ==
    /\ Silence \in Nat \ {0} /\ Supply \in Nat
    /\ Silence * Rate <= Supply /\ Burst * Cost <= Supply
<1>1. Silence \in Nat \ {0}
  BY RateAssumption, WaitsAreShort DEF Silence
<1>2. Rate * Silence \in Int /\ Burst * Cost \in Int /\ Rate * Silence = Silence * Rate
      /\ Rate * Silence >= 0
  BY <1>1, RateAssumption
<1>3. Supply = IF Rate * Silence >= Burst * Cost THEN Rate * Silence ELSE Burst * Cost
  BY <1>2, MaxPair DEF Supply
<1> QED BY <1>1, <1>2, <1>3

LEMMA ScaledLinear ==
    ASSUME NEW x \in Int, NEW y \in Int
    PROVE  /\ Scaled(x) \in Int
           /\ Scaled(x + y) = Scaled(x) + Scaled(y)
           /\ x <= y => Scaled(x) <= Scaled(y)
BY SupplySuffices DEF Scaled

LEMMA SuppliedLinear ==
    ASSUME NEW x \in Int, NEW y \in Int
    PROVE  /\ Supplied(x) \in Int
           /\ Supplied(x - y) = Supplied(x) - Supplied(y)
           /\ Supplied(x + y) = Supplied(x) + Supplied(y)
           /\ x <= y => Supplied(x) <= Supplied(y)
BY SupplySuffices DEF Supplied

\* A refill is supplied within its time.
LEMMA RefillIsSupplied ==
    ASSUME NEW x \in Nat
    PROVE  0 <= Scaled(Earned(x)) /\ Scaled(Earned(x)) <= Supplied(x)
<1>1. Scaled(Earned(x)) = (Silence * Rate) * x /\ (Silence * Rate) \in Nat
  BY SupplySuffices, RateAssumption DEF Scaled, Earned
<1>2. \A a, b \in Nat : a <= b => 0 <= a * x /\ a * x <= b * x
  OBVIOUS
<1> QED BY <1>1, <1>2, SupplySuffices DEF Supplied

\* Worth is in between: it never falls, and never rises faster than Supply; from the
\* first moment of a bucket on it is the refill.
LEMMA WorthRises ==
    ASSUME NEW x \in Int, NEW y \in Int
    PROVE  /\ Worth(x) \in Int
           /\ x <= y => Worth(x) <= Worth(y) /\ Worth(y) <= Worth(x) + Supplied(y - x)
           /\ x >= 0 /\ y >= 0 => Worth(y) = Worth(x) + Scaled(Earned(y - x))
<1>1. /\ Scaled(Earned(x)) \in Int /\ Scaled(Earned(y)) \in Int /\ Scaled(Earned(y - x)) \in Int
      /\ Scaled(Earned(y)) = Scaled(Earned(x)) + Scaled(Earned(y - x))
  <2>1. Earned(x) \in Int /\ Earned(y) \in Int /\ Earned(y - x) \in Int
        /\ Earned(y) = Earned(x) + Earned(y - x)
    BY RateAssumption DEF Earned
  <2> QED BY <2>1, ScaledLinear
<1>2. /\ Supplied(x) \in Int /\ Supplied(y) \in Int /\ Supplied(y - x) \in Int
      /\ Supplied(y - x) = Supplied(y) - Supplied(x)
  BY SuppliedLinear
<1>3. Supplied(0) = 0 /\ (x <= 0 => Supplied(x) <= 0) /\ (y <= 0 => Supplied(y) <= 0)
  BY SupplySuffices DEF Supplied
<1>4. /\ x >= 0 => 0 <= Scaled(Earned(x))
      /\ y >= 0 => 0 <= Scaled(Earned(y)) /\ Scaled(Earned(y)) <= Supplied(y)
      /\ y >= x => 0 <= Scaled(Earned(y - x)) /\ Scaled(Earned(y - x)) <= Supplied(y - x)
  BY RefillIsSupplied
<1>5. x <= y => Supplied(x) <= Supplied(y)
  BY SuppliedLinear
<1> QED BY <1>1, <1>2, <1>3, <1>4, <1>5 DEF Worth

\* A full bucket is enough for one request.
LEMMA FullSuffices == Full \in Nat /\ Cost \in Nat /\ Cost <= Full
BY RateAssumption DEF Full

LEMMA TimeIsInt == \A t \in Time : t \in Nat /\ t <= MaxTime
BY RateAssumption DEF Time

\* One more request among those since t.
LEMMA SinceAdd ==
    ASSUME NEW A \in SUBSET (Time \X Nat), IsFiniteSet(A), NEW now \in Time, NEW n \in Nat,
           <<now, n>> \notin A, NEW t \in Time
    PROVE  /\ IsFiniteSet(Since(A, t)) /\ Cardinality(Since(A, t)) \in Nat
           /\ t <= now => Cardinality(Since(A \cup {<<now, n>>}, t))
                             = Cardinality(Since(A, t)) + 1
           /\ ~(t <= now) => Since(A \cup {<<now, n>>}, t) = Since(A, t)
<1> DEFINE y == <<now, n>>
<1>1. y[1] = now
  OBVIOUS
<1> HIDE DEF y
<1>2. now \in Nat /\ t \in Nat
  BY TimeIsInt
<1>3. Since(A, t) \in SUBSET A
  BY DEF Since
<1>4. IsFiniteSet(Since(A, t)) /\ Cardinality(Since(A, t)) \in Nat
  BY <1>3, FS_Subset, FS_CardinalityType
<1>5. CASE t <= now
  <2>1. Since(A \cup {y}, t) = Since(A, t) \cup {y}
    BY <1>1, <1>2, <1>5 DEF Since
  <2>2. y \notin Since(A, t)
    BY DEF Since, y
  <2> QED BY <1>4, <1>5, <2>1, <2>2, FS_AddElement DEF y
<1>6. CASE ~(t <= now)
  <2>1. Since(A \cup {y}, t) = Since(A, t)
    BY <1>1, <1>2, <1>6 DEF Since
  <2> QED BY <1>4, <1>6, <2>1 DEF y
<1> QED BY <1>5, <1>6

\* What the requests of a key since t cost is a number.
LEMMA CostIsInt ==
    ASSUME NEW A, IsFiniteSet(A), NEW t
    PROVE  Cardinality(Since(A, t)) \in Nat /\ Price(Cardinality(Since(A, t))) \in Nat
<1>1. Since(A, t) \in SUBSET A
  BY DEF Since
<1>2. Cardinality(Since(A, t)) \in Nat
  BY <1>1, FS_Subset, FS_CardinalityType
<1> QED BY <1>2, PriceNat

\* The bucket at an arrival, refilled forwards or back, has paid as before.
LEMMA RefillPays ==
    ASSUME NEW A \in SUBSET (Time \X Nat), IsFiniteSet(A), NEW tokens \in Int,
           NEW at \in Time, NEW now \in Time, NEW first \in Int, first <= at, first <= now,
           Charged(A, tokens, at, first),
           NEW left \in Int, left <= tokens + Earned(now - at)
    PROVE  Charged(A, left, now, first)
<1> SUFFICES ASSUME NEW t \in Time, Since(A, t) # {}
             PROVE  Scaled(left + Price(Cardinality(Since(A, t)))) + Worth(t - first)
                       <= Scaled(Full) + Worth(now - first)
  BY DEF Charged
<1> DEFINE c == Price(Cardinality(Since(A, t)))
<1>1. Scaled(tokens + c) + Worth(t - first) <= Scaled(Full) + Worth(at - first)
  BY DEF Charged
<1>2. c \in Int
  BY CostIsInt
<1>3. now \in Int /\ at \in Int /\ t \in Int /\ Full \in Int
  BY TimeIsInt, FullSuffices
<1> HIDE DEF c
<1>4. Worth(now - first) = Worth(at - first) + Scaled(Earned(now - at))
  <2>1. at - first \in Int /\ now - first \in Int /\ at - first >= 0 /\ now - first >= 0
        /\ (now - first) - (at - first) = now - at
    BY <1>3
  <2> QED BY <2>1, WorthRises
<1>5. Scaled(left + c) <= Scaled(tokens + c) + Scaled(Earned(now - at))
  <2> DEFINE u == left + c
             v == tokens + c
             e == Earned(now - at)
  <2>1. e \in Int
    BY <1>3, EarnedInt
  <2>2. u \in Int /\ v \in Int /\ v + e \in Int /\ u <= v + e
    BY <1>2, <2>1
  <2> HIDE DEF u, v, e
  <2>3. Scaled(u) <= Scaled(v + e)
    BY <2>2, ScaledLinear
  <2>4. Scaled(v + e) = Scaled(v) + Scaled(e)
    BY <2>1, <2>2, ScaledLinear
  <2>5. Scaled(u) <= Scaled(v) + Scaled(e)
    BY <2>3, <2>4
  <2> QED BY <2>5 DEF u, v, e
<1>6. /\ Worth(t - first) \in Int /\ Worth(at - first) \in Int /\ Scaled(Full) \in Int
      /\ Scaled(left + c) \in Int /\ Scaled(tokens + c) \in Int /\ Scaled(Earned(now - at)) \in Int
  <2>1. t - first \in Int /\ at - first \in Int /\ left + c \in Int /\ tokens + c \in Int
        /\ Earned(now - at) \in Int
    BY <1>2, <1>3, EarnedInt
  <2> QED BY <1>3, <2>1, WorthRises, ScaledLinear
<1>7. Scaled(left + c) + Worth(t - first) <= Scaled(Full) + Worth(now - first)
  BY <1>1, <1>4, <1>5, <1>6
<1> QED BY <1>7 DEF c

\* A full bucket has paid for a key that was silent.
LEMMA FullPays ==
    ASSUME NEW A \in SUBSET (Time \X Nat), IsFiniteSet(A), NEW now \in Time,
           NEW c \in Time, c <= now + MaxWait, Idle(A, c)
    PROVE  Charged(A, Full, now, c - MaxWait)
<1> DEFINE first == c - MaxWait
<1> SUFFICES ASSUME NEW t \in Time, Since(A, t) # {}
             PROVE  Scaled(Full + Price(Cardinality(Since(A, t)))) + Worth(t - first)
                       <= Scaled(Full) + Worth(now - first)
  BY DEF Charged
<1> DEFINE n == Price(Cardinality(Since(A, t)))
<1>1. Scaled(n) + Supplied(t) + Supplied(MaxWait) <= Supplied(c)
  BY DEF Idle
<1>2. n \in Nat
  BY CostIsInt
<1>3. MaxWait \in Int /\ now \in Int /\ c \in Int /\ t \in Int /\ Full \in Int
  BY TimeIsInt, RateAssumption, FullSuffices
<1> HIDE DEF n
<1>4. Supplied(t - first) = Supplied(t) + Supplied(MaxWait) - Supplied(c)
  <2>1. Supplied(first) = Supplied(c) - Supplied(MaxWait) /\ first \in Int
    BY <1>3, SuppliedLinear
  <2>2. Supplied(t - first) = Supplied(t) - Supplied(first)
    BY <1>3, <2>1, SuppliedLinear
  <2>3. Supplied(t) \in Int /\ Supplied(c) \in Int /\ Supplied(MaxWait) \in Int
    BY <1>3, SuppliedLinear
  <2> QED BY <2>1, <2>2, <2>3
<1>5. /\ Supplied(t) \in Int /\ Supplied(c) \in Int /\ Supplied(MaxWait) \in Int
      /\ Scaled(n) \in Int /\ 0 <= Scaled(n) /\ Scaled(Full) \in Int
      /\ Scaled(Full + n) = Scaled(Full) + Scaled(n)
  <2>1. n \in Int /\ 0 <= n
    BY <1>2
  <2>2. Scaled(0) = 0 /\ Scaled(0) <= Scaled(n)
    <3>1. Scaled(0) <= Scaled(n)
      BY <2>1, ScaledLinear
    <3> QED BY <3>1, SupplySuffices DEF Scaled
  <2>3. Scaled(n) \in Int /\ Scaled(Full) \in Int /\ Scaled(Full + n) = Scaled(Full) + Scaled(n)
    BY <1>3, <2>1, ScaledLinear
  <2>4. Supplied(t) \in Int /\ Supplied(c) \in Int /\ Supplied(MaxWait) \in Int
    BY <1>3, SuppliedLinear
  <2> QED BY <2>2, <2>3, <2>4
<1>6. Scaled(n) + Supplied(t - first) <= 0
  BY <1>1, <1>4, <1>5
<1>7. t - first \in Int /\ now - first \in Int /\ now - first >= 0
  BY <1>3
<1>8. Scaled(n) + Worth(t - first) <= 0
  <2>1. CASE t - first >= 0
    <3>1. Worth(t - first) <= Supplied(t - first)
      <4>1. t - first \in Nat
        BY <1>7, <2>1
      <4> HIDE DEF first
      <4> QED BY <2>1, <4>1, RefillIsSupplied DEF Worth
    <3>2. Worth(t - first) \in Int /\ Supplied(t - first) \in Int
      BY <1>7, WorthRises, SuppliedLinear
    <3> HIDE DEF first
    <3> QED BY <1>5, <1>6, <3>1, <3>2
  <2>2. CASE ~(t - first >= 0)
    BY <1>6, <2>2 DEF Worth
  <2> QED BY <2>1, <2>2
<1>9. 0 <= Worth(now - first)
  <2>1. now - first \in Nat
    BY <1>7
  <2> HIDE DEF first
  <2> QED BY <1>7, <2>1, RefillIsSupplied DEF Worth
<1>10. Worth(t - first) \in Int /\ Worth(now - first) \in Int
  BY <1>7, WorthRises
<1> HIDE DEF first
<1>11. Scaled(Full + n) + Worth(t - first) <= Scaled(Full) + Worth(now - first)
  BY <1>5, <1>8, <1>9, <1>10
<1> QED BY <1>11 DEF n, first

\* A request that is let through pays for itself.
LEMMA AdmitPays ==
    ASSUME NEW A \in SUBSET (Time \X Nat), IsFiniteSet(A), NEW now \in Time, NEW n \in Nat,
           <<now, n>> \notin A, NEW tokens \in Int, tokens <= Full, NEW first \in Int,
           Charged(A, tokens, now, first)
    PROVE  Charged(A \cup {<<now, n>>}, tokens - Cost, now, first)
<1> DEFINE B == A \cup {<<now, n>>}
<1> SUFFICES ASSUME NEW t \in Time, Since(B, t) # {}
             PROVE  Scaled((tokens - Cost) + Price(Cardinality(Since(B, t)))) + Worth(t - first)
                       <= Scaled(Full) + Worth(now - first)
  BY DEF Charged
<1> DEFINE m == Cardinality(Since(A, t))
<1>1. /\ IsFiniteSet(Since(A, t)) /\ m \in Nat
      /\ t <= now => Cardinality(Since(B, t)) = m + 1
      /\ ~(t <= now) => Since(B, t) = Since(A, t)
  BY SinceAdd
<1>2. Since(A, t) # {} =>
         Scaled(tokens + Price(m)) + Worth(t - first) <= Scaled(Full) + Worth(now - first)
  BY DEF Charged
<1>3. /\ Full \in Int /\ Cost \in Nat /\ now \in Int /\ t \in Int
      /\ t - first \in Int /\ now - first \in Int
  BY FullSuffices, TimeIsInt
<1>4. Price(m) \in Nat /\ Price(m + 1) = Price(m) + Cost
  BY <1>1, PriceNat, PriceLinear, FullSuffices
<1>5. /\ Worth(t - first) \in Int /\ Worth(now - first) \in Int
      /\ t <= now => Worth(t - first) <= Worth(now - first)
  <2> DEFINE u == t - first
             v == now - first
  <2>1. u \in Int /\ v \in Int /\ (t <= now => u <= v)
    BY <1>3
  <2> HIDE DEF u, v
  <2>2. Worth(u) \in Int /\ Worth(v) \in Int /\ (t <= now => Worth(u) <= Worth(v))
    BY <2>1, WorthRises
  <2> QED BY <2>2 DEF u, v
<1>6. CASE t <= now /\ Since(A, t) # {}
  <2>1. (tokens - Cost) + Price(Cardinality(Since(B, t))) = tokens + Price(m)
    BY <1>1, <1>3, <1>4, <1>6
  <2> QED BY <1>2, <1>6, <2>1
<1>7. CASE t <= now /\ Since(A, t) = {}
  <2>1. m = 0
    BY <1>7, FS_EmptySet
  <2>2. Price(1) = Cost
    BY <1>3 DEF Price
  <2>3. (tokens - Cost) + Price(Cardinality(Since(B, t))) = tokens
    BY <1>1, <1>3, <1>7, <2>1, <2>2
  <2>4. Scaled(tokens) <= Scaled(Full) /\ Scaled(tokens) \in Int /\ Scaled(Full) \in Int
    BY <1>3, ScaledLinear
  <2> QED BY <1>5, <1>7, <2>3, <2>4
<1>8. CASE ~(t <= now)
  <2>1. Since(B, t) = Since(A, t)
    BY <1>1, <1>8
  <2>2. Scaled((tokens - Cost) + Price(m)) <= Scaled(tokens + Price(m))
        /\ Scaled((tokens - Cost) + Price(m)) \in Int /\ Scaled(tokens + Price(m)) \in Int
    <3>1. (tokens - Cost) + Price(m) \in Int /\ tokens + Price(m) \in Int
          /\ (tokens - Cost) + Price(m) <= tokens + Price(m)
      BY <1>3, <1>4
    <3> QED BY <3>1, ScaledLinear
  <2>3. Scaled(Full) \in Int
    BY <1>3, ScaledLinear
  <2> HIDE DEF B, m
  <2>4. Since(A, t) # {}
    BY <2>1 DEF B
  <2>5. Scaled((tokens - Cost) + Price(m)) + Worth(t - first) <= Scaled(Full) + Worth(now - first)
    BY <1>2, <1>5, <2>2, <2>3, <2>4
  <2> QED BY <2>1, <2>5 DEF B, m
<1> QED BY <1>6, <1>7, <1>8

\* The types of what belongs to one key.
LEMMA KeyTypes ==
    ASSUME RateTypeOK, NEW k \in ClientKey
    PROVE  /\ admits[k] \in SUBSET (Time \X Nat)
           /\ newest[k] \in Int
           /\ k \in DOMAIN buckets => /\ buckets[k].tokens \in Int /\ buckets[k].tokens <= Full
                                      /\ buckets[k].last \in Time /\ buckets[k].last \in Int
<1>1. admits[k] \in SUBSET (Time \X Nat) /\ newest[k] \in Int
  BY TimeIsInt DEF RateTypeOK
<1>2. ASSUME k \in DOMAIN buckets
      PROVE  /\ buckets[k].tokens \in Int /\ buckets[k].tokens <= Full
             /\ buckets[k].last \in Time /\ buckets[k].last \in Int
  <2>1. buckets[k] \in Bucket
    BY <1>2 DEF RateTypeOK
  <2>2. Debt \in Int /\ Burst * Cost \in Int
    BY RateAssumption DEF Debt
  <2> QED BY <2>1, <2>2, TimeIsInt DEF Bucket, Full
<1> QED BY <1>1, <1>2

\* A key whose bucket is swept has been silent: all it took has been supplied again.
LEMMA SweptIsIdle ==
    ASSUME RateInv, NEW k \in DOMAIN buckets, NEW now \in Time, now <= clock,
           now - buckets[k].last > idleTTL
    PROVE  Idle(admits[k], clock)
<1> SUFFICES ASSUME NEW t \in Time, Since(admits[k], t) # {}
             PROVE  Scaled(Price(Cardinality(Since(admits[k], t)))) + Supplied(t) + Supplied(MaxWait)
                       <= Supplied(clock)
  BY DEF Idle
<1> DEFINE c == Price(Cardinality(Since(admits[k], t)))
           last0 == buckets[k].last
           have == buckets[k].tokens
           N == newest[k]
<1>a. k \in ClientKey
  BY DEF RateInv, RateTypeOK
<1>1. /\ last0 \in Int /\ have \in Int /\ N \in Int /\ now \in Int /\ t \in Int
      /\ clock \in Int /\ MaxWait \in Int /\ idleTTL \in Int /\ Full \in Int
  BY <1>a, KeyTypes, TimeIsInt, RateAssumption, FullSuffices DEF RateInv, RateTypeOK
<1>2. PICK first \in Int :
         /\ first <= last0
         /\ Scaled(have + c) + Worth(t - first) <= Scaled(Full) + Worth(last0 - first)
  BY DEF RateInv, BucketInv, Charged
<1>3. /\ last0 <= N /\ N <= last0 + MaxWait
      /\ have + Earned(N) >= Earned(last0)
  BY DEF RateInv, BucketInv
<1>4. t <= N
  <2>1. PICK x \in admits[k] : x[1] >= t
    BY DEF Since
  <2>2. x[1] <= N /\ x[1] \in Int
    BY <1>a, KeyTypes, TimeIsInt DEF RateInv, AdmitInv
  <2> QED BY <1>1, <2>1, <2>2
<1>5. c \in Int
  BY <1>a, CostIsInt DEF RateInv, AdmitInv
<1>6. N + Silence + MaxWait <= clock
  BY <1>1, <1>3 DEF Silence
<1> HIDE DEF c, last0, have, N
<1>7. Scaled(c) + Worth(t - first) <= Scaled(Full) + Worth(N - first)
  <2>1. Earned(N) \in Int /\ Earned(last0) \in Int /\ Earned(N - last0) \in Int
        /\ Earned(N - last0) = Earned(N) - Earned(last0)
    <3>1. N - last0 \in Int
      BY <1>1
    <3>2. Earned(N - last0) = Earned(N) - Earned(last0)
      BY <1>1, EarnedLinear
    <3> QED BY <1>1, <3>1, <3>2, EarnedInt
  <2>2. 0 <= have + Earned(N - last0)
    BY <1>1, <1>3, <2>1
  <2>3. Scaled(c) <= Scaled((have + c) + Earned(N - last0))
    <3>1. c <= (have + c) + Earned(N - last0) /\ (have + c) + Earned(N - last0) \in Int
      BY <1>1, <1>5, <2>1, <2>2
    <3> QED BY <1>5, <3>1, ScaledLinear
  <2>4. Scaled((have + c) + Earned(N - last0)) = Scaled(have + c) + Scaled(Earned(N - last0))
    BY <1>1, <1>5, <2>1, ScaledLinear
  <2>5. Worth(N - first) = Worth(last0 - first) + Scaled(Earned(N - last0))
    <3>1. N - first \in Int /\ last0 - first \in Int /\ last0 - first >= 0 /\ N - first >= 0
          /\ (N - first) - (last0 - first) = N - last0
      BY <1>1, <1>2, <1>3
    <3> QED BY <3>1, WorthRises
  <2>6. /\ Scaled(c) \in Int /\ Scaled(have + c) \in Int /\ Scaled(Earned(N - last0)) \in Int
        /\ Scaled(Full) \in Int /\ Worth(t - first) \in Int /\ Worth(last0 - first) \in Int
    <3>1. have + c \in Int /\ t - first \in Int /\ last0 - first \in Int
      BY <1>1, <1>5
    <3> QED BY <1>1, <1>5, <2>1, <3>1, ScaledLinear, WorthRises
  <2> QED BY <1>2, <2>3, <2>4, <2>5, <2>6
<1>8. Worth(N - first) <= Worth(t - first) + Supplied(N - t)
  <2>1. t - first \in Int /\ N - first \in Int /\ t - first <= N - first
        /\ (N - first) - (t - first) = N - t
    BY <1>1, <1>4
  <2> QED BY <2>1, WorthRises
<1>9. Scaled(Full) <= Supplied(Silence)
  <2>1. \A a, b, n \in Nat : a <= b => n * a <= b * n
    OBVIOUS
  <2>2. Full \in Nat /\ Full <= Supply
    BY FullSuffices, SupplySuffices DEF Full
  <2> QED BY <2>1, <2>2, SupplySuffices DEF Scaled, Supplied
<1>10. /\ Supplied(N - t) = Supplied(N) - Supplied(t)
       /\ Supplied(N) + Supplied(Silence) + Supplied(MaxWait) <= Supplied(clock)
  <2>1. Silence \in Int /\ N + Silence \in Int /\ (N + Silence) + MaxWait \in Int
    BY <1>1, SupplySuffices
  <2>2. Supplied((N + Silence) + MaxWait) <= Supplied(clock)
    BY <1>1, <1>6, <2>1, SuppliedLinear
  <2>3. /\ Supplied((N + Silence) + MaxWait) = Supplied(N + Silence) + Supplied(MaxWait)
        /\ Supplied(N + Silence) = Supplied(N) + Supplied(Silence)
        /\ Supplied(N - t) = Supplied(N) - Supplied(t)
    BY <1>1, <2>1, SuppliedLinear
  <2> QED BY <2>2, <2>3
<1>11. /\ Scaled(c) \in Int /\ Scaled(Full) \in Int /\ Worth(t - first) \in Int
       /\ Worth(N - first) \in Int
       /\ Supplied(N) \in Int /\ Supplied(t) \in Int /\ Supplied(Silence) \in Int
       /\ Supplied(MaxWait) \in Int /\ Supplied(clock) \in Int
  <2>1. Silence \in Int /\ t - first \in Int /\ N - first \in Int
    BY <1>1, SupplySuffices
  <2> QED BY <1>1, <1>5, <2>1, ScaledLinear, SuppliedLinear, WorthRises
<1>12. Scaled(c) + Supplied(t) + Supplied(MaxWait) <= Supplied(clock)
  BY <1>7, <1>8, <1>9, <1>10, <1>11
<1> QED BY <1>12 DEF c

\* Where a bucket has paid and is not overdrawn, a window around its time is bounded.
LEMMA WindowPaid ==
    ASSUME NEW A \in SUBSET (Time \X Nat), IsFiniteSet(A), NEW tokens \in Nat, NEW now \in Time,
           NEW first \in Int, Charged(A, tokens, now, first),
           NEW x \in A, NEW y \in A, x[1] <= now, now <= y[1]
    PROVE  Silence * Cost * Cardinality({z \in A : z[1] \in x[1]..y[1]})
              <= Silence * Burst * Cost + Supply * (y[1] - x[1])
<1> DEFINE W == {z \in A : z[1] \in x[1]..y[1]}
           S == Since(A, x[1])
<1>1. x[1] \in Time /\ y[1] \in Time
  OBVIOUS
<1>2. x[1] \in Int /\ y[1] \in Int /\ now \in Int
  BY <1>1, TimeIsInt
<1>3. S \in SUBSET A /\ W \in SUBSET S /\ x \in S
  BY <1>2 DEF Since
<1>4. IsFiniteSet(S) /\ Cardinality(S) \in Nat
  BY <1>3, FS_Subset, FS_CardinalityType
<1>5. Cardinality(W) \in Nat /\ Cardinality(W) <= Cardinality(S)
  BY <1>3, <1>4, FS_Subset, FS_CardinalityType
<1>6. Scaled(tokens + Price(Cardinality(S))) + Worth(x[1] - first) <= Scaled(Full) + Worth(now - first)
  BY <1>1, <1>3 DEF Charged
<1>7. Scaled(Price(Cardinality(W))) <= Scaled(tokens + Price(Cardinality(S)))
  <2>1. /\ Price(Cardinality(W)) \in Int /\ Price(Cardinality(S)) \in Int
        /\ Price(Cardinality(W)) <= Price(Cardinality(S))
    BY <1>4, <1>5, PriceLinear, PriceNat
  <2>2. tokens + Price(Cardinality(S)) \in Int
        /\ Price(Cardinality(W)) <= tokens + Price(Cardinality(S))
    BY <2>1
  <2> QED BY <2>1, <2>2, ScaledLinear
<1>8. Worth(now - first) <= Worth(x[1] - first) + Supplied(now - x[1])
  <2>1. x[1] - first \in Int /\ now - first \in Int /\ x[1] - first <= now - first
        /\ (now - first) - (x[1] - first) = now - x[1]
    BY <1>2
  <2> QED BY <2>1, WorthRises
<1>9. Supplied(now - x[1]) <= Supplied(y[1] - x[1])
  <2>1. now - x[1] \in Int /\ y[1] - x[1] \in Int /\ now - x[1] <= y[1] - x[1]
    BY <1>2
  <2> QED BY <2>1, SuppliedLinear
<1>10. /\ Scaled(Price(Cardinality(W))) \in Int /\ Scaled(tokens + Price(Cardinality(S))) \in Int
       /\ Scaled(Full) \in Int /\ Worth(now - first) \in Int /\ Worth(x[1] - first) \in Int
       /\ Supplied(now - x[1]) \in Int /\ Supplied(y[1] - x[1]) \in Int
  <2>1. /\ Price(Cardinality(W)) \in Int /\ tokens + Price(Cardinality(S)) \in Int /\ Full \in Int
        /\ now - first \in Int /\ x[1] - first \in Int /\ now - x[1] \in Int /\ y[1] - x[1] \in Int
    BY <1>2, <1>4, <1>5, PriceNat, FullSuffices
  <2> QED BY <2>1, ScaledLinear, SuppliedLinear, WorthRises
<1> HIDE DEF W, S
<1>11. Scaled(Price(Cardinality(W))) <= Scaled(Full) + Supplied(y[1] - x[1])
  BY <1>6, <1>7, <1>8, <1>9, <1>10
<1>12. /\ Scaled(Price(Cardinality(W))) = Silence * Cost * Cardinality(W)
       /\ Scaled(Full) = Silence * Burst * Cost
  BY <1>5, SupplySuffices, RateAssumption DEF Scaled, Price, Full
<1> QED BY <1>11, <1>12 DEF W, Supplied

LEMMA RateInitInv == RateInit => RateInv
<1> SUFFICES ASSUME RateInit PROVE RateInv
  OBVIOUS
<1>1. \A k \in ClientKey : admits[k] = {} /\ newest[k] = -1
  BY DEF RateInit
<1>2. RateTypeOK
  BY RateAssumption DEF RateInit, RateTypeOK, Time
<1>3. ArrivalInv /\ BucketInv
  BY DEF RateInit, ArrivalInv, BucketInv
<1>4. AdmitInv
  BY <1>1, FS_EmptySet DEF RateInit, AdmitInv
<1>5. SweptInv /\ WindowBound
  BY <1>1 DEF SweptInv, Idle, Since, WindowBound
<1> QED BY <1>2, <1>3, <1>4, <1>5 DEF RateInv

\* The buckets a call finds are those of before; a key without one was silent.
LEMMA KeptBuckets ==
    ASSUME RateInv, NEW now \in Time, now <= clock
    PROVE  /\ DOMAIN Kept(now) \subseteq DOMAIN buckets
           /\ \A k \in DOMAIN Kept(now) : Kept(now)[k] = buckets[k]
           /\ \A k \in ClientKey \ DOMAIN Kept(now) : Idle(admits[k], clock)
<1>1. /\ DOMAIN Kept(now) \subseteq DOMAIN buckets
      /\ \A k \in DOMAIN Kept(now) : Kept(now)[k] = buckets[k]
  BY DEF Kept, sweepLocked
<1>2. ASSUME NEW k \in ClientKey, k \notin DOMAIN Kept(now) PROVE Idle(admits[k], clock)
  <2>1. CASE k \in DOMAIN buckets
    <3>1. ~(now - buckets[k].last <= idleTTL)
      BY <1>2, <2>1 DEF Kept, sweepLocked
    <3>2. now \in Int /\ buckets[k].last \in Int /\ idleTTL \in Int
      BY <2>1, KeyTypes, TimeIsInt, RateAssumption DEF RateInv
    <3>3. now - buckets[k].last > idleTTL
      BY <3>1, <3>2
    <3> QED BY <2>1, <3>3, SweptIsIdle
  <2>2. CASE k \notin DOMAIN buckets
    BY <2>2 DEF RateInv, SweptInv
  <2> QED BY <2>1, <2>2
<1> QED BY <1>1, <1>2

\* The tokens a request finds: no more than a full bucket, paid for up to now; and where
\* there are not enough of them, what is owed is owed to the newest arrival.
LEMMA TokensFound ==
    ASSUME RateInv, NEW k \in ClientKey, NEW now \in Time,
           now <= clock, clock <= now + MaxWait
    PROVE  /\ TokensFor(k, now) \in Int /\ TokensFor(k, now) <= Full
           /\ \E first \in Int : /\ first <= now /\ first + MaxWait <= clock
                                 /\ Charged(admits[k], TokensFor(k, now), now, first)
           /\ k \notin DOMAIN Kept(now) => TokensFor(k, now) >= Cost
           /\ TokensFor(k, now) < Cost =>
                /\ k \in DOMAIN buckets
                /\ TokensFor(k, now) + Earned(newest[k]) >= Earned(now)
<1>1. admits[k] \in SUBSET (Time \X Nat) /\ IsFiniteSet(admits[k]) /\ newest[k] \in Int
  BY KeyTypes DEF RateInv, AdmitInv
<1>2. /\ clock \in Time /\ clock \in Int /\ now \in Int /\ MaxWait \in Int
      /\ Full \in Int /\ Cost \in Int /\ Cost <= Full
  BY TimeIsInt, FullSuffices, RateAssumption DEF RateInv, RateTypeOK
<1>3. CASE k \notin DOMAIN Kept(now)
  <2>1. TokensFor(k, now) = Full
    BY <1>3 DEF TokensFor, Full
  <2>2. Idle(admits[k], clock)
    BY <1>3, KeptBuckets
  <2>3. Charged(admits[k], Full, now, clock - MaxWait)
    BY <1>1, <1>2, <2>2, FullPays
  <2>4. /\ clock - MaxWait \in Int /\ clock - MaxWait <= now
        /\ (clock - MaxWait) + MaxWait <= clock
    BY <1>2
  <2> QED BY <1>2, <1>3, <2>1, <2>3, <2>4
<1>4. CASE k \in DOMAIN Kept(now)
  <2> DEFINE have == buckets[k].tokens
             at == buckets[k].last
             more == Earned(now - at)
  <2>1. k \in DOMAIN buckets /\ Kept(now)[k] = buckets[k]
    BY <1>4, KeptBuckets
  <2>2. have \in Int /\ at \in Time /\ at \in Int
    BY <2>1, KeyTypes DEF RateInv
  <2>3. now - at \in Int /\ more \in Int /\ more = Earned(now) - Earned(at)
    <3>1. now - at \in Int
      BY <1>2, <2>2
    <3>2. more = Earned(now) - Earned(at)
      BY <1>2, <2>2, EarnedLinear
    <3> QED BY <3>1, <3>2, EarnedInt
  <2>4. TokensFor(k, now) = Min({Full, have + more})
    <3>1. (now - at) * Rate = Rate * (now - at)
      BY <2>3, RateAssumption
    <3> QED BY <1>4, <2>1, <3>1 DEF TokensFor, Refill, Full, Earned
  <2>5. /\ have + Earned(newest[k]) >= Earned(at)
        /\ \E first \in Int : /\ first <= at /\ first + MaxWait <= clock
                              /\ Charged(admits[k], have, at, first)
    BY <2>1 DEF RateInv, BucketInv
  <2>6. Earned(now) \in Int /\ Earned(at) \in Int /\ Earned(newest[k]) \in Int
    BY <1>1, <1>2, <2>2, EarnedInt
  <2> HIDE DEF have, at, more
  <2>7. TokensFor(k, now) = IF Full <= have + more THEN Full ELSE have + more
    BY <1>2, <2>2, <2>3, <2>4, MinPair
  <2>8. TokensFor(k, now) \in Int /\ TokensFor(k, now) <= Full
        /\ TokensFor(k, now) <= have + more
    BY <1>2, <2>2, <2>3, <2>7
  <2>9. \E first \in Int : /\ first <= now /\ first + MaxWait <= clock
                            /\ Charged(admits[k], TokensFor(k, now), now, first)
    <3>1. PICK first \in Int : /\ first <= at /\ first + MaxWait <= clock
                               /\ Charged(admits[k], have, at, first)
      BY <2>5
    <3>2. first <= now
      BY <1>2, <3>1
    <3>3. Charged(admits[k], TokensFor(k, now), now, first)
      BY <1>1, <2>2, <2>8, <3>1, <3>2, RefillPays DEF more
    <3> QED BY <3>1, <3>2, <3>3
  <2>10. TokensFor(k, now) < Cost => TokensFor(k, now) + Earned(newest[k]) >= Earned(now)
    BY <1>2, <2>2, <2>3, <2>5, <2>6, <2>7
  <2> QED BY <1>4, <2>1, <2>8, <2>9, <2>10
<1> QED BY <1>3, <1>4

\* The number of a new request is not taken.
LEMMA FreshNumber ==
    ASSUME AdmitInv, RateTypeOK, NEW k \in ClientKey, NEW now \in Time
    PROVE  /\ Cardinality(AdmittedAt(k, now)) \in Nat
           /\ <<now, Cardinality(AdmittedAt(k, now))>> \notin admits[k]
<1> DEFINE n == Cardinality(AdmittedAt(k, now))
<1>1. AdmittedAt(k, now) \in SUBSET admits[k] /\ IsFiniteSet(admits[k])
  BY DEF AdmittedAt, AdmitInv
<1>2. n \in Nat
  BY <1>1, FS_Subset, FS_CardinalityType
<1>3. ASSUME <<now, n>> \in admits[k] PROVE FALSE
  <2>1. <<now, n>>[2] < Cardinality(AdmittedAt(k, <<now, n>>[1]))
    BY <1>3 DEF AdmitInv
  <2>2. n < n
    BY <2>1
  <2> QED BY <1>2, <2>2
<1> QED BY <1>2, <1>3

\* With one more request the numbers still keep requests apart.
LEMMA NumbersStayApart ==
    ASSUME NEW A \in SUBSET (Time \X Nat), IsFiniteSet(A),
           \A x \in A : x[2] < Cardinality({z \in A : z[1] = x[1]}),
           NEW now \in Time, NEW n \in Nat, n = Cardinality({z \in A : z[1] = now}),
           <<now, n>> \notin A,
           NEW x \in A \cup {<<now, n>>}
    PROVE  x[2] < Cardinality({z \in A \cup {<<now, n>>} : z[1] = x[1]})
<1> DEFINE y == <<now, n>>
           old == {z \in A : z[1] = x[1]}
           new == {z \in A \cup {y} : z[1] = x[1]}
<1>1. y[1] = now /\ y[2] = n
  OBVIOUS
<1> HIDE DEF y
<1>2. old \in SUBSET A
  OBVIOUS
<1>3. IsFiniteSet(old) /\ Cardinality(old) \in Nat
  BY <1>2, FS_Subset, FS_CardinalityType
<1>4. x[2] \in Nat
  BY <1>1 DEF y
<1>5. CASE x[1] = now
  <2>1. new = old \cup {y} /\ y \notin old
    BY <1>1, <1>5 DEF y
  <2>2. Cardinality(new) = Cardinality(old) + 1
    BY <1>3, <2>1, FS_AddElement
  <2>3. x[2] <= Cardinality(old)
    <3>1. CASE x \in A
      BY <1>3, <1>4, <3>1
    <3>2. CASE x = y
      BY <1>1, <1>3, <1>5, <3>2
    <3> QED BY <3>1, <3>2 DEF y
  <2>4. x[2] < Cardinality(new)
    BY <1>3, <1>4, <2>2, <2>3
  <2> QED BY <2>4 DEF y
<1>6. CASE x[1] # now
  <2>1. new = old /\ x \in A
    BY <1>1, <1>6 DEF y
  <2>2. x[2] < Cardinality(new)
    BY <2>1
  <2> QED BY <2>2 DEF y
<1> QED BY <1>5, <1>6

\* The step of Allow, from the lock to the answer.
LEMMA AllowStep ==
    ASSUME RateInv, NEW r \in Caller, Allow(r)
    PROVE  RateInv'
<1> DEFINE k == arrived[r].key
           now == arrived[r].now
           K == Kept(now)
           tokens == TokensFor(k, now)
           admitted == k \notin DOMAIN K \/ tokens >= Cost
           left == IF admitted THEN tokens - Cost ELSE tokens
           y == <<now, Cardinality(AdmittedAt(k, now))>>
<1>1. /\ arrived[r] # NoCall
      /\ buckets' = [j \in DOMAIN K \cup {k} |->
            IF j = k THEN [tokens |-> left, last |-> now] ELSE K[j]]
      /\ admits' = IF admitted THEN [admits EXCEPT ![k] = @ \cup {y}] ELSE admits
      /\ newest' = [newest EXCEPT ![k] = Max({@, now})]
      /\ arrived' = [arrived EXCEPT ![r] = NoCall]
      /\ UNCHANGED <<clock, calls>>
  BY DEF Allow
<1>2. k \in ClientKey /\ now \in Time /\ now <= clock /\ clock <= now + MaxWait
  BY <1>1 DEF RateInv, RateTypeOK, ArrivalInv
<1>3. /\ DOMAIN K \subseteq DOMAIN buckets
      /\ \A j \in DOMAIN K : K[j] = buckets[j]
      /\ \A j \in ClientKey \ DOMAIN K : Idle(admits[j], clock)
  BY <1>2, KeptBuckets
<1>b. PICK first \in Int : /\ first <= now /\ first + MaxWait <= clock
                           /\ Charged(admits[k], tokens, now, first)
  BY <1>2, TokensFound
<1>4. /\ tokens \in Int /\ tokens <= Full
      /\ k \notin DOMAIN K => tokens >= Cost
      /\ tokens < Cost => k \in DOMAIN buckets /\ tokens + Earned(newest[k]) >= Earned(now)
  BY <1>2, TokensFound
<1>5. y \notin admits[k] /\ Cardinality(AdmittedAt(k, now)) \in Nat
  BY <1>2, FreshNumber DEF RateInv
<1>6. /\ now \in Int /\ clock \in Int /\ clock \in Time /\ MaxWait \in Int /\ Cost \in Nat /\ Full \in Nat
      /\ newest[k] \in Int /\ newest[k] <= clock
  BY <1>2, TimeIsInt, FullSuffices, KeyTypes, RateAssumption DEF RateInv, RateTypeOK, AdmitInv
<1>7. y \in Time \X Nat /\ y[1] = now
  BY <1>2, <1>5
<1>8. /\ admits[k] \in SUBSET (Time \X Nat) /\ IsFiniteSet(admits[k])
      /\ \A x \in admits[k] : x[2] < Cardinality(AdmittedAt(k, x[1]))
  BY <1>2, KeyTypes DEF RateInv, AdmitInv
<1> HIDE DEF k, now, K, tokens
<1>9. admitted <=> tokens >= Cost
  BY <1>4
<1>10. left \in Int /\ left <= Full /\ (admitted => left \in Nat) /\ (~admitted => left = tokens)
  BY <1>4, <1>6, <1>9
<1>11. Charged(admits'[k], left, now, first)
  <2>1. CASE admitted
    <3>1. admits'[k] = admits[k] \cup {y}
      BY <1>1, <1>2, <2>1 DEF RateInv, RateTypeOK
    <3>2. Charged(admits[k] \cup {y}, tokens - Cost, now, first)
      BY <1>2, <1>b, <1>4, <1>5, <1>8, AdmitPays
    <3> QED BY <2>1, <3>1, <3>2
  <2>2. CASE ~admitted
    BY <1>1, <1>b, <1>4, <2>2
  <2> QED BY <2>1, <2>2
<1> HIDE DEF left, admitted, y
<1>12. /\ newest'[k] = Max({newest[k], now})
       /\ newest'[k] \in Time \cup {-1} /\ newest'[k] \in Int
       /\ newest[k] <= newest'[k] /\ now <= newest'[k] /\ newest'[k] <= clock
  <2>1. newest'[k] = Max({newest[k], now})
    BY <1>1, <1>2 DEF RateInv, RateTypeOK
  <2>2. newest'[k] = IF newest[k] >= now THEN newest[k] ELSE now
    BY <1>6, <2>1, MaxPair
  <2>3. newest[k] \in Time \cup {-1}
    BY <1>2 DEF RateInv, RateTypeOK
  <2> QED BY <1>2, <1>6, <2>1, <2>2, <2>3
<1>13. left + Earned(newest'[k]) >= Earned(now)
  <2>1. /\ Earned(newest'[k]) \in Int /\ Earned(now) \in Int /\ Earned(newest[k]) \in Int
        /\ Earned(now) <= Earned(newest'[k]) /\ Earned(newest[k]) <= Earned(newest'[k])
    BY <1>6, <1>12, EarnedInt, EarnedLinear
  <2>2. CASE admitted
    BY <1>10, <2>1, <2>2
  <2>3. CASE ~admitted
    <3>1. tokens < Cost
      BY <1>4, <1>6, <1>9, <2>3
    <3> QED BY <1>4, <1>10, <2>1, <2>3, <3>1
  <2> QED BY <2>2, <2>3
<1>14. \A j \in ClientKey : j # k => admits'[j] = admits[j] /\ newest'[j] = newest[j]
  BY <1>1, <1>2 DEF RateInv, RateTypeOK
<1>15. /\ buckets'[k] = [tokens |-> left, last |-> now]
       /\ DOMAIN buckets' = DOMAIN K \cup {k}
       /\ \A j \in DOMAIN K : j # k => buckets'[j] = buckets[j]
  BY <1>1, <1>3
<1>16. admits'[k] \in SUBSET (Time \X Nat) /\ IsFiniteSet(admits'[k])
  <2>1. admits'[k] = IF admitted THEN admits[k] \cup {y} ELSE admits[k]
    BY <1>1, <1>2 DEF RateInv, RateTypeOK
  <2>2. IsFiniteSet(admits[k] \cup {y})
    BY <1>8, FS_AddElement
  <2> QED BY <1>7, <1>8, <2>1, <2>2
<1>17. RateTypeOK'
  <2>1. buckets'[k] \in Bucket
    <3>1. Earned(newest'[k]) <= Earned(MaxTime) /\ Earned(0) <= Earned(now)
      <4>1. newest'[k] <= MaxTime /\ MaxTime \in Int /\ 0 <= now
        BY <1>2, <1>6, <1>12, TimeIsInt, RateAssumption
      <4> QED BY <1>6, <1>12, <4>1, EarnedLinear
    <3>2. Earned(0) = 0 /\ Earned(MaxTime) = Debt /\ Debt \in Int
      BY RateAssumption DEF Earned, Debt
    <3>3. -Debt <= left
      <4>1. Earned(now) \in Int /\ Earned(newest'[k]) \in Int
        BY <1>6, <1>12, EarnedInt
      <4> QED BY <1>10, <1>13, <3>1, <3>2, <4>1
    <3> QED BY <1>2, <1>6, <1>10, <1>15, <3>2, <3>3 DEF Bucket, Full
  <2>2. \A j \in DOMAIN buckets' : j \in ClientKey /\ buckets'[j] \in Bucket
    BY <1>2, <1>3, <1>15, <2>1 DEF RateInv, RateTypeOK
  <2>3. admits' \in [ClientKey -> SUBSET (Time \X Nat)]
    BY <1>1, <1>2, <1>14, <1>16 DEF RateInv, RateTypeOK
  <2>4. newest' \in [ClientKey -> Time \cup {-1}]
    BY <1>1, <1>2, <1>12, <1>14 DEF RateInv, RateTypeOK
  <2> QED BY <1>1, <2>2, <2>3, <2>4 DEF RateInv, RateTypeOK
<1>18. ArrivalInv'
  BY <1>1 DEF RateInv, RateTypeOK, ArrivalInv
<1>19. AdmitInv'
  <2> SUFFICES ASSUME NEW j \in ClientKey PROVE AdmitInv!(j)'
    BY DEF AdmitInv
  <2>1. CASE j # k
    BY <1>1, <1>14, <2>1 DEF RateInv, AdmitInv, AdmittedAt
  <2>a. \A x \in admits'[k] : x[1] <= newest'[k]
    <3> SUFFICES ASSUME NEW x \in admits'[k] PROVE x[1] <= newest'[k]
      OBVIOUS
    <3>1. x \in admits[k] \/ x = y
      BY <1>1, <1>2 DEF RateInv, RateTypeOK
    <3>2. x[1] \in Int
      BY <1>16, TimeIsInt
    <3>3. CASE x \in admits[k]
      <4>1. x[1] <= newest[k]
        BY <1>2, <3>3 DEF RateInv, AdmitInv
      <4> QED BY <1>6, <1>12, <3>2, <4>1
    <3>4. CASE x = y
      BY <1>7, <1>12, <3>4
    <3> QED BY <3>1, <3>3, <3>4
  <2>2. CASE j = k /\ ~admitted
    <3>1. admits' = admits
      BY <1>1, <2>2
    <3>2. \A x \in admits'[j] : x[2] < Cardinality(AdmittedAt(j, x[1])')
      BY <1>8, <2>2, <3>1 DEF AdmittedAt
    <3>3. IsFiniteSet(admits'[j]) /\ newest'[j] <= clock'
          /\ \A x \in admits'[j] : x[1] <= newest'[j]
      BY <1>1, <1>12, <1>16, <2>a, <2>2
    <3> QED BY <3>2, <3>3
  <2>3. CASE j = k /\ admitted
    <3>1. admits'[k] = admits[k] \cup {y}
      BY <1>1, <1>2, <2>3 DEF RateInv, RateTypeOK
    <3>2. \A x \in admits'[k] : x[2] < Cardinality({z \in admits'[k] : z[1] = x[1]})
      <4>1. \A x \in admits[k] : x[2] < Cardinality({z \in admits[k] : z[1] = x[1]})
        BY <1>8 DEF AdmittedAt
      <4>2. Cardinality(AdmittedAt(k, now)) = Cardinality({z \in admits[k] : z[1] = now})
        BY DEF AdmittedAt
      <4> QED BY <1>2, <1>5, <1>8, <3>1, <4>1, <4>2, NumbersStayApart DEF y
    <3>3. \A x \in admits'[j] : x[2] < Cardinality(AdmittedAt(j, x[1])')
      BY <2>3, <3>2 DEF AdmittedAt
    <3>4. IsFiniteSet(admits'[j]) /\ newest'[j] <= clock'
          /\ \A x \in admits'[j] : x[1] <= newest'[j]
      BY <1>1, <1>12, <1>16, <2>a, <2>3
    <3> QED BY <3>3, <3>4
  <2> QED BY <2>1, <2>2, <2>3
<1>20. BucketInv'
  <2> SUFFICES ASSUME NEW j \in DOMAIN buckets' PROVE BucketInv!(j)'
    BY DEF BucketInv
  <2>1. CASE j = k
    <3>1. now <= newest'[k] /\ newest'[k] <= now + MaxWait
      BY <1>2, <1>6, <1>12
    <3>2. first <= now /\ first + MaxWait <= clock'
      BY <1>1, <1>b
    <3>3. buckets'[k].tokens = left /\ buckets'[k].last = now
      BY <1>15
    <3>4. /\ first \in Int /\ first <= buckets'[k].last /\ first + MaxWait <= clock'
          /\ Charged(admits'[k], buckets'[k].tokens, buckets'[k].last, first)
      BY <1>11, <1>b, <3>2, <3>3
    <3>5. \E f \in Int : /\ f <= buckets'[k].last /\ f + MaxWait <= clock'
                         /\ Charged(admits'[k], buckets'[k].tokens, buckets'[k].last, f)
      BY <3>4
    <3>6. buckets'[k].tokens + Earned(newest'[k]) >= Earned(buckets'[k].last)
      BY <1>13, <3>3
    <3>7. buckets'[k].last <= newest'[k] /\ newest'[k] <= buckets'[k].last + MaxWait
      BY <3>1, <3>3
    <3> QED BY <2>1, <3>5, <3>6, <3>7
  <2>2. CASE j # k
    <3>1. j \in DOMAIN buckets /\ j \in ClientKey /\ buckets'[j] = buckets[j]
      BY <1>3, <1>15, <2>2 DEF RateInv, RateTypeOK
    <3>2. clock' = clock /\ admits'[j] = admits[j] /\ newest'[j] = newest[j]
      BY <1>1, <1>14, <2>2, <3>1
    <3>3. BucketInv!(j)
      BY <3>1 DEF RateInv, BucketInv
    <3> QED BY <3>1, <3>2, <3>3
  <2> QED BY <2>1, <2>2
<1>21. SweptInv'
  BY <1>1, <1>3, <1>14, <1>15 DEF SweptInv
<1>22. WindowBound'
  <2> SUFFICES ASSUME NEW j \in ClientKey, NEW x \in admits'[j], NEW z \in admits'[j],
                      x[1] <= z[1]
               PROVE  Silence * Cost * Cardinality({w \in admits'[j] : w[1] \in x[1]..z[1]})
                         <= Silence * Burst * Cost + Supply * (z[1] - x[1])
    BY DEF WindowBound
  <2>1. CASE admits'[j] = admits[j]
    BY <2>1 DEF RateInv, WindowBound
  <2>2. CASE admits'[j] # admits[j]
    <3>1. j = k /\ admitted /\ admits'[k] = admits[k] \cup {y}
      BY <1>1, <1>2, <1>14, <2>2 DEF RateInv, RateTypeOK
    <3>2. x[1] \in Int /\ z[1] \in Int
      BY <1>16, <3>1, TimeIsInt
    <3>3. CASE x[1] <= now /\ now <= z[1]
      BY <1>2, <1>10, <1>11, <1>16, <3>1, <3>3, WindowPaid
    <3>4. CASE ~(x[1] <= now /\ now <= z[1])
      <4>1. x \in admits[k] /\ z \in admits[k]
        BY <1>6, <1>7, <3>1, <3>2, <3>4 DEF y
      <4>2. {w \in admits'[j] : w[1] \in x[1]..z[1]} = {w \in admits[k] : w[1] \in x[1]..z[1]}
        BY <1>6, <1>7, <3>1, <3>2, <3>4
      <4> QED BY <1>2, <4>1, <4>2 DEF RateInv, WindowBound
    <3> QED BY <3>3, <3>4
  <2> QED BY <2>1, <2>2
<1> QED BY <1>17, <1>18, <1>19, <1>20, <1>21, <1>22 DEF RateInv

\* Every step keeps the invariant.
LEMMA RateNextInv == RateInv /\ [RateNext]_rateVars => RateInv'
<1> SUFFICES ASSUME RateInv, [RateNext]_rateVars PROVE RateInv'
  OBVIOUS
<1>a. clock \in Int /\ clock \in Time /\ MaxWait \in Int /\ MaxTime \in Int
  BY TimeIsInt, RateAssumption DEF RateInv, RateTypeOK
<1>1. CASE Advance
  <2>1. /\ clock < MaxTime /\ clock' = clock + 1
        /\ \A r \in Caller : arrived[r] # NoCall => clock < arrived[r].now + MaxWait
        /\ UNCHANGED <<buckets, arrived, calls, admits, newest>>
    BY <1>1 DEF Advance
  <2>2. clock' \in Time
    BY <1>a, <2>1 DEF Time
  <2>3. RateTypeOK'
    BY <2>1, <2>2 DEF RateInv, RateTypeOK
  <2>4. ArrivalInv'
    <3> SUFFICES ASSUME NEW r \in Caller, arrived[r] # NoCall
                 PROVE  arrived[r].now <= clock' /\ clock' <= arrived[r].now + MaxWait
      BY <2>1 DEF ArrivalInv
    <3>1. arrived[r].now \in Int
      BY TimeIsInt DEF RateInv, RateTypeOK
    <3> QED BY <1>a, <2>1, <3>1 DEF RateInv, ArrivalInv
  <2>5. AdmitInv'
    <3>1. \A k \in ClientKey : newest[k] \in Int
      BY KeyTypes DEF RateInv
    <3> QED BY <1>a, <2>1, <3>1 DEF RateInv, AdmitInv, AdmittedAt
  <2>6. BucketInv' /\ WindowBound'
    <3>1. WindowBound'
      BY <2>1 DEF RateInv, WindowBound
    <3>2. BucketInv'
      <4> SUFFICES ASSUME NEW k \in DOMAIN buckets PROVE BucketInv!(k)'
        BY <2>1 DEF BucketInv
      <4>1. PICK first \in Int :
               /\ first <= buckets[k].last /\ first + MaxWait <= clock
               /\ Charged(admits[k], buckets[k].tokens, buckets[k].last, first)
        BY DEF RateInv, BucketInv
      <4>2. first + MaxWait <= clock'
        BY <1>a, <2>1, <4>1
      <4>3. /\ buckets[k].last <= newest[k] /\ newest[k] <= buckets[k].last + MaxWait
            /\ buckets[k].tokens + Earned(newest[k]) >= Earned(buckets[k].last)
        BY DEF RateInv, BucketInv
      <4> QED BY <2>1, <4>1, <4>2, <4>3
    <3> QED BY <3>1, <3>2
  <2>7. SweptInv'
    <3> SUFFICES ASSUME NEW k \in ClientKey \ DOMAIN buckets, NEW t \in Time,
                        Since(admits[k], t) # {}
                 PROVE  Scaled(Price(Cardinality(Since(admits[k], t)))) + Supplied(t)
                           + Supplied(MaxWait) <= Supplied(clock')
      BY <2>1 DEF SweptInv, Idle
    <3> DEFINE c == Price(Cardinality(Since(admits[k], t)))
    <3>1. Scaled(c) + Supplied(t) + Supplied(MaxWait) <= Supplied(clock)
      BY DEF RateInv, SweptInv, Idle
    <3>2. clock' \in Int /\ clock <= clock'
      BY <1>a, <2>1
    <3>3. Supplied(clock) <= Supplied(clock')
      BY <1>a, <3>2, SuppliedLinear
    <3>4. c \in Int
      BY CostIsInt DEF RateInv, AdmitInv
    <3> HIDE DEF c
    <3>5. /\ Scaled(c) \in Int /\ Supplied(t) \in Int /\ Supplied(MaxWait) \in Int
          /\ Supplied(clock) \in Int /\ Supplied(clock') \in Int
      <4>1. t \in Int
        BY TimeIsInt
      <4>2. \A u \in Int : Scaled(u) \in Int /\ Supplied(u) \in Int
        BY ScaledLinear, SuppliedLinear
      <4> QED BY <1>a, <3>2, <3>4, <4>1, <4>2
    <3>6. Scaled(c) + Supplied(t) + Supplied(MaxWait) <= Supplied(clock')
      BY <3>1, <3>3, <3>4, <3>5
    <3> QED BY <3>6 DEF c
  <2> QED BY <2>3, <2>4, <2>5, <2>6, <2>7 DEF RateInv
<1>2. ASSUME NEW r \in Caller, NEW k \in ClientKey, Limit(r, k) PROVE RateInv'
  <2> USE DEF Limit
  <2>1. RateTypeOK'
    BY <1>2, <1>a, RateAssumption DEF RateInv, RateTypeOK
  <2>2. ArrivalInv'
    BY <1>2, <1>a, RateAssumption DEF RateInv, RateTypeOK, ArrivalInv
  <2>3. AdmitInv' /\ BucketInv' /\ SweptInv' /\ WindowBound'
    BY <1>2 DEF RateInv, AdmitInv, AdmittedAt, BucketInv, SweptInv, WindowBound
  <2> QED BY <2>1, <2>2, <2>3 DEF RateInv
<1>3. ASSUME NEW r \in Caller, Allow(r) PROVE RateInv'
  BY <1>3, AllowStep
<1>4. CASE UNCHANGED rateVars
  BY <1>4 DEF rateVars, RateInv, RateTypeOK, ArrivalInv, AdmitInv, AdmittedAt, BucketInv, SweptInv,
     WindowBound
<1> QED BY <1>1, <1>2, <1>3, <1>4 DEF RateNext

\* Every key's admissions, its bucket and its waiting requests stay tied to each other
\* as RateInv says (NewRateLimiter, Limit, Allow, sweepLocked).
THEOREM RateInvariance == RateSpec => []RateInv
BY RateInitInv, RateNextInv, PTL DEF RateSpec

\* In no window of time is a key let through more often than a burst and what it can come
\* by meanwhile, for any rate, burst and number of callers (Allow, sweepLocked): not when
\* requests reach the lock out of order, and not when its bucket is swept and made anew in
\* the middle, also where that happens before the bucket has filled.
THEOREM WindowsAreBounded == RateSpec => []WindowBound
<1>1. RateInv => WindowBound
  BY DEF RateInv
<1> QED BY RateInvariance, <1>1, PTL

\* A request that comes a token's refill after every earlier one of its key is let
\* through, whatever late arrivals have charged the bucket back before.
THEOREM NobodyStarves == RateSpec => NoStarvation
<1>1. ASSUME RateInv, [RateNext]_rateVars
      PROVE [\A r \in Caller :
                /\ arrived[r] # NoCall
                /\ arrived'[r] = NoCall
                /\ Rate * (arrived[r].now - newest[arrived[r].key]) >= Cost
                => admits' # admits]_rateVars
  <2> SUFFICES ASSUME RateNext, NEW r \in Caller,
                      arrived[r] # NoCall, arrived'[r] = NoCall,
                      Rate * (arrived[r].now - newest[arrived[r].key]) >= Cost
               PROVE  admits' # admits
    BY <1>1 DEF rateVars
  <2>1. Allow(r)
    <3>1. ~Advance
      BY DEF Advance
    <3>2. arrived \in [Caller -> [key : ClientKey, now : Time] \cup {NoCall}]
      BY <1>1 DEF RateInv, RateTypeOK
    <3>3. ASSUME NEW q \in Caller, NEW j \in ClientKey, Limit(q, j) PROVE FALSE
      <4>1. q # r
        BY <3>3 DEF Limit
      <4>2. arrived' = [arrived EXCEPT ![q] = [key |-> j, now |-> clock]]
        BY <3>3 DEF Limit
      <4> QED BY <4>1, <4>2, <3>2
    <3>4. ASSUME NEW q \in Caller, Allow(q), q # r PROVE FALSE
      <4>1. arrived' = [arrived EXCEPT ![q] = NoCall]
        BY <3>4 DEF Allow
      <4> QED BY <3>4, <4>1, <3>2
    <3> QED BY <3>1, <3>3, <3>4 DEF RateNext
  <2> DEFINE k == arrived[r].key
             now == arrived[r].now
             y == <<now, Cardinality(AdmittedAt(k, now))>>
  <2>2. k \in ClientKey /\ now \in Time /\ now <= clock /\ clock <= now + MaxWait
    BY <1>1 DEF RateInv, RateTypeOK, ArrivalInv
  <2>3. y \notin admits[k]
    BY <1>1, <2>2, FreshNumber DEF RateInv
  <2>4. TokensFor(k, now) >= Cost
    <3>1. TokensFor(k, now) \in Int /\ Cost \in Int /\ now \in Int /\ newest[k] \in Int
      BY <1>1, <2>2, TokensFound, FullSuffices, TimeIsInt, KeyTypes DEF RateInv
    <3>2. TokensFor(k, now) < Cost => TokensFor(k, now) + Earned(newest[k]) >= Earned(now)
      BY <1>1, <2>2, TokensFound
    <3>3. Earned(now) - Earned(newest[k]) >= Cost
      <4>1. Earned(now - newest[k]) >= Cost
        BY DEF Earned
      <4> QED BY <3>1, <4>1, EarnedLinear
    <3>4. Earned(now) \in Int /\ Earned(newest[k]) \in Int
      BY <3>1, EarnedInt
    <3> HIDE DEF k, now
    <3> QED BY <3>1, <3>2, <3>3, <3>4
  <2>5. admits' = [admits EXCEPT ![k] = @ \cup {y}]
    BY <2>1, <2>4 DEF Allow
  <2>6. y \in admits'[k]
    BY <1>1, <2>2, <2>5 DEF RateInv, RateTypeOK
  <2> QED BY <2>3, <2>6
<1> QED BY RateInvariance, <1>1, PTL DEF RateSpec, NoStarvation

-----------------------------------------------------------------------------
(* The parts beside each other                                             *)

\* What TLC explores, one part after the other, is a behaviour of every part.
LEMMA PartsRun == MCSpec => FedSpec /\ KeySpec /\ SigningSpec /\ RateSpec
<1>1. MCInit => FedInit /\ KeyInit /\ SigningInit /\ RateInit
  BY DEF MCInit
<1>2. [MCNext]_mcVars => /\ [FedNext]_fedVars /\ [KeyNext]_keyVars
                         /\ [SigningNext]_signVars /\ [RateNext]_rateVars
  BY DEF MCNext, mcVars
<1> QED BY <1>1, <1>2, PTL DEF MCSpec, FedSpec, KeySpec, SigningSpec, RateSpec

\* Every part keeps its types: a callback has what its step needs, ages stay within the
\* clamps, verify sets map ids to keys, and a bucket is never overdrawn by more than
\* the refill of the whole time.
THEOREM PartsAreTyped == MCSpec => []TypesOK
<1>1. FedInv => FedTypeOK
  BY DEF FedInv
<1>2. KeyInv => KeyTypeOK
  BY DEF KeyInv
<1>3. SigningInv => SigningTypeOK
  BY DEF SigningInv
<1>4. RateInv => RateTypeOK
  BY DEF RateInv
<1>5. FedTypeOK /\ KeyTypeOK /\ SigningTypeOK /\ RateTypeOK => TypesOK
  BY DEF TypesOK
<1> QED
  BY <1>1, <1>2, <1>3, <1>4, <1>5, PartsRun, FedInvariance, KeyInvariance, SigningInvariance,
     RateInvariance, PTL
=============================================================================
