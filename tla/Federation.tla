------------------------------ MODULE Federation ------------------------------
(***************************************************************************)
(* Logins with an external provider: the redirect with its two cookies,    *)
(* the provider's approval, and the callback that redeems the code.        *)
(*                                                                         *)
(* The server keeps nothing between start and callback; what ties them     *)
(* together is in the browser's cookies.  A login stands for its state     *)
(* and its secret, both random.  A browser may come back with any code and *)
(* state it was sent to, late, twice or from a link made elsewhere.        *)
(***************************************************************************)
EXTENDS Naturals, FiniteSets

CONSTANTS
    Browser,
    Provider,
    PKCE,        \* providers bound by PKCE (Zalo); the others sign an id_token
    Registered,  \* rows of auth_providers
    Account,     \* accounts people have with the providers
    Login,       \* bound: logins ever started
    Request,     \* callbacks running at once
    MaxCode,     \* bound: codes ever handed out
    NULL

ASSUME ProviderAssumption == PKCE \subseteq Provider /\ Registered \subseteq Provider
ASSUME CodeBoundAssumption == MaxCode \in Nat
ASSUME FedNullAssumption ==
    /\ NULL \notin Login \cup Provider \cup Account \cup Browser
    /\ NULL \notin [browser : Browser, provider : Provider]
    /\ NULL \notin [provider : Provider, login : Login, account : Account]

VARIABLES
    connectors,  \* providers the process serves
    attempt,     \* history: who started which login where
    cState,      \* laplat_oidc_state of each browser
    cSecret,     \* laplat_oidc_secret of each browser
    codes,       \* codes the providers handed out
    spent,       \* codes that were redeemed
    sessions,    \* sessions that reached a browser
    answered,    \* history: logins whose callback was answered to a browser
    redeemed,    \* history: on whose behalf, with which state, codes were redeemed
    pc, hBrowser, hProvider, hCode, hState, hSecret

cookieVars == <<cState, cSecret>>
providerVars == <<codes, spent>>
historyVars == <<attempt, answered, redeemed>>
localVars == <<hBrowser, hProvider, hCode, hState, hSecret>>
fedVars == <<connectors, cookieVars, providerVars, historyVars, sessions, pc, localVars>>

Code == [provider : Provider, login : Login, account : Account]

FedTypeOK ==
    /\ connectors \subseteq Provider
    /\ attempt \in [Login -> [browser : Browser, provider : Provider] \cup {NULL}]
    /\ cState \in [Browser -> Login \cup {NULL}]
    /\ cSecret \in [Browser -> Login \cup {NULL}]
    /\ spent \subseteq codes
    /\ codes \subseteq Code
    /\ sessions \subseteq [browser : Browser, provider : Provider, account : Account]
    /\ answered \subseteq Browser \X Login
    /\ redeemed \subseteq Browser \X Login
    /\ pc \in [Request -> {"idle", "exchange", "verify", "userinfo", "issue", "refuse"}]
    /\ hBrowser \in [Request -> Browser \cup {NULL}]
    /\ hProvider \in [Request -> Provider \cup {NULL}]
    /\ hCode \in [Request -> Code \cup {NULL}]
    /\ hState \in [Request -> Login \cup {NULL}]
    /\ hSecret \in [Request -> Login \cup {NULL}]
    /\ \A r \in Request : pc[r] # "idle" =>
         NULL \notin {hBrowser[r], hProvider[r], hCode[r], hState[r], hSecret[r]}

FedInit ==
    /\ connectors = {}
    /\ attempt = [l \in Login |-> NULL]
    /\ cState = [b \in Browser |-> NULL]
    /\ cSecret = [b \in Browser |-> NULL]
    /\ codes = {}
    /\ spent = {}
    /\ sessions = {}
    /\ answered = {}
    /\ redeemed = {}
    /\ pc = [r \in Request |-> "idle"]
    /\ hBrowser = [r \in Request |-> NULL]
    /\ hProvider = [r \in Request |-> NULL]
    /\ hCode = [r \in Request |-> NULL]
    /\ hState = [r \in Request |-> NULL]
    /\ hSecret = [r \in Request |-> NULL]

-----------------------------------------------------------------------------
(* Start-up, the redirect and the provider                                 *)

\* buildFederation fails unless every configured connector is registered.
ConfiguredProviders(C) == C \subseteq Registered

\* The process starts with the connectors of its configuration.
BuildFederation(C) ==
    /\ connectors = {}
    /\ ConfiguredProviders(C)
    /\ connectors' = C
    /\ UNCHANGED <<cookieVars, providerVars, historyVars, sessions, pc, localVars>>

\* handleOIDCStart: a fresh state and secret go into the browser's cookies.
Start(b, p, l) ==
    /\ p \in connectors
    /\ attempt[l] = NULL
    /\ attempt' = [attempt EXCEPT ![l] = [browser |-> b, provider |-> p]]
    /\ cState' = [cState EXCEPT ![b] = l]
    /\ cSecret' = [cSecret EXCEPT ![b] = l]
    /\ UNCHANGED <<connectors, providerVars, answered, redeemed, sessions, pc, localVars>>

\* A cookie expires or is dropped.
LoseCookie(b) ==
    /\ \/ cState' = [cState EXCEPT ![b] = NULL] /\ UNCHANGED cSecret
       \/ cSecret' = [cSecret EXCEPT ![b] = NULL] /\ UNCHANGED cState
    /\ UNCHANGED <<connectors, providerVars, historyVars, sessions, pc, localVars>>

\* Somebody who followed the redirect of login l approves it with an account.
Approve(l, x) ==
    /\ attempt[l] # NULL
    /\ Cardinality(codes) < MaxCode
    /\ codes' = codes \cup
         {[provider |-> attempt[l].provider, login |-> l, account |-> x]}
    /\ UNCHANGED <<connectors, cookieVars, spent, historyVars, sessions, pc, localVars>>

-----------------------------------------------------------------------------
(* handleOIDCCallback                                                      *)

StateMatches(b, s) == cState[b] = s

\* Federation.Complete: an unknown provider in the path is refused like the rest.
Complete(p) == IF p \in connectors THEN "exchange" ELSE "refuse"

\* Mutant: only the state cookie must be there.
CallbackNoSecret(r, b, p, c, s) ==
    /\ pc[r] = "idle"
    /\ connectors # {}
    /\ StateMatches(b, s)
    /\ pc' = [pc EXCEPT ![r] = Complete(p)]
    /\ hBrowser' = [hBrowser EXCEPT ![r] = b]
    /\ hProvider' = [hProvider EXCEPT ![r] = p]
    /\ hCode' = [hCode EXCEPT ![r] = c]
    /\ hState' = [hState EXCEPT ![r] = s]
    /\ hSecret' = [hSecret EXCEPT ![r] = cSecret[b]]
    /\ UNCHANGED <<connectors, cookieVars, providerVars, historyVars, sessions>>

\* The query carries a code and a state; both cookies must be there.  The routes
\* exist once a connector does.
Callback(r, b, p, c, s) ==
    /\ pc[r] = "idle"
    /\ connectors # {}
    /\ StateMatches(b, s)
    /\ cSecret[b] # NULL
    /\ pc' = [pc EXCEPT ![r] = Complete(p)]
    /\ hBrowser' = [hBrowser EXCEPT ![r] = b]
    /\ hProvider' = [hProvider EXCEPT ![r] = p]
    /\ hCode' = [hCode EXCEPT ![r] = c]
    /\ hState' = [hState EXCEPT ![r] = s]
    /\ hSecret' = [hSecret EXCEPT ![r] = cSecret[b]]
    /\ UNCHANGED <<connectors, cookieVars, providerVars, historyVars, sessions>>

\* The provider takes its own code once, and with PKCE only with the verifier
\* whose hash came with the redirect.
ProviderAccepts(r) ==
    /\ hCode[r].provider = hProvider[r]
    /\ hCode[r] \notin spent
    /\ hProvider[r] \in PKCE => hSecret[r] = hCode[r].login

\* The provider takes the code; its reply brings the caller to step, or is lost.
Redeem(r, step) ==
    /\ pc[r] = "exchange"
    /\ ProviderAccepts(r)
    /\ spent' = spent \cup {hCode[r]}
    /\ redeemed' = redeemed \cup {<<hBrowser[r], hState[r]>>}
    /\ \E s \in {step, "refuse"} : pc' = [pc EXCEPT ![r] = s]
    /\ UNCHANGED <<connectors, cookieVars, codes, attempt, answered, sessions, localVars>>

\* For an id_token, which must still be verified.
OIDCExchange(r) == hProvider[r] \notin PKCE /\ Redeem(r, "verify")

\* For an access token, with the verifier.
PKCEExchange(r) == hProvider[r] \in PKCE /\ Redeem(r, "userinfo")

\* UserInfo.Subject: the access token names the account, or the call fails.
UserInfo(r) ==
    /\ pc[r] = "userinfo"
    /\ \E s \in {"issue", "refuse"} : pc' = [pc EXCEPT ![r] = s]
    /\ UNCHANGED <<connectors, cookieVars, providerVars, historyVars, sessions, localVars>>

\* The provider refuses the code or is not reached.
ExchangeFails(r) ==
    /\ pc[r] = "exchange"
    /\ pc' = [pc EXCEPT ![r] = "refuse"]
    /\ UNCHANGED <<connectors, cookieVars, providerVars, historyVars, sessions, localVars>>

\* Mutant: the nonce of the token is not compared.
NonceMatchesAny(r) == TRUE

NonceMatches(r) == hCode[r].login = hSecret[r]

\* The token is the provider's own: its issuer, audience and signature are right.
\* Its key may be unknown to the cache, or its time be over.
Verify(r) ==
    /\ pc[r] = "verify"
    /\ \/ NonceMatches(r) /\ pc' = [pc EXCEPT ![r] = "issue"]
       \/ pc' = [pc EXCEPT ![r] = "refuse"]
    /\ UNCHANGED <<connectors, cookieVars, providerVars, historyVars, sessions, localVars>>

\* Mutant: cookies are cleared when the login succeeds.
ClearCookiesOnSuccess(r) ==
    IF pc[r] = "issue"
    THEN /\ cState' = [cState EXCEPT ![hBrowser[r]] = NULL]
         /\ cSecret' = [cSecret EXCEPT ![hBrowser[r]] = NULL]
    ELSE UNCHANGED cookieVars

\* One-shot cookies go with every answer, whatever they hold by then.
ClearCookies(r) ==
    /\ cState' = [cState EXCEPT ![hBrowser[r]] = NULL]
    /\ cSecret' = [cSecret EXCEPT ![hBrowser[r]] = NULL]

FedReturn(r) ==
    /\ pc' = [pc EXCEPT ![r] = "idle"]
    /\ hBrowser' = [hBrowser EXCEPT ![r] = NULL]
    /\ hProvider' = [hProvider EXCEPT ![r] = NULL]
    /\ hCode' = [hCode EXCEPT ![r] = NULL]
    /\ hState' = [hState EXCEPT ![r] = NULL]
    /\ hSecret' = [hSecret EXCEPT ![r] = NULL]

SessionOf(r) ==
    [browser |-> hBrowser[r], provider |-> hProvider[r], account |-> hCode[r].account]

\* The answer reaches the browser, with a session or without.
Respond(r) ==
    /\ \/ pc[r] = "issue" /\ sessions' = sessions \cup {SessionOf(r)}
       \/ pc[r] = "refuse" /\ UNCHANGED sessions
    /\ ClearCookies(r)
    /\ answered' = answered \cup {<<hBrowser[r], hState[r]>>}
    /\ FedReturn(r)
    /\ UNCHANGED <<connectors, providerVars, attempt, redeemed>>

\* The browser is gone, or the process is: the answer is lost.
LoseAnswer(r) ==
    /\ pc[r] # "idle"
    /\ FedReturn(r)
    /\ UNCHANGED <<connectors, cookieVars, providerVars, historyVars, sessions>>

-----------------------------------------------------------------------------
FedNext ==
    \/ \E C \in SUBSET Provider : BuildFederation(C)
    \/ \E b \in Browser :
         \/ \E p \in Provider, l \in Login : Start(b, p, l)
         \/ LoseCookie(b)
    \/ \E l \in Login, x \in Account : Approve(l, x)
    \/ \E r \in Request :
         \/ \E b \in Browser, p \in Provider, c \in codes, s \in Login :
              Callback(r, b, p, c, s)
         \/ OIDCExchange(r) \/ PKCEExchange(r) \/ ExchangeFails(r)
         \/ Verify(r) \/ UserInfo(r) \/ Respond(r) \/ LoseAnswer(r)

FedSpec == FedInit /\ [][FedNext]_fedVars

-----------------------------------------------------------------------------
(* Properties                                                              *)

\* A session in a browser is for an account that was approved in a login which this
\* very browser started with that provider, whatever codes, states and callback
\* paths are mixed up (handleOIDCCallback, Provider.Verify, PKCE).
SessionMatchesLogin ==
    \A s \in sessions :
        \E c \in codes :
            /\ c.provider = s.provider
            /\ c.account = s.account
            /\ attempt[c.login] = [browser |-> s.browser, provider |-> s.provider]

\* No code is redeemed for a redirect that the browser did not ask for: the state it
\* came back with is that of a login it started (the CSRF check of the callback).
OnlyOwnRedirect ==
    \A x \in redeemed : attempt[x[2]] # NULL /\ attempt[x[2]].browser = x[1]

\* Once a callback was answered, for better or worse, the same login cannot be
\* brought back to that browser: the cookies are one-shot (clearOIDCCookie).
OneShot ==
    [][\A r \in Request : pc[r] = "idle" /\ pc'[r] # "idle"
         => <<hBrowser'[r], hState'[r]>> \notin answered]_fedVars

\* A callback does nothing for a browser beyond what that browser asked for: no code is
\* redeemed for a foreign redirect and no session comes of a foreign login, whatever
\* codes, states and paths are mixed up (handleOIDCCallback).
CallbackBinds == SessionMatchesLogin /\ OnlyOwnRedirect
=============================================================================
