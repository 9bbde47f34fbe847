--------------------------- MODULE MCAuthSessions ---------------------------
(* Instances of AuthSessions for TLC. *)
EXTENDS AuthSessions, TLC

CONSTANT MaxRows  \* bound: refresh tokens once one expired or a generation was bumped

\* Long chains of refresh tokens are followed up to the first bump or expiry, later
\* generations of access tokens and expired rows with fewer of them.
LongChainOrGenerations ==
    \/ Cardinality(rows) <= MaxRows
    \/ expired = {} /\ \A u \in User : tokenVersion[u] = 0

\* The environment of the liveness instance: what happens beside the requests neither
\* lets a refresh token expire nor activates an account.  No step of a request does
\* either, so nothing a fair request may do is cut off.
OnlyRequests == expired' = expired /\ \A u \in User : status'[u] # "active"

\* Tokens and handlers are interchangeable.
Interchangeable == Permutations(Token) \cup Permutations(Handler)
=============================================================================
