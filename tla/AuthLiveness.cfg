\* Two refresh tokens, so one chain or two families; room for two bumps, so that two
\* revocations of every row of the account run at once.
SPECIFICATION FairSpec
CONSTANTS
    User = {u1}
    Token = {t1, t2}
    Handler = {h1, h2}
    MaxVersion = 2
    MaxRows = 2
    NULL = NULL
ACTION_CONSTRAINT OnlyRequests
CHECK_DEADLOCK FALSE
PROPERTIES
    EveryRequestReturns
