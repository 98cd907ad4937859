CONSTANTS
    k_auth = k_auth
    k_other = k_other
    v1 = v1
    v2 = v2
    t_good = t_good
    t_bad = t_bad
    no_token = no_token
    d_short = d_short
    d_default = d_default
    n_small = n_small
    no_size = no_size
    Keys <- MCKeys
    Auth = k_auth
    Values <- MCValues
    Tokens <- MCTokens
    BadTokens <- MCBadTokens
    NoToken = no_token
    Timeouts <- MCTimeouts
    DefaultTimeout = d_default
    MessageSizes <- MCMessageSizes
    NoSize = no_size
    MaxEntries <- MCMaxEntries
    MaxRequests <- MCMaxRequests

SPECIFICATION Spec

INVARIANT BTypeOK
INVARIANT RequestsAuthorized
