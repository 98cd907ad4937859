CONSTANTS
    MaxConfigs <- MCMaxConfigs
    ReqCap <- MCReqCap
    RespCap <- MCRespCap
    PerStream <- MCPerStream
    MaxTimeouts <- MCMaxTimeouts

SPECIFICATION Spec

INVARIANT CTypeOK
INVARIANT StaleNeverYielded
PROPERTY ForwardedConfigurationServed
