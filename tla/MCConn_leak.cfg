\* Connect fails on an unsupported authentication method and leaves the socket open.
CONSTANTS
    s1 = s1
    NoPs = NoPs
    Names <- MCNames
    ExecSql = {"ins", "bad"}
    QuerySql = {"sel", "ins", "selErr"}
    PrepareSql = {"sel", "bad"}
    AuthMethods = {"ok", "other"}
    UseTLS = FALSE
    TLSAnswers = {"S"}
    AsyncTags = {"A", "N"}
    Faults = {"net", "terminate"}
    MaxCalls = 3
    MaxAsync = 2
    QueryMayFail = TRUE

SPECIFICATION Spec
INVARIANT FailedConnectCloses
