\* Conn under the full workload: every statement kind through every API, faults and async messages,
\* with weak fairness of the methods and the server, so that every call also returns.
CONSTANTS
    s1 = s1
    NoPs = NoPs
    Names <- MCNames
    ExecSql = {"ins", "bad"}
    QuerySql = {"sel", "ins", "selErr"}
    PrepareSql = {"sel", "bad"}
    AuthMethods = {"ok", "md5"}
    UseTLS = FALSE
    TLSAnswers = {"S"}
    AsyncTags = {"A", "N"}
    Faults = {"net", "terminate"}
    MaxCalls = 3
    MaxAsync = 2
    QueryMayFail = TRUE

SPECIFICATION FairSpec
INVARIANT TypeOK
INVARIANT NoTimeoutDeath
INVARIANT NotificationOrder
PROPERTY Returns
