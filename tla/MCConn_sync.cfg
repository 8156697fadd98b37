\* Conn when no cursor query meets an ErrorResponse (QueryMayFail = FALSE): the workload the code handles. Here Conn also refines Session.
CONSTANTS
    s1 = s1
    NoPs = NoPs
    Names <- MCNames
    ExecSql = {"ins", "bad"}
    QuerySql = {"sel", "ins", "selErr"}
    PrepareSql = {"sel", "bad"}
    AuthMethods = {"ok", "md5"}
    UseTLS = FALSE
    TLSAnswers = {"S"}
    AsyncTags = {"A", "N"}
    Faults = {"net", "terminate"}
    MaxCalls = 4
    MaxAsync = 2
    QueryMayFail = FALSE

SPECIFICATION Spec
INVARIANT NoStaleResponse
INVARIANT CommitReportsTrue
PROPERTY ImplementsSession
