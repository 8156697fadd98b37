\* A cursor query that errors (or returns no rows) leaves its ReadyForQuery unread.
CONSTANTS
    s1 = s1
    NoPs = NoPs
    Names <- MCNames
    ExecSql = {"ins", "bad"}
    QuerySql = {"sel", "ins", "selErr"}
    PrepareSql = {"sel", "bad"}
    AuthMethods = {"ok", "md5"}
    UseTLS = FALSE
    TLSAnswers = {"S"}
    AsyncTags = {"A", "N"}
    Faults = {"net", "terminate"}
    MaxCalls = 3
    MaxAsync = 2
    QueryMayFail = TRUE

SPECIFICATION Spec
INVARIANT NoStaleResponse
