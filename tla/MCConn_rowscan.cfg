\* QueryRow of a statement whose answer fails after its first row
\* (DataRow, then ErrorResponse, then ReadyForQuery): does Row.Scan read the
\* answer to its ReadyForQuery before returning?
CONSTANTS
    s1 = s1
    NoPs = NoPs
    Names <- MCNames
    ExecSql = {"ins"}
    QuerySql = {"selErr"}
    PrepareSql = {"sel"}
    AuthMethods = {"ok"}
    UseTLS = FALSE
    TLSAnswers = {"S"}
    AsyncTags = {}
    Faults = {}
    MaxCalls = 3
    MaxAsync = 0
    QueryMayFail = TRUE

SPECIFICATION Spec
PROPERTY RowScanDrains
