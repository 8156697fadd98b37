\* Two callers through a pool of size 1: a caller finishing close() after its Release clobbers the next borrower's cursor.
CONSTANTS
    c1 = c1
    c2 = c2
    k1 = k1
    k2 = k2
    k3 = k3
    NoConn = NoConn
    Callers <- MCCallers2
    ConnIds <- MCConnIds
    MaxSize = 1
    MaxRows = 1
    Queries = 2
    MaxBreaks = 2

SPECIFICATION Spec
INVARIANT NoTruncation
