\* One caller through a pool of size 2: every way a cursor ends, with link failures, releases its connection correctly.
CONSTANTS
    c1 = c1
    c2 = c2
    k1 = k1
    k2 = k2
    k3 = k3
    NoConn = NoConn
    Callers <- MCCallers1
    ConnIds <- MCConnIds
    MaxSize = 2
    MaxRows = 1
    Queries = 2
    MaxBreaks = 2

SPECIFICATION Spec
INVARIANT ReleasedOnce
INVARIANT NoLeak
