\* Every parameter is encoded in the format its Bind format code announces, and
\* RowsAffected returns the server's count for every tag up to the largest unclamped value.
CONSTANTS
    ParamCounts = {0, 1, 32767, 32768, 65535}
    Width = 8
    MaxCount = 127
SPECIFICATION MCSpec
INVARIANT BindFormatsAgree
INVARIANT RowsAffectedIsCount
