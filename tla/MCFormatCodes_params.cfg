\* Prepare keeps every parameter OID the server describes, for counts up to 65535;
\* the counts around the signed 16-bit boundary.
CONSTANTS
    ParamCounts = {0, 1, 32767, 32768, 65535}
    Width = 8
    MaxCount = 0
SPECIFICATION MCSpec
INVARIANT PrepareKeepsParams
