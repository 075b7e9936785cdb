\* Two scans fill the directory's own record; two more are taken after them.
\* Scans fill one record, or need two and are filled up.
CONSTANTS
    DirRecs = 1
    PerRec = 2
    Header = 1
    Lengths = {1, 2}
    MaxRecords = 10
    MaxCalls = 4
    MaxFaults = 2
SPECIFICATION Spec
INVARIANTS  VerifyFindsLast
\* The calls come to an end.
CHECK_DEADLOCK FALSE
