\* Any line may arrive in pieces.
CONSTANTS
    a = a
    b = b
    Clients = {a, b}
    LockStep <- OneLockStep
    Cap = 10
    Window = 5
    LineLens <- WholeLens
    MaxLines = 3
    Splittable <- AnyLine
    LF = LF
    NUL = NUL
    Junk = Junk
SPECIFICATION FairReaderSpec
INVARIANT PartialNeverExecuted
CHECK_DEADLOCK FALSE
