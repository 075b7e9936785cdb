\* Two clients, one of them in lock step, whole lines of 1 and 2 characters.
CONSTANTS
    a = a
    b = b
    Clients = {a, b}
    LockStep <- OneLockStep
    Cap = 10
    Window = 5
    LineLens <- WholeLens
    MaxLines = 3
    Splittable <- FirstLine
    LF = LF
    NUL = NUL
    Junk = Junk
SPECIFICATION FairReaderSpec
INVARIANTS LinesInOrder BytesConserved
PROPERTIES  LockStepServed
CHECK_DEADLOCK FALSE
