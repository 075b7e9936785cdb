\* Three commands, one failed write, reset or lost report.
CONSTANTS
    Commands <- SomeCommands
    Tunings = {95000}
    Biases = {0, 5}
    None = None
    MaxPending = 2
    MaxReports = 1
    MaxFaults = 1
    MaxCommands = 3
SPECIFICATION FairSpec
INVARIANTS InstrumentsAgree BiasFollows
 
CHECK_DEADLOCK FALSE
