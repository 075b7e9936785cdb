\* Two programs, four process ids; four commands or starts of procman.
CONSTANTS
    vaned = vaned
    ibob = ibob
    Programs <- TwoPrograms
    Pids = {1, 2, 3, 4}
    Free = Free
    Stranger = Stranger
    MaxDeaths = 1
    MaxCrashes = 1
    MaxStrangers = 1
    MaxCommands = 4
SPECIFICATION FairSpec
INVARIANTS TypeOK  StrangersSpared
 
CHECK_DEADLOCK FALSE
