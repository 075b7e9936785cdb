\* Four commands: a stop and a restart between points; two failures anywhere.
CONSTANTS
    Settings = {"PREDEL"}
    Values = {0, 5}
    MaxQueue = 2
    MaxCommands = 4
    MaxFailures = 2
SPECIFICATION IfSpec
INVARIANTS IfTypeOK PhasesInStep PointsFresh
\* The program may exit.
CHECK_DEADLOCK FALSE
