\* Two labels, two integrations, three commands, one lost packet.
CONSTANTS
    Labels = 2
    Integration = 2
    Sky = Sky
    Hot = Hot
    Nothing = Nothing
    MaxQueue = 1
    MaxLost = 1
    MaxCommands = 3
    IbobCommands <- SomeIbobCommands
    VaneCommands <- SomeVaneCommands
    Spectra = 2
SPECIFICATION FairSpec
INVARIANTS TypeOK 
PROPERTIES  CommandsHandled
\* The program may exit.
CHECK_DEADLOCK FALSE
