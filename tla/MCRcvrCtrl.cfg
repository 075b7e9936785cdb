\* Three commands; limits 2 and 4 on a scale of 0 to 6; a DAC of one bit below the channel's.
CONSTANTS
    Top = 6
    Lower = 2
    Upper = 4
    Step = 1
    Bump = 1
    Near = 0
    Close = 1
    MaxPolls = 2
    Width = 2
    Bits = {0, 1}
    Frames <- SomeFrames
    Lines <- SomeLines
    MaxQueue = 1
    MaxCommands = 3
SPECIFICATION FairSpec
INVARIANTS TypeOK OneMotorDriven
PROPERTIES MoveContained 
