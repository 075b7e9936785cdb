\* Three connections over two slots and three descriptors.
CONSTANTS
    c1 = c1
    c2 = c2
    c3 = c3
    Conns <- ThreeConns
    MaxClients = 2
    Fds = {6, 7, 8}
    FirstFd = 6
    Msgs <- AllMsgs
    MaxInbox = 1
    MaxSends = 1
    NoFd = NoFd
    Free = Free
    Leaked = Leaked
SPECIFICATION FairSpec
INVARIANTS TypeOK TableConsistent ReadNeverBlocks AtMostOneLateFrame
PROPERTIES ClosedForCauseWhileAllLive 
CHECK_DEADLOCK FALSE
