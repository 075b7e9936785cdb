\* Two mailboxes and a nameless program; an exit or sock_close() anywhere.
CONSTANTS
    a = a
    b = b
    x = x
    y = y
    Named <- TwoNamed
    Nameless <- TwoNameless
    Anonymous = Anonymous
    MaxConns = 3
    MaxSends = 3
    Casts <- ThreeCasts
    MaxFaults = 1
SPECIFICATION FairSpec
INVARIANTS EntriesOwnTheirConnections OrderedOnce NothingLostWhileCalm
PROPERTY AcceptedArrives
CHECK_DEADLOCK FALSE
