SPECIFICATION Spec
CONSTANTS
    alice = alice
    bob = bob
    s1 = s1
    s2 = s2
    dm = dm
    talk = talk
    Users = {alice, bob}
    Servers = {s1, s2}
    NoServer = NoServer
    Rooms = {dm, talk}
    DmRooms = {dm}
    Pair <- MCPair
    Pin <- MCPin
    NoRoom = NoRoom
    HistoryLimit = 1
    MaxMessages = 2
    MaxClicks = 2
    MaxLosses = 1
SYMMETRY Symmetry
INVARIANTS
    LiveOnce
    SenderSees
    JoinedSeeAll
CHECK_DEADLOCK FALSE
