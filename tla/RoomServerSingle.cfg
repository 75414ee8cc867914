CONSTANTS
    Users = {u1, u2, u3}
    Reconnecting = {}
    Connections = 1
    Sessions <- MCSessions
    UserOf <- MCUserOf
    Rooms = {r1}
    DmRooms = {r1}
    NoUser = NoUser
    NoSession = NoSession
    NoRoom = NoRoom
    RedisFails = FALSE
SPECIFICATION Spec
SYMMETRY UserSymmetry
INVARIANTS OwnersAreMembers RoomsAgree PresenceExact
PROPERTIES NoTakeover ImplementsFloor
