CONSTANTS
    Users = {u1, u2}
    Reconnecting = {u1}
    Connections = 2
    Sessions <- MCSessions
    UserOf <- MCUserOf
    Rooms = {r1}
    DmRooms = {r1}
    NoUser = NoUser
    NoSession = NoSession
    NoRoom = NoRoom
    RedisFails = TRUE
SPECIFICATION Spec
CONSTRAINT Quiet
INVARIANTS NoDeadHandler RoomsAreOccupied NoForgottenRoom
