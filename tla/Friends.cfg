SPECIFICATION Spec
CONSTANTS
    Users = {alice, bob}
    NoUser = NoUser
    MaxRequests = 5
INVARIANTS
    Mutual
    FriendsShown
PROPERTY
    RequestsEnd
CHECK_DEADLOCK FALSE
