CONSTANTS
    Servers = {s1, s2}
    Clients = {c1, c2}
    NoServer = NoServer
    MaxStale = 2
SPECIFICATION RoutingSpec
SYMMETRY Symmetry
CONSTRAINT Straight
INVARIANTS OneServer PinNamesRoom
