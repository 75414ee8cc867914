SPECIFICATION Spec
CONSTANTS
    Users = {alice, bob}
    NoUser = none
    MaxInputs = 3
SYMMETRY Symmetry
INVARIANT SharerCaptures
CHECK_DEADLOCK FALSE
