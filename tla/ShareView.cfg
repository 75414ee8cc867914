SPECIFICATION Spec
CONSTANTS
    Users = {alice, bob}
    NoUser = none
    MaxInputs = 5
SYMMETRY Symmetry
ACTION_CONSTRAINTS
    WindowsFirst
    RejoinsFirst
INVARIANTS
    ViewsAgree
    EngineServes
    ConsentNeeded
CHECK_DEADLOCK FALSE
