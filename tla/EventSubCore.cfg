SPECIFICATION Spec
CONSTANTS
    k1 = k1
    k2 = k2
    alice = alice
    bob = bob
    h1 = h1
    h2 = h2
    None = None
    Keys = {k1}
    Owners = {alice}
    Requests <- OneRequest
    Handles = {h1, h2}
    Conns = {1, 2}
    CallIds = {1, 2}
    MaxPosted = 2
    MaxGen = 1
    Faults = {"refuse", "lose", "close", "reconnect", "quit"}
SYMMETRY HandleSymmetry
INVARIANTS TypeOK RefCountIsHandles
PROPERTIES IdsAreDeleted
CHECK_DEADLOCK FALSE
