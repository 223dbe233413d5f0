SPECIFICATION Spec
CONSTANTS
    k1 = k1
    k2 = k2
    alice = alice
    bob = bob
    h1 = h1
    h2 = h2
    None = None
    Keys = {k1, k2}
    Owners = {alice}
    Requests <- TwoKeys
    Handles = {h1, h2}
    Conns = {1, 2}
    CallIds = {1, 2}
    MaxPosted = 1
    MaxGen = 1
    Faults = {"close", "reconnect"}
SYMMETRY HandleSymmetry
INVARIANTS OneConnectionOnItsWay
PROPERTIES CoverIsKept
