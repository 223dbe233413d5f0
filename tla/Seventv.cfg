SPECIFICATION Spec
CONSTANTS
    None = None
    Listed = {t1, t2}
    Anonymous = {}
    Kick = {k1}
    Users = {u1}
    Sets = {s1, s2}
    MaxPushes = 2
SYMMETRY Symmetry
INVARIANTS TypeOK NothingLingers
PROPERTIES ListedAreServed
CHECK_DEADLOCK FALSE
