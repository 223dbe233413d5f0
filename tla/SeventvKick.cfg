SPECIFICATION Spec
CONSTANTS
    None = None
    Listed = {t1, t2}
    Anonymous = {}
    Kick = {k1}
    Users = {u1}
    Sets = {s1, s2}
    MaxPushes = 0
SYMMETRY Symmetry
INVARIANTS EveryChannelIsServed
CHECK_DEADLOCK FALSE
