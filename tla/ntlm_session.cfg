SPECIFICATION Spec
CONSTANTS
    t1 = t1
    t2 = t2
    alice = alice
    bob = bob
    Callers = {t1, t2}
    Users = {alice, bob}
    Modes = {TRUE, FALSE}
    MaxPosts = 3
INVARIANTS
    TypeOK
    RightIdentity
    RetryOnlyUnanswered
    InStep
PROPERTIES
    PostAdvances
CHECK_DEADLOCK FALSE
SYMMETRY SharerSymmetry
