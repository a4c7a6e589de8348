SPECIFICATION Spec
CONSTANTS
    s1 = s1
    c1 = c1
    c2 = c2
    c3 = c3
    Openers = {s1}
    Closers = {c1, c2, c3}
    NumSockets = 4
    MaxSocket = 2
SYMMETRY Symmetry
INVARIANT OneOwner
INVARIANT OwnGroup
INVARIANT NothingLost
