SPECIFICATION Spec
CONSTANTS
    Self = Self
    Services = {s1}
    Conns = {c1}
    Threads = 1
    MaxQueue = 2
    MaxPosts = 0
    MaxRestarts = 0
CHECK_DEADLOCK FALSE
INVARIANT IdsAreValid
