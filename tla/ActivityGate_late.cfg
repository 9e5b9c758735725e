\* A task may be held up for one tick between its two reads.
CONSTANTS
    visitor1 = visitor1
    visitor2 = visitor2
    now = now
    profile = profile
    Visitors = {visitor1, visitor2}
    Schedulers = {now}
    IdleThreshold = 2
    Delay = 1
    Skew = 0
SPECIFICATION Spec
INVARIANTS
    NoLostWakeUp
