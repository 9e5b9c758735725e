\* Overlapping visitors and two loops; a touch may be held up for one tick, a
\* loop between its two reads for any number, and the clock be set back by one.
CONSTANTS
    visitor1 = visitor1
    visitor2 = visitor2
    now = now
    profile = profile
    Visitors = {visitor1, visitor2}
    Schedulers = {now, profile}
    IdleThreshold = 2
    Delay = 1
    Skew = 1
SPECIFICATION FairSpec
INVARIANTS
    GateInv
    LostToTheClockOnly
PROPERTIES
    VisitsKeepTicking
    GapsKeepTicking
    IdleParks
    ImplementsVisitGate
