\* Two calls of get refresh while two OAuth callbacks overlap.  A call of the
\* scheduler is one of a handler that is never dropped.
CONSTANTS
    scheduler = scheduler
    visitor = visitor
    admin = admin
    link1 = link1
    link2 = link2
    NoCaller = NoCaller
    Callers = {visitor, admin}
    Handlers = {visitor, admin}
    Links = {link1, link2}
    MaxIssued = 3
    MaxGrants = 2
SYMMETRY Interchangeable
SPECIFICATION Spec
INVARIANTS
    IInv
    NoFlightWhileLatched
PROPERTIES
    LatchIsWarranted
    BlamesStoredUnlessRelinked
    WithinGrantForward
    ImplementsRefreshCell
