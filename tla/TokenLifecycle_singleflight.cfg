\* Three callers meet at refresh_lock; no relink, no symmetry under liveness.
CONSTANTS
    scheduler = scheduler
    visitor = visitor
    admin = admin
    link1 = link1
    link2 = link2
    NoCaller = NoCaller
    Callers = {scheduler, visitor, admin}
    Handlers = {visitor, admin}
    Links = {}
    MaxIssued = 3
    MaxGrants = 1
SPECIFICATION FairSpec
PROPERTIES
    GetTerminates
