\* The flag against the stored record.
CONSTANTS
    scheduler = scheduler
    visitor = visitor
    admin = admin
    link1 = link1
    link2 = link2
    NoCaller = NoCaller
    Callers = {scheduler}
    Handlers = {}
    Links = {link1}
    MaxIssued = 3
    MaxGrants = 2
SPECIFICATION Spec
PROPERTIES
    LatchBlamesStored
