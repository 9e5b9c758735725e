\* Two logins, two callback handlers; the third tick after an issue is past its
\* expiry, and the browsers repeat their callbacks at will.
CONSTANTS
    state1 = state1
    state2 = state2
    callback1 = callback1
    callback2 = callback2
    NoState = NoState
    visitor = visitor
    NoCaller = NoCaller
    Callers = {visitor}
    Handlers = {visitor}
    States = {state1, state2}
    Callbacks = {callback1, callback2}
    Ttl = 2
    Forget = 3
    MaxIssued = 2
    MaxGrants = 2
SYMMETRY Interchangeable
SPECIFICATION FlowSpec
INVARIANTS
    PendingInv
    SingleUse
    OneCallbackPerLogin
PROPERTIES
    NoneLate
    ImplementsLifecycle
