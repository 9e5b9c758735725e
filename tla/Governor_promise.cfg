\* The production quota against 30 requests in 30 s.
CONSTANTS
    Period = 3
    Burst = 20
    Window = 60
SPECIFICATION GovernorSpec
INVARIANTS
    ThirtyPerThirtySeconds
