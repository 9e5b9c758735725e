\* Two calls share a limiter with one permit: two backoff retries a run, with
\* doubling delays and jitter; a Retry-After of use, of none, and above the cap.
CONSTANTS
    call1 = call1
    call2 = call2
    Calls = {call1, call2}
    MaxRetries = 2
    Base = 1
    JitterMax = 1
    Second = 1
    WaitCap = 2
    RetryAfters = {0, 2, 4}
    Period = 2
    Burst = 1
    Window = 2
SPECIFICATION ClientFairSpec
INVARIANTS
    ClientInv
    GovernorInv
    PacingBound
    SleepBounded
    AttemptsBounded
    ServerErrorExhausted
PROPERTIES
    PacedTraffic
    CallTerminates
    WaitsBeforeResend
