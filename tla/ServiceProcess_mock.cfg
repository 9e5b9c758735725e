\* A process with MOCK_DATA and one without, one after the other.
CONSTANTS
    process1 = process1
    process2 = process2
    Processes = {process1, process2}
    NoProcess = NoProcess
    Required = {"DATABASE_URL"}
    Bodies <- MCBodies
SPECIFICATION ProcessSpec
INVARIANTS
    MockTokenNeverSent
