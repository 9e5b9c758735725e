\* Two processes with any environment; Required stands for the six variables.
CONSTANTS
    process1 = process1
    process2 = process2
    Processes = {process1, process2}
    NoProcess = NoProcess
    Required = {"DATABASE_URL"}
    Bodies <- MCBodies
SPECIFICATION ProcessSpec
INVARIANTS
    ProcessInv
    OnePoller
    ListensReady
    PayloadWhole
