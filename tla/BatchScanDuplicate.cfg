SPECIFICATION Spec
CONSTANTS
    MaxCaptures = 1
    MaxReopens = 1
    MaxDeaths = 0
    MaxFaults = 0
INVARIANT
    NoDuplicateRegistration
CHECK_DEADLOCK FALSE
