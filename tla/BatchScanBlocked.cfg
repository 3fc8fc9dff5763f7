SPECIFICATION Spec
CONSTANTS
    MaxCaptures = 1
    MaxReopens = 0
    MaxDeaths = 0
    MaxFaults = 0
INVARIANT
    RecoveriesDiscoverable
CHECK_DEADLOCK FALSE
