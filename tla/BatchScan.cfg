SPECIFICATION MCSpec
CONSTANTS
    MaxCaptures = 2
    MaxReopens = 0
    MaxDeaths = 1
    MaxFaults = 0
INVARIANTS
    OneScreenRegistersOnce
    PictureHasOwner
    SavedNamesScan
    CompletedBatchIsSettled
PROPERTY
    PictureKeptUntilRegistered
CHECK_DEADLOCK FALSE
