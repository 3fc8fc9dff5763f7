\* A scan of two assets with two mishaps; three scans of a page; two jobs in a
\* queue of one; catalogs of up to three migrations, the second with a guard.
SPECIFICATION MCSpec
CONSTANTS
    ScanAssets = 2
    MaxMishaps = 2
    MaxScans = 3
    MaxEvents = 5
    MaxItems = 2
    Versions = 3
    Guarded = 2
    JobIds = {1, 2}
    OcrScans = {s1, s2}
    OcrKinds = {k1}
    Outcomes = {"Detected", "ProviderFailed"}
    NoTime = NoTime
    Callers = {c1}
    NoCall = NoCall
    Absent = Absent
    Width = 2
    Height = 3
    Libraries <- Compared
    Thresholds <- AnyThreshold
    None = None
    Requests <- AnyRequest
    Outputs <- Answers
    Times <- Moments
    MaxAttempts = 2
    MaxErrorBytes = 1
    LabelBytes = 1
    TagBytes = 1
    CodeBytes = 1
    Checksum <- Crc
    KnownLayouts <- AnyLayout
    NotGiven = NotGiven
INVARIANTS
    RegisteredIsIntact
    ReportsAreTrue
    InterruptedIsVisible
    OnePreferredScan
    LogTellsHistory
    RecognizedHasText
    SchemaIsHistory
    ComparisonIsTrue
    RecordIsSound
CHECK_DEADLOCK FALSE
