\* One picture, one answer to the recovery dialog and one trouble on the screen;
\* two pages before the auto-capture machine; three frames for a scheduler; two codes in
\* view and one picture for the policy session; two native calls.
SPECIFICATION MCSpec
CONSTANTS
    Pages = {p1}
    NoPage = NoPage
    StableInterval = 1
    MaximumGap = 1
    RepeatDebounce = 1
    MaxCaptures = 1
    MaxDialogs = 1
    MaxTroubles = 1
    MaxJobs = 3
    ViewedPages = {p1, p2}
    MaxTime = 3
    MaxGeneration = 2
    MaxRequests = 2
    MaxWarnings = 1
    MaxFrames = 3
    MaxCancels = 2
    Notebooks = {n1, n2}
    Policies = {q1, q2}
    NoPolicy = NoPolicy
    NoNotebook = NoNotebook
    MaxCameraGeneration = 2
    MaxCodes = 2
    Callers = {c1, c2}
    Side = 10
    Out = 4
    Inset = 1
    MaxBytes = 1
    MaxPixels = 100
    MaxDecoded = 300
    MaxOutPixels = 16
    MaxOutBytes = 48
    MaxImagePixels = 16
    MaxImageBytes = 48
    MaxTotalBytes = 96
    MaxWorkingBytes = 160
    ThumbWidth = 2
    ThumbHeight = 3
    SharpenPasses = 1
    Width = 4
    Height = 3
    TileColumns = 2
    TileRows = 2
    Luminances = {20, 70, 120}
    DarkCutoff = 32
    HighlightCutoff = 110
    NotMeasured = NotMeasured
INVARIANTS
    RegisteredOnce
    NoFrameForgotten
    PolicyIsOfThisView
    MemoryIsSafe
    PageIsInPicture
    ApprovedIsRegistered
    VerdictFollowsPicture
PROPERTIES
    AutoCaptureIsEarned
    OneOutcomePerRequest
    CancelledIsDiscarded
CHECK_DEADLOCK FALSE
