CONSTANTS
  JobIds = {1, 2}
  Scans = {s1, s2}
  Kinds = {k1}
  Outcomes = {"Detected", "ProviderFailed"}
  MaxActive = 2
  MaxAttempts = 2
  BaseDelay = 1
  MaxDelay = 1
  NoTime = NoTime
  Callers = {c1}
  Times = {0, 1}
  LegacyRows = {1}
  SplitApi = FALSE
  MaxRuns = 0
  Idle = Idle
SPECIFICATION FinalizingSpec
INVARIANTS
  OneActiveJobPerScan
  TextOnlyWhenRecognized
  OneRunPerAttempt
  NoTransitionBlockedBySchema
PROPERTIES
  CancellationWins
  AttemptAccounting
  ImplementsLifecycle
