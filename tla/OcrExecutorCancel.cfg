CONSTANTS
  JobIds = {1, 2}
  Scans = {1, 2}
  Kinds = {k1}
  Outcomes = {"Detected", "ProviderFailed"}
  MaxActive = 2
  MaxAttempts = 2
  BaseDelay = 1
  MaxDelay = 1
  NoTime = NoTime
  Scenarios = {{"register", "runtimeCancel"}}
  LegacyJobs = {}
  RecoveryDelay = 1
  Horizon = 1
  MaxStale = 0
  MaxFaults = 0
  NoJob = NoJob
SPECIFICATION Spec
INVARIANTS
  OnlyRequestedJobsAreCancelled
