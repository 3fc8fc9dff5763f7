CONSTANTS
  JobIds = {1}
  Scans = {1}
  Kinds = {k1}
  Outcomes = {"Detected", "ProviderFailed"}
  MaxActive = 2
  MaxAttempts = 2
  BaseDelay = 1
  MaxDelay = 1
  NoTime = NoTime
  Scenarios = {{"register", "crash"}}
  LegacyJobs = {}
  RecoveryDelay = 1
  Horizon = 1
  MaxStale = 0
  MaxFaults = 1
  NoJob = NoJob
SPECIFICATION Spec
PROPERTIES
  WaitingJobsResume
