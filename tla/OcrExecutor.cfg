CONSTANTS
  JobIds = {1, 2}
  Scans = {1, 2}
  Kinds = {k1}
  Outcomes = {"Detected", "ProviderFailed"}
  MaxActive = 2
  MaxAttempts = 2
  BaseDelay = 1
  MaxDelay = 1
  NoTime = NoTime
  Scenarios = {{"register", "viewerCancel", "slowCall"},
               {"register", "callFails", "crash", "slowCall"},
               {"register", "viewerStart", "viewerRetry", "viewerCancel", "runtimeCancel", "recreate", "close", "crash", "callFails"}}
  LegacyJobs = {}
  RecoveryDelay = 1
  Horizon = 1
  MaxStale = 1
  MaxFaults = 1
  NoJob = NoJob
SPECIFICATION Spec
INVARIANTS
  WaitingJobHasDrain
PROPERTIES
  CancellationTakesEffect
  InterruptedJobsResume
  EveryJobSettles
