\* A page that gets a second scan; scans registered from a recovery record.
SPECIFICATION HistorySpec
CONSTANTS
    MaxScans = 2
    MaxEvents = 3
    MaxItems = 0
INVARIANT
    EveryScanIsComparable
CHECK_DEADLOCK FALSE
