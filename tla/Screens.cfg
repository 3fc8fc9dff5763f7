\* Three scans of a page, one of them an older capture than one before it, listed
\* one at a time; two runs of two regions, read one at a time; two notebooks and
\* five things the user does; two sets of pages, two renderings, two requests to
\* save and one death of the activity or the process; three batch screens and
\* sessions, of which two fit.
SPECIFICATION MCSpec
CONSTANTS
    MaxScans = 3
    MaxEvents = 4
    MaxItems = 1
    PageSize = 1
    Runs = {r1, r2}
    Regions = {x1, x2}
    NoRun = NoRun
    RegionLimit = 2
    RegionPage = 1
    ReviewLimit = 1
    SearchLimit = 1
    MaxJobs = 2
    MaxTaps = 2
    MaxViews = 1
    Designs = {d1, d2}
    SmartPages = {p1}
    PageCount = 1
    MaxNotebooks = 2
    MaxActs = 5
    PageSets = {t1, t2}
    NoSet = NoSet
    MaxPictures = 2
    MaxEffects = 2
    MaxSaves = 2
    MaxUpsets = 1
    MaxSessions = 2
    MaxBegun = 3
    MaxScreens = 3
    MaxClock = 2
    MaxOlder = 1
INVARIANTS
    ScreenTellsTruth
    TextIsWhole
    DestinationIsClear
    KeptIsWanted
    SessionsStayUsable
CHECK_DEADLOCK FALSE
