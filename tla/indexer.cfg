SPECIFICATION Spec
CONSTANTS
    a = a  b = b  ab = ab  studio = studio  live = live  xlive = xlive
    single = single  dots = dots
    u1 = u1  u2 = u2  u3 = u3  u4 = u4  u5 = u5  u6 = u6  u7 = u7
    NoName = NoName
    Names <- AllNames
    Normalized <- Letters
    Within <- PartOf
    Markers <- AllMarkers
    trackSize = 1
    PythonLists <- AllPython
    CLILists <- AllCLI
    Requests <- AllRequests
    Excludes = {"off", "drop", "skip"}
    Limits = {0, 1, 2}
    rssQuery = single
    MaxSearches = 2
INVARIANTS PagesCoverFeed EveryReleaseOffered NoGrabLoop ServedWithoutKey
CHECK_DEADLOCK FALSE
