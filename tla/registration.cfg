SPECIFICATION FairSpec
CONSTANTS
    c1 = c1
    c2 = c2
    s1 = s1
    Containers = {c1, c2}
    Subs = {s1}
    SubParent <- MCSubParent
    AE = AE
    Found = {2000}
    MaxOverlaps = 2
    MaxFaults = 2
INVARIANTS RegisteredBeforeUpload CrashHasCause
PROPERTIES StageOrder EventuallyUploads
CHECK_DEADLOCK FALSE
