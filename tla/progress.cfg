SPECIFICATION ProgressSpec
CONSTANTS
    t1 = t1
    t2 = t2
    Worlds <- Usual
    Thread = {t1, t2}
    Slots = 2
    BatchSize = 2
    DiffCap = 1
    JobCap = 1
    ResultCap = 1
    ProcessedCap = 2
    Failures = {"load", "save", "stop"}
    MaxUnsaved = 1
    tree1 = tree1
    data1 = data1
    data2 = data2
    c1 = c1
    c2 = c2
    w1 = w1
    w2 = w2
    Blob = {tree1, data1, data2}
    Tree = {tree1}
    Caller = {c1}
    Worker = {w1, w2}
    Failing = TRUE
    BundleJobs <- AllBundleJobs
    Readers = 2
    DirCap = 2
    CacheJobs <- WaitingJobs
    Cacheable <- SomeHandles
    Screens <- AllScreens
    MaxItems = 2
    Searched = 3
    MaxSearches = 2
    DiffLists <- ThreeDiffs
    Pairs <- ThreePairs
    FilterNames = {0, 2, 3}
    Trees <- SmallTrees
    MaxMoves = 2
INVARIANTS
    SnapshotComplete
    PipelineSound
PROPERTIES
    BackupEnds
    TasksEnd
CHECK_DEADLOCK FALSE
