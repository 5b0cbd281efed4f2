SPECIFICATION ComponentsSpec
CONSTANTS
    tree1 = tree1
    data1 = data1
    data2 = data2
    c1 = c1
    c2 = c2
    w1 = w1
    w2 = w2
    Blob = {tree1, data1}
    Tree = {tree1}
    Caller = {c1, c2}
    Worker = {w1}
    Failing = TRUE
    Transfers <- AllTransfers
    MaxAttempts = 1
    PartSize = 2
    Threshold = 3
    Payers = {"p", "q"}
    Loads <- AllLoads
    Burst = 2
    MaxDebt = 4
    MinSleep = 2
    ChunkSize = 3
    MaxClock = 6
    Openings <- AllOpenings
    MaxPasswords = 3
    MaxConnections = 2
    PoolUsers = {11, 12}
    MaxDeaths = 1
    Listings <- AllListings
    KeysPerPage = 2
    MaxChanges = 2
    KeyJobs <- AllKeyJobs
    KeyUser = {"ann", "bob", "new"}
    KeyPass = {1, 2, 3}
    SyncJobs <- AllSyncJobs
    CopyTasks = 2
    ForgetJobs <- AllForgetJobs
    SecondParts = 2
    HourSeconds = 2
    DayHours = 3
    WeekDays = 3
    MonthDays = 4
    YearMonths = 4
    UsizeMax = 31
    CommandJobs <- AllCommandJobs
    MaxPasswordTries = 3
    DashStarts <- OneStart
    MaxSnaps = 2
    MaxOthers = 1
    MaxKeep = 1
    PageSize = 2
    PackJobs <- AllPackJobs
    PackFull = 10
    FooterMultiple = 2
    Width = 3
    IndexPacks <- TwoPacks
    BlobsPerIndex = 3
    LookIds = {17}
    MaxRounds = 3
    Halves = 16
    ChunkJobs <- AllChunkJobs
    Gear <- TwoGears
    HashBits = 5
    MaxReadErrors = 1
    MaxTokens = 3
    FilterJobs <- AllFilterJobs
    FilterPaths <- AllFilterPaths
    VerifyJobs <- AllVerifyJobs
    ChunkCells = 4
    BatchCells = 3
    MountJobs <- AllMountJobs
    TreeCapacity = 1
    BlobCapacity = 3
    ReadSizes = {0, 1, 2, 5}
    MaxStamp = 4
    Jobs <- AllRestores
    MaxHandles = 1
    Shards = 1
    Prefetch = 2
    Budget = 2
    MergeGap = 1
    SegmentMax = 4
    BundleJobs <- AllBundleJobs
    Readers = 2
    DirCap = 2
    CacheJobs <- AllCacheJobs
    Cacheable <- SomeHandles
    Screens <- AllScreens
    MaxItems = 2
    Searched = 3
    MaxSearches = 2
    DiffLists <- ThreeDiffs
    Pairs <- ThreePairs
    FilterNames = {0, 2, 3}
    Trees <- SmallTrees
    MaxMoves = 2
VIEW Running
INVARIANTS
    TypeOK
    FlushedComplete
    IndexedStored
    SendersNeverWait
    TransfersSafe
    RateKept
    PoolSound
    ListedThroughout
    KeysUsable
    MirrorSound
    RulesKept
    CommandHonest
    PacksReadable
    IndexTrue
    ChunksRight
    FiltersRight
    VerdictRight
    MountFaithful
    RestoreFaithful
    BundleFaithful
    CacheCoherent
    ScreensTrue
PROPERTY InodesStable
