\* Every tool a job runs as a step of its own, one in each behaviour.
SPECIFICATION Spec
CONSTANTS
    Off = Off
    Change <- Changes
    Unusual = {}
    Quote = "quote"
    Root <- Mcp
    FullRules <- Full
    IgnoredRules <- Ignored
    DocRoots = {"docs", "runbooks"}
    Markdown = {"readme.md"}
    MaxPaths = 4
    File = {"a", "A", "b", "link"}
    Content = {"one", "two"}
    Absent = Absent
    Partial = Partial
    Folded <- LowerCase
    Special = {"link"}
    MaxFiles = 2
    LastAttempt = 3
    Directory = {"plain", "linked", "around", "itself", "outside"}
    Temp <- RunnerTemp
    Workspace <- GithubWorkspace
    Real <- Resolved
    Variable = {"HTTPS_PROXY", "NPM_CONFIG_REGISTRY", "USERPROFILE", "SYSTEMROOT"}
    Configuring = {"NPM_CONFIG_REGISTRY", "USERPROFILE"}
    Name = {"temp", "w", "work", "wrangler", "repo", "home"}
    Version = {"9.1.0", "10.2.0"}
    FallbackVersion = "10.2.0"
    Attempts = 3
    Sdk = {"8.0.100", "9.0.100"}
    LastJob = 3
    Machine <- Machines
    FileRequirement <- FileRequirements
    InlineRequirement <- InlineRequirements
    Bound = 10
    Catalog <- Catalogs
    PackageSelection <- PackageSelections
    EvidenceFile <- EvidenceFiles
    Unverified = "unverified"
    Coordinate <- Coordinates
    Time = {1, 2}
    Before <- Alphabetic
    MaxRecords = 2
    Job = {"j1", "j2", "j3"}
    Phase = {"build", "cache_observation"}
    RunOf <- RunOfJob
    Given = {"t"}
    Empty = Empty
    MaxTime = 2
    MaxEvents = 2
    Emitter = {"e1", "e2"}
    Dir = {"d1", "d2"}
    Base = {"payload", "envelope"}
    Fallback = {"f1", "f2", "f3", "f4"}
    NoDir = NoDir
    Plan <- Plans
    Lock = {"index", "packed-refs"}
    MinAge = 2
    LastTime = 3
    LastVersion = 2
    Branch = {"main", "side"}
    Commit = {"root", "leak", "clean", "topic", "broken", "more", "foreign"}
    Local = {"root", "leak", "clean", "topic", "broken", "more"}
    NoCommit = NoCommit
    History <- Ancestors
    Secret = {"leak"}
    Broken = {"broken"}
    Tests <- TestsOf
    Selection = {"a"}
    MaxCommits = 4
    MinToken = 2
    MaxDepth = 2
    MaxKeys = 2
    MaxString = 3
    Metadata <- Trees
    GivenPath <- Paths
    Dotted = {"..", "..x"}
\* The tools end.
CHECK_DEADLOCK FALSE
INVARIANTS
    TypeOK
    NeverSilentlyLess
    PublishedDescribesTree
    PinnedAndConfined
    EvidenceIsTrue
    VerdictIsSound
    RecordIdIdentifies
    EventsJoin
    FilesAreWhereReported
    RemovesWhatItSaw
    BoundedInputs
    PublishesWhatItJudged
