SPECIFICATION MCSpec
CONSTANTS
    ChatRequests <- MCChatRequests
    TextBytes = {"a", "b", "1", "lead", "trail"}
    Mark <- MCMark
    TokenLimit = 3
    DefaultTokens = 4
    MaxStops = 2
    MaxStopLength = 3
    NotGiven = NotGiven
    MaxText = 5
    Clients = {c1, c2}
    ExtraArgs <- MCExtraArgs
    Managers = {g1, g2}
    Pids = {q1, q2}
    Specs = {s1, s2}
    NoPid = NoPid
    Holders = {h1, h2}
    LeaseKeys = {k1}
    MaxFence = 3
    SessionIds = {i1, i2, i3}
    KvSizes = {1, 2}
    MemoryBudget = 4
    KvBudget = 3
    MaxSessions = 2
    Bytes = {0, 1, 3}
    MinimumReserve = 1
    ReservePercent = 40
    RowHint = 2
    ColHint = 8
    Unasked = Unasked
    Tuners = {t1, t2}
    Features = {"avx2", "amx"}
    IsaOf <- MCIsaOf
    KernelOrder <- MCKernelOrder
    Requires <- MCRequires
    Measures <- MCMeasures
    Timings <- MCTimings
    MaxCandidates = 2
    NoKernel = NoKernel
    NoCacheFile = NoCacheFile
    Operators = {o1, o2}
    Prompts = {"medium"}
    Repetitions = {1}
    Variants = {}
    Hosts <- MCHosts
    Outputs <- MCOutputs
    NoSession = NoSession
    EmptyFile = EmptyFile
    MixedFile = MixedFile
    MaxCommands = 4
    Variant = {"v1", "v2"}
    Suites <- MCSuites
    Rows <- MCRows
    MaxLines = 3
    NoReceipt = NoReceipt
    Templates <- MCPlaneTemplates
    Platform = "linux"
    NoPayload = NoPayload
INVARIANTS
    PlaneTypeOK
    AnswersAreFaithful
    OneEmbeddingModel
    NoOrphanUpstream
    RunningServersAreKnown
    AdmissionIsSound
    PlansFit
    SelectedKernelsAreSafe
    SessionIsSound
    CompletedMeansAllScored
    RecordsWhatItRan
CHECK_DEADLOCK FALSE
