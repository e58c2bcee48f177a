SPECIFICATION Spec
VIEW NatView
CONSTANTS
    LvConns = {"c", "d"}
    LvSubjects = {"a", "b"}
    LvMaxRetries = 1
    LvKeep = 2
    LvPausedCap = 1
    LvMaxEvents = 2
    MsLast = 5
    MsQueries <- MCMsQueries
    MsBatch = 2
    MsMaxMatches = 3
    MsMaxRuns = 4
    MlMax = 4
    MlPage = 2
    MlLimit = 3
    MlBound = 2
    VwKind <- MCVwKind
    VwCut = {1, 2}
    VwMatches = {1, 3}
    VwMaxCalls = 2
    VwMaxPresses = 5
    MtMax = 4
    MtCap = 3
    MtView = 2
    MtJump = 2
    PbPatterns = {"a", "b", "c"}
    PbListed = {"a", "b"}
    PbWild = {"b", "c"}
    PbTypeOf <- MCPbTypeOf
    PbMaxPresses = 2
    PbFeatures = {"ttl", "increment"}
    RqSubjects = {"a", "b"}
    RqTypeOf <- MCRqTypeOf
    RqGuess <- MCRqGuess
    RqTypes = {"T", "U"}
    RqRecentCap = 1
    RqMaxRequests = 2
    RqMaxPresses = 6
    TpIds = {1, 2, 3}
    TpMaxPresses = 3
    KwKeys = {"k", "l"}
    KwListLimit = 1
    KwMaxChanges = 1
    KwMaxWrites = 2
    KwMaxFails = 1
    KwMaxPresses = 3
    KvKeys = {"k"}
    KvMaxSeq = 3
    KvMaxPresses = 4
    ScMaxOthers = 1
    ScMaxPresses = 5
    CtNames = {"a", "b"}
    CtMaxOthers = 1
    CtMaxPresses = 4
    HcMax = 4
    HcStored = 2
    HcKeep = 2
    HcOdd = {1, 3}
    HcMaxAdmin = 1
    HcPinned <- MCHcPinned
    CeMaxOthers = 1
    CeMaxPresses = 2
    CsIds = {"a", "b"}
    CsMaxPresses = 3
    ObNames = {"o", "p"}
    ObLarge = {2}
    ObMaxPuts = 2
    ObMaxPresses = 3
    PsIds = {1, 2}
    PsTargets = {"x", "y"}
    PsMaxOthers = 1
    PsMaxPresses = 4
    PvWorkers = {1, 2}
    PvKeep = 1
    PvMaxVersion = 2
    PvMaxOps = 2
    FwSources = {"a", "b"}
    FwDirs = {"r", "s", "n", "m"}
    FwParent <- MCFwParent
    FwRoot <- MCFwRoot
    FwMaxChanges = 3
    FwMaxOps = 2
    VtIds = {"a", "b"}
    VtMaxOps = 4
    VtMaxFaults = 2
    SkMaxRev = 4
    SkBatch = 2
    SkMaxFaults = 3
INVARIANTS
    NatTypeOK
    WebFeedTold
    
    
    HcVerdictsTrue
    PvSchemasServed
    
    VtRecovers
    SkWatchTrue
PROPERTIES
    WebPlaceKept
    
    NatNeverBack
CHECK_DEADLOCK FALSE
