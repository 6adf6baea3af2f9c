SPECIFICATION MCSpec
CHECK_DEADLOCK FALSE
CONSTANTS
    Engines = {"algorithms", "lorebook", "memory", "persona", "pages", "broker"}
    PresetScale = 2
    MaxPresetLabel = 2
    MaxSummaryPrompt = 2
    MaxSummaryMessages = 2
    MaxQueryMessages = 2
    MaxPresets = 2
    MaxPresetStateBytes = 3
    MaxChunks = 2
    MaxPresetRevision = 3
    MaxBlocks = 3
    MaxCacheBlocks = 1
    MaxDepth = 2
    MaxAuthored = 12
    MaxVariables = 2
    MaxReferences = 2
    MaxRules = 2
    MaxActiveRules = 2
    MaxPromptMessages = 4
    MaxPromptBytes = 8
    MaxRendered = 5
    MaxScan = 10
    MaxMatches = 3
    MaxPersonaInput = 3
    MaxImportBytes = 8
    MaxJsonDepth = 3
    MaxJsonNodes = 11
    MaxRequestMessages = 6
    MaxRequestBytes = 9
    MaxExtras = 2
    MaxExtraDepth = 2
    MinThinkingBudget = 3
    MaxCallBytes = 7
    MaxEntries = 3
    MaxEntryBytes = 4
    MaxArchiveBytes = 7
    MaxRatio = 2
    MaxPathDepth = 2
    MaxMetadataBytes = 2
    MaxPngChunks = 5
    MaxPngMetadata = 2
    MaxInput = 3
    MaxHistory = 4
    MaxContext = 8
    SystemPrompts <- MCSystemPrompts
    Blank = " "
    LoreLower <- MCLoreLower
    LoreBucket <- MCLoreBucket
    LoreCatalogs <- MCLoreCatalogs
    LoreRequests <- MCLoreRequests
    MaxCacheEntries = 2
    MaxLoreEntries = 3
    MaxConditions = 4
    MaxActiveRegex = 2
    MaxContentBytes = 4
    MaxLoreTokens = 4
    MaxTurns = 3
    MaxGeneration = 2
    MemMessages <- MCMemMessages
    MemPresets <- MCMemPresets
    MemScore <- MCMemScore
    MemRandom <- MCMemRandom
    MemReserve <- MCMemReserve
    MemBudgets <- MCMemBudgets
    Scale = 10
    MaxArtifacts = 3
    MaxJobs = 2
    MaxMemEdits = 1
    MaxPlanMessages = 3
    PersonaIds = {1, 2, 3}
    Characters = {1, 2}
    PersonaEditors = {1, 2}
    PromptSizes = {1, 2, 4}
    StoredStates <- MCStoredStates
    MaxPersonas = 2
    MaxPolicies = 1
    MaxPersonaBytes = 3
    MaxTotalBytes = 3
    MaxPersonaSteps = 5
    ScanChats = {1, 2, 3}
    ScanNodes = 4
    ScanLimit = 2
    ScanBytes = 3
    ScanTimes = {0, 1, 2}
    Renderers = {1, 2}
    BrokerCalls = 3
    BrokerFlights = 2
    GlobalAttempts = 3
    SessionAttempts = 1
    BrokerWindow = 2
    ReplayCapacity = 1
    BrokerClock = 2
INVARIANTS
    ArchiveIsSound
    PromptIsFaithful
    RequestIsFaithful
    ReplyIsFaithful
    HistoryIsFaithful
    LoreIsCurrent
    MemoryIsSound
    PresetsAreSound
    PersonasHold
    BrokerSafe
PROPERTY
    ListingsHold
