SPECIFICATION Spec
CONSTANTS
    Provider = {"p", "q"}
    Chain <- MCChain
    FallbackRetries = 1
    StatusLists <- MCStatusLists
    MaxRetries = 1
    SemanticIdle = 2
    AttemptTotal = 4
    Capacity = 1
    Indexes = {0, 1}
    MaxFrames = 4
    Request = {1, 2, 3}
    Asks <- MCAsks
    GenericKey = {"k"}
    EntrySize = {2, 3}
    EntryTTL = 1
    EntryRetention = 1
    MaxCacheEntries = 2
    MaxEntry = 2
    MaxRetained = 4
    MaxCacheNow = 2
    Arrival = {1}
    Kinds <- MCKinds
    Permits = 1
    Unary = 1
    Stream = 2
    ChunkBytes = 1
    MaxBytes = 4
    Caller = {"c", "d"}
    Lifetime = {8}
    MaxLead = 30
    Margin = 1
    Cooldown = 1
    MaxTokens = 3
    MaxTokenClock = 8
    Process = {"p", "q", "r"}
    MaxGrants = 3
    Call = {"c", "d", "e"}
    MaxMade = 4
    Wires = {"anthropic", "responses", "chat", "chat_unindexed", "gemini", "gemini_idless"}
    Layouts <- MCLayouts
    MaxToolEntries = 8
    Owner = {"p", "q"}
    Key = {"a", "b"}
    ReceiptSize = {1, 2}
    Legacy <- MCLegacy
    MaxCount = 2
    MaxTotal = 2
    ReceiptTTL = 1
    CompactAt = 2
    MaxPuts = 2
    MaxJournals = 3
    MaxReceiptClock = 1
    Attempt = {1, 2}
    Quote <- MCQuote
    Amount = {2}
    Limit = 3
    MaxExact = 4
    WindowSecs = 1
    FleetRetention = 1
    Places = {2, 3}
    Batch = 1
    MaxLegacy = 1
    MaxFleetNow = 2
CHECK_DEADLOCK FALSE
INVARIANTS
    SendsBounded CleanEndEarned ReplayFaithful CacheAccounted BodyEndsHonest
    RefreshExclusive SoundOneCached AssembledAsSent ProgressHonest ServesLastStored
    FilesAccounted
PROPERTIES SourceReleased PermitsReturned SourceCallsJustified FleetCapHolds
