SPECIFICATION GatewaySpec
CONSTANTS
    Processes = {p1}
    None = None
    Models <- AllModels
    Registered <- InRegistry
    ProviderOf <- ProviderNames
    Vision <- SeeingModels
    Priced <- PricedModels
    Light <- LightTargets
    Builtin <- BuiltinModels
    Connections <- EffectiveConnections
    Applications <- Apps
    Bodies <- Asks
    Aliases = {"default", "team", "env"}
    Compatible = {"q"}
    ToolModels = {"small"}
    N = 2
    Requests = {r1, r2}
    FailThreshold = 1
    Cooldown = 2
    TrialHold = 3
    RecentOk = 0
    Settling = {}
    Drainable = {}
    MaxDepartures = 1
    Tenants = {t1, t2}
    Prompts = {m1}
    Chats = {c1}
    MaxEntries = 2
    CacheTtl = 1
    Lookups = {l1, l2}
    Lifetime = 3
    AppLifetime = 5
    QueryTime = 2
    ConfigEdits = 2
    Callings = {c1, c2}
    Rpm = 2
    LastMinute = 1
    Accounts = {a1}
    Browsers = {b1}
    Edits = {e1, e2}
    Dims = {"coding", "general"}
    Catalogues <- Registries
    IdOrder <- RegistryIds
    LiveSets <- KeyedProviders
    BuiltInTasks = {"faq", "audit"}
    CustomTasks = {"own"}
    CatalogTier <- TaskTiers
    Weights <- TaskWeights
    Curated <- CuratedScores
    Tokens <- TaskTokens
    EditedMaps <- Assignments
    Classifications = {k1, k2}
    Conversations <- Talks
    TextTasks = {"faq", "audit"}
    TextTier <- TaskTiers
    KeywordTask <- ByWords
    Unsure = "content"
    LabelOf <- Labels
    Ratings <- Rated
    NoLabel = NoLabel
    LlmCacheMax = 2
    Internals = {i1, i2}
    KeysOf <- StoredKeys
    Embedders <- EmbeddingModels
    Batching = {"p"}
    TestedKeys = {"team", "gone"}
    BenchTables <- BenchRows
    ArenaTables <- ArenaRows
    RatedModels <- NormalizedIds
    Pulls = {s1, s2}
    Words = {"ignore", "rules", "well", "secret", "phone", "[REDACTED]"}
    BuiltinRules <- InjectionRules
    PiiWords = {"phone"}
    BoundModels <- NovaModels
    WireProviders = {"openai", "groq"}
SYMMETRY Symmetry
INVARIANTS GatewayTypeOK NeverUndercounted TrialsAreForTheRecovering RecordIsOfTheAnswer
    CachesAreSound StalenessBounded LimitsHold AdministratorsRule
    
PROPERTIES ClaimsAreSpaced RoutingIsGoverned GeneratedIsBest
CHECK_DEADLOCK TRUE
