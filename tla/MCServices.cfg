SPECIFICATION ServicesSpec
CONSTANTS
    Callers = {c1, c2}
    Ids = {s1, s2}
    MaxRestarts = 1
    MaxFaults = 1
    PoolSessions = {"s1", "s2", "s3"}
    MaxEntries = 3
    ClientCalls = {"c1", "c2", "c3"}
    MaxProcesses = 1
    Servers = {"a", "b"}
    ToolRequests = {"r1", "r2"}
    Versions = {1, 2}
    MaxClients = 4
    MaxToolRequests = 2
    PluginNames = {"p", "q", "r"}
    PluginTools = {"t", "u", "v"}
    Brings <- MCBrings
    DisabledPlugins = {"r"}
    SkillNames = {"a", "b", "c"}
    FromPlugin = {"c"}
    Catalog <- MCCatalog
    SubRequests <- MCSubRequests
    ParentTools = {"read_file", "subagent.run"}
    VramBudget = 24
    SingleModel = "none"
    Escalation = TRUE
    MaxDelegations = 2
    Signatures = {"a", "b"}
    MaxFailures = 2
    MaxSuccesses = 2
    MaxCycles = 2
    MaxToolCalls = 7
    MaxPromptTokens = 5
    MaxIterations = 4
    MaxLoopRuns = 2
    MaxLoopBatch = 2
    Sizes = {2, 4}
    Available = 12
    Reserved = 4
    FixedSizes = {4, 9, 14}
    StoredNotes <- MCNotes
    Pages <- MCPages
    Pasts <- MCPasts
    NoticeCost = 2
    MaxMessages = 3
    MaxCallBatch = 4
    MaxSaid = 6
    Prompts <- MCPrompts
    Site <- MCSite
    Assets = {"/p.png"}
    MaxRedirects = 2
    CrawlStarts <- MCStarts
    CrawlPolicy <- MCPolicy
    MaxItems = 4
    MaxResults = 4
    Kids = {101}
    MaxPageRuns = 1
    MaxPageRequests = 3
    MaxChunks = 2
    MaxPageCalls = 1
    SettingsNames = {"a", "b"}
    Form = "table"
    SettingsTools = {"t"}
    SettingsSessions = {"s1", "s2"}
    Tabs = {"x"}
    MaxWrites = 5
    MaxTuiRuns = 2
    MaxTuiRequests = 2
    StatsSessions = {"s1", "s2"}
    StatsTools = {"t"}
    MaxEvents = 2
    MaxStatsRuns = 2
    MaxStatsFaults = 1
    Processes = {"web", "terminal"}
    Tasks = {"t"}
    Boards = {"b"}
    Keys = {"k"}
    Values <- MCValues
    Tags = {"tag"}
    KeyWords <- MCKeyWords
    Place <- MCPlace
    TailMessages = 1
    SnapshotLimit = 1
    Objectives <- MCObjectives
    Dialogues <- MCDialogues
    MaxNotes = 2
    MaxTurnCalls = 2
    MaxTexts = 4
    MaxKills = 1
CHECK_DEADLOCK FALSE
INVARIANTS
    
    DeletedStaysDeleted
    RecordIsDurable
    
    ClientIsExact
    ToolsetIsHonest
    PluginOwnsItsTools
    
    SubagentsAreSound
    HopelessCallStops
    
    ResearchIsHonest
    
    
    EveryCallIsCounted
    
    
PROPERTIES
    TokensKept
