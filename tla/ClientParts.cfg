SPECIFICATION Spec
CHECK_DEADLOCK FALSE
CONSTANTS
    Processes = {"p1", "p2", "p3"}
    MaxTokens = 4
    MaxFailures = 2
    Providers = {"c1", "c2"}
    OtherClients = {}
    EnvKey = TRUE
    Launcher = TRUE
    SecureStore = TRUE
    MaxGrants = 2
    MaxLogins = 1
    MaxLogouts = 1
    StepLists <- MCStepLists
    HasModel = TRUE
    OwnTrees = {1}
    MaxPlans = 2
    MaxExecutions = 2
    MaxEvents = 3
    MaxCommands = 1
    MaxChanges = 1
    Planners = {"architect"}
    MaxWorkloads = 2
    MaxDesigns = 2
    MaxDeploys = 2
    MaxPlacements = 1
    MaxSandpits = 1
    MaxSandpitCalls = 3
    MaxMetered = 1
    MaxModelCalls = 2
    MaxCheckpoints = 2
    MaxSessions = 3
    MaxCalls = 4
    PageSize = 1
    EditModes = {"build"}
    ReadModes = {"ask"}
    Roles <- MCRoles
    Amounts = {1, 2}
    Texts <- MCTexts
    MaxReceipts = 3
    MaxEdits = 1
INVARIANTS LaunchersTakeTurns CredentialsAreCurrent GatewayIsTold OperatorSeesTheWork
PROPERTIES OnlyItsPlan
