SPECIFICATION Spec
CONSTANTS
    framework = framework
    environment = environment
    reviewer = reviewer
    improver = improver
    Objects <- MCObjects
    Agents <- MCAgents
    Plan <- MCPlan
    RekeyOrder <- MCRekeyOrder
    SyncOrder <- MCSyncOrder
    Renamed = reviewer
    MaxKeys = 3
INVARIANTS TypeOK KeysAgree NoDuplicates AppliedIsComplete
PROPERTIES KeysMoveForward CreatedAgentsHaveKeys
