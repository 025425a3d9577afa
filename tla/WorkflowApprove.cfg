CONSTANTS
    plan = plan
    build = build
    ship = ship
    a1 = a1
    a2 = a2
    NoAgent = NoAgent
    NoTask = NoTask
    Project = "project"
    Agents = {a1, a2}
    Specs <- MCSpecs
    Position <- MCPosition
    DependsOn <- MCDependsOn
    SpecAgentId <- MCSpecAgentId
    EligibleFor <- MCEligibleFor
    Capable <- AllAgents
    ToolAuthorized <- AllAgents
    WantsHandoff = {build}
    Drafts <- MCDrafts
    MaxRetries = 1
    GatedSpecs = {build, ship}
    MaxToolCallsPerTask = 1
    MaxInterventions = 1
SPECIFICATION Spec
PROPERTY ApprovedTaskIsRecorded
CHECK_DEADLOCK FALSE
