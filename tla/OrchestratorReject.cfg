CONSTANTS
    gated = gated
    plain = plain
    orphan = orphan
    agent = agent
    project = project
    NoAgent = NoAgent
    Tasks <- MCTasks
    Agents = {agent}
    Projects = {project}
    ProjectOf <- MCProjectOf
    Eligible <- MCEligible
    RequiresApproval = {gated}
    WorkflowTasks = {orphan}
    MaxOperatorRetries = 2
SPECIFICATION ControlPlaneSpec
PROPERTY RejectedTaskFails
CHECK_DEADLOCK FALSE
