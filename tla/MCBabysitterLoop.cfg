SPECIFICATION FairSpec
CONSTANTS
    Tasks <- MCTasks
    Agents <- MCAgents
    Owner <- MCOwner
    Priority <- MCPriority
    DependsOn <- MCDependsOn
    PhaseOf <- MCPhaseOf
    Phases <- MCPhases
    WorkerAgents <- MCWorkers
    QA = "qa"
    MaxStrikes = 2
    MaxIterations = 2
    MaxRuns = 2
    InitialQueues <- MCInitialQueues
    None = None
INVARIANTS
    TypeOK
    NoStrayWorkInCommit
    AcceptedWorkIsInHead
    WorkRespectsBuildOrder
    StrikesAreOnRecord
PROPERTIES
    AcceptedByAnotherAgent
    EveryRunEnds
CHECK_DEADLOCK FALSE
