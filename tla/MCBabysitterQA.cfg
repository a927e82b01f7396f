SPECIFICATION Spec
CONSTANTS
    Tasks <- MCTasks
    Agents <- MCAgents
    Owner <- MCOwner
    Priority <- MCPriority
    DependsOn <- MCDependsOn
    PhaseOf <- MCPhaseOf
    Phases <- MCPhases
    WorkerAgents <- MCWorkers
    QA = "qa"
    MaxStrikes = 2
    MaxIterations = 2
    MaxRuns = 2
    InitialQueues <- FreshQueue
    None = None
INVARIANT
    ImplementedIsRoutedToQA
CHECK_DEADLOCK FALSE
