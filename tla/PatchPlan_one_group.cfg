SPECIFICATION Spec
CONSTANTS
    NodeCount = 3
    GroupCount = 1
    GroupOf <- OneGroup
    Concurrency <- Two
    ControlPlane = {}
    KubernetesTarget = FALSE
    Policy = "Halt"
    MaxFailures = 1
    Waits = TRUE
    Retention = FALSE
    PlanLag = TRUE
    MaxLag = 2
    MaxGen = 1
    MaxRetries = 0
    MaxAborts = 1
INVARIANTS
    TypeOK
    ConcurrencyBound
    LeaseBound
    FailuresBounded
    CompletedIsTrue
PROPERTIES
    HaltStops
