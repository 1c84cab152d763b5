SPECIFICATION Spec
CONSTANTS
    NodeCount = 3
    GroupCount = 1
    GroupOf <- OneGroup
    Concurrency <- One
    ControlPlane = {}
    KubernetesTarget = FALSE
    Policy = "Pause"
    MaxFailures = 1
    Waits = FALSE
    Retention = FALSE
    PlanLag = TRUE
    MaxLag = 2
    MaxGen = 4
    MaxRetries = 0
    MaxAborts = 0
INVARIANTS
    FailuresBounded
PROPERTIES
    AcceptedByResuming
