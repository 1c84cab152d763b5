SPECIFICATION Spec
CONSTANTS
    NodeCount = 4
    GroupCount = 3
    GroupOf <- InThree
    Concurrency <- OneEach
    ControlPlane = {1}
    KubernetesTarget = TRUE
    Policy = "Halt"
    MaxFailures = 2
    Waits = FALSE
    Retention = FALSE
    PlanLag = TRUE
    MaxLag = 2
    MaxGen = 1
    MaxRetries = 0
    MaxAborts = 1
INVARIANTS
    GroupsInOrder
    WorkersLast
    RolloutInv
PROPERTIES
    ImplementsRollout
