SPECIFICATION FairSpec
CONSTANTS
    NodeCount = 3
    GroupCount = 2
    GroupOf <- InTwo
    Concurrency <- OneEach
    ControlPlane = {1}
    KubernetesTarget = TRUE
    Policy = "Halt"
    MaxFailures = 2
    Waits = TRUE
    Retention = TRUE
    PlanLag = FALSE
    MaxLag = 1
    MaxGen = 1
    MaxRetries = 1
    MaxAborts = 1
PROPERTIES
    RolloutEnds
    LeasesReleased
    PurgedIsFrozen
CHECK_DEADLOCK FALSE
