SPECIFICATION Spec
CONSTANTS
    ControlPlane = TRUE
    TalosTarget = TRUE
    KubernetesTarget = TRUE
    Pinned = FALSE
    AllowDowngrade = FALSE
    RespectPDBs = FALSE
    Images = {"old"}
    Kubelets = {"old"}
    StaticPods = {"old"}
    NodeLag = FALSE
    JobLag = TRUE
    MaxBoots = 2
    MaxFaults = 1
    MaxAdmins = 0
    MaxRetries = 1
INVARIANTS
    CompletedIsUpgraded
PROPERTIES
    ReleasedHealthy
