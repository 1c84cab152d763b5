SPECIFICATION FairSpec
CONSTANTS
    ControlPlane = TRUE
    TalosTarget = TRUE
    KubernetesTarget = TRUE
    Pinned = FALSE
    AllowDowngrade = FALSE
    RespectPDBs = TRUE
    Images = {"old"}
    Kubelets = {"old"}
    StaticPods = {"old"}
    NodeLag = FALSE
    JobLag = FALSE
    MaxBoots = 2
    MaxFaults = 0
    MaxAdmins = 1
    MaxRetries = 0
INVARIANTS
    FailureReleases
PROPERTIES
    AdminCordonKept
    JobEnds
