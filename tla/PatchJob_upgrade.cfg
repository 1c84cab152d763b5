SPECIFICATION Spec
CONSTANTS
    ControlPlane = TRUE
    TalosTarget = TRUE
    KubernetesTarget = TRUE
    Pinned = FALSE
    AllowDowngrade = TRUE
    RespectPDBs = TRUE
    Images = {"old","newer","target"}
    Kubelets = {"old","newer"}
    StaticPods = {"old"}
    NodeLag = TRUE
    JobLag = FALSE
    MaxBoots = 3
    MaxFaults = 0
    MaxAdmins = 0
    MaxRetries = 0
INVARIANTS
    TypeOK
    RebootsCordoned
    CompletedIsUpgraded
PROPERTIES
    UpgradesDrained
    ImplementsNodeUpgrade
