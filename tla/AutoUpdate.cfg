SPECIFICATION FairSpec
CONSTANTS
    Nodes = {n1, n2}
    FirstNodes = {n1}
    Versions <- MixedVersions
    Releases <- TwoReleases
    Allow = "minor"
    AllowTalosDowngrade = FALSE
    MaxUpsets = 1
INVARIANT TypeOK
PROPERTY StepsOneMinor NeverLowered EventuallyCurrent
