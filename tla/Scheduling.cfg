SPECIFICATION Spec
CONSTANTS
    Node = {1, 2, 3, 4, 5, 6}
    ControlPlane = {2, 3, 4, 5, 6}
    CustomGroup = {"kafka", "zone b"}
    LabelValue = {"kafka"}
    SelectorName = {"mixed", "zone"}
    Selects <- SmallSelects
    Specs <- SmallSpecs
    MaxFailed = 1
    MaxRetries = 1
INVARIANTS
    TypeOK
    QuorumKept
    NeverStuck
PROPERTIES
    StartsInOrder
CHECK_DEADLOCK FALSE
