SPECIFICATION Spec
CONSTANTS
    PlanCount = 2
    Targets <- OneNode
    SameSecond = TRUE
    PlanLag = FALSE
    MaxEdits = 0
    MaxDelays = 0
INVARIANT
    OneProceeds
