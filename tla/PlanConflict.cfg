SPECIFICATION FairSpec
CONSTANTS
    PlanCount = 2
    Targets <- OneNode
    SameSecond = FALSE
    PlanLag = TRUE
    MaxEdits = 1
    MaxDelays = 1
INVARIANTS
    TypeOK
    EarlierFirst
PROPERTY
    EveryPlanStarts
