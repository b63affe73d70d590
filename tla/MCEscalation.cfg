SPECIFICATION Spec
CONSTANTS
    Trees = {1, 2, 3}
    Tier <- TierOf
    Size <- SizeOf
    Stubborn = {1}
    CanPin = {1}
    Commands <- CommandsAt
    Yields = {0, 1}
    Total = 8
    TargetPct = 50
    Slack = 1
    MaxRun = 2
    Faults = {"stat", "walk", "open", "rename", "command"}
    MaxUse = 1
INVARIANTS
    CodeCoversEveryPass
    
    
PROPERTY
    EscalatesOnlyWhenShort
