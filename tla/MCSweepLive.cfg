SPECIFICATION FairSpec
CONSTANTS
    r1 = r1  r2 = r2  t1 = t1  t2 = t2  t3 = t3
    NL = NL  NoEntry = NoEntry
    Runs = {r1}
    Trees = {t1, t2}
    Home <- TwoPlaces
    NRoots = 1
    NScratch = 2
    Limited = FALSE
    Faults = {}
    Scope <- EveryScope
    Commands <- NoCommands
    Sessions = {}
    Timer = {r1}
    Stubborn = {t1}
    CanClaim = {1}
    CanPin = {}
    CanEdit = TRUE
    MaxCrashes = 1
PROPERTIES
    StagedIsErased
    EligibleIsReclaimed
