SPECIFICATION FairSpec
CONSTANTS
    r1 = r1  r2 = r2  t1 = t1  t2 = t2  t3 = t3
    NL = NL  NoEntry = NoEntry
    Runs = {r1, r2}
    Trees = {t1, t3}
    Home <- TwoPlaces
    NRoots = 1
    NScratch = 2
    Limited = FALSE
    Faults = {}
    Scope <- EveryScope
    Commands <- NoCommands
    Sessions = {r2}
    Timer = {r1}
    Stubborn = {}
    CanClaim = {}
    CanPin = {}
    CanEdit = FALSE
    MaxCrashes = 0
PROPERTY
    RunsEnd
