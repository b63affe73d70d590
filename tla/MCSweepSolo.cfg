SPECIFICATION Spec
CONSTANTS
    r1 = r1  r2 = r2  t1 = t1  t2 = t2  t3 = t3
    NL = NL  NoEntry = NoEntry
    Runs = {r1}
    Trees = {t1, t2, t3}
    Home <- TwoPlaces
    NRoots = 1
    NScratch = 2
    Limited = TRUE
    Faults = {"walk", "open", "mkdir", "test-rename", "cleanup", "rename", "append", "command"}
    Scope <- EveryScope
    Commands <- OneCommand
    Sessions = {}
    Timer = {}
    Stubborn = {t1}
    CanClaim = {}
    CanPin = {2}
    CanEdit = FALSE
    MaxCrashes = 1
INVARIANTS
    TypeOK
    NeverHalfRemoved
    LeftoversFirst
    IdleExitsTouchNothing
    SuccessLeavesNothingStaged
PROPERTY
    TakenAsPromised
