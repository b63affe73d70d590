SPECIFICATION Spec
CONSTANTS
    Entries = {1, 2, 3, 4, 5, 6}
    Above <- AboveOf
    Name <- NameOf
    Files = {"Cargo.toml", ".reap-keep", ".git"}
    PinMarker = ".reap-keep"
    GitDir = ".git"
    NoFile = NoFile
    Rules <- TwoRules
    MaxTier = 2
    RootLists <- ManyRootLists
    Floor = {}
    Deny <- OneDenied
    Kinds <- SomeKinds
    Contents <- SomeContents
    Tracked = {2}
    Indexes <- SomeIndexes
    CanChange <- KeepInWeb
    CanSwap = {4, 5}
    Procs = {p}
    CanWork = {5}
    CanTouch = {4}
    Faults = {"git", "inspect", "proc"}
    MaxChanges = 2
INVARIANTS
    SelectionsDisjoint
    FirstRootDecides
    ExplainAgreesOnCandidates
    StandingProtectionHolds
    StandingProcessIsSeen
CHECK_DEADLOCK FALSE
