SPECIFICATION Spec
CONSTANTS
    Entries = {1, 2, 3, 4, 5, 6}
    Above <- AboveOf
    Name <- NameOf
    Files = {"Cargo.toml", ".reap-keep", ".git"}
    PinMarker = ".reap-keep"
    GitDir = ".git"
    NoFile = NoFile
    Rules <- TwoRules
    MaxTier = 2
    RootLists <- JustOneRoot
    Floor = {}
    Deny <- OneDenied
    Kinds <- AllDirectories
    Contents <- PinnedInside
    Tracked = {}
    Indexes <- Unclaimed
    CanChange <- KeepInWeb
    CanSwap = {}
    Procs = {}
    CanWork = {}
    CanTouch = {4}
    Faults = {}
    MaxChanges = 0
INVARIANT PinProtectsItsDirectory
CHECK_DEADLOCK FALSE
