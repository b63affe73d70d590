SPECIFICATION Spec
CONSTANTS
    s1 = s1
    s2 = s2
    Sessions <- MCSessions
    Declared <- MCDeclared
    Multiplier = 3
    MaxLoad = 1
    WithPid = {s2}
    InPlace = {s2}
    NamedAfter = {s2}
    OrphanedOnly = {s1}
    DirFails = TRUE
    MaxBack = 1


CHECK_DEADLOCK TRUE
INVARIANT LiveClaimProtects
PROPERTY OrphanIsReleased
