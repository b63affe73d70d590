SPECIFICATION Spec
CONSTANTS
    Dirs = {1, 2, 3, 4, 5, 6}
    Home <- HomeOf
    Scratch = Scratch
    Gone = Gone
    Sites <- SomeSites
    CanBuild = {3}
    CanVanish = {2}
    CanClose = {2, 5}
    MaxCloses = 1
INVARIANTS
    OnlyMatchesTaken
    QuarantineStays
    FailsForCause
    DoctorForetells
    DoctorFailsForCause
    DoctorLeavesNothing
CHECK_DEADLOCK FALSE
