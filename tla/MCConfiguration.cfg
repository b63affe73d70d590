SPECIFICATION SetupSpec
CONSTANTS
    Absent = Absent
    Folder = Folder
    Locked = Locked
    Garbage = Garbage
    Host <- MCHost
    Short <- MCShort
    Worlds <- MCWorlds
    Edits <- MCEdits
    Words <- MCWords
    Hosts = {"box.example", "box", "other"}
    System = "linux"
    Cuts = {1, 3, 6}
    Awkward <- MCAwkward
    Misread <- MCMisread
INVARIANTS FirstFileWins AcceptedIffWellFormed  EveryProjectHasItsRoot
 
CHECK_DEADLOCK TRUE
