SPECIFICATION Spec
CONSTANTS
    c1 = c1
    c2 = c2
    Hourly = Hourly
    Absent = Absent
    Torn = Torn
    Managers = {"systemd", "launchd"}
    Configs = {c1, c2}
    Broken = Broken
INVARIANTS InstallTellsTheTruth UninstallEndsFiring
PROPERTY InstalledKeepsFiring
CHECK_DEADLOCK TRUE
