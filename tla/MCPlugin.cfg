SPECIFICATION PluginFairSpec
CONSTANTS
    Releases    <- TheReleases
    SdkReleases <- TheSdks
    Files       = {"gme.dll", "setup.exe", "sdk.dll"}
    Owner       <- TheOwner
    Entries     = {"gme.dll", "sdk.dll"}
    Sized       = {"gme.dll", "sdk.dll"}
    Digested    = {"gme.dll"}
    Redist      = {"setup.exe"}
    Unhashed    = {"sdk"}
    Gone = Gone
    Part = Part
    Rot = Rot
    Bad = Bad
    MaxVersion  = 2
    MaxSessions = 3
    MaxDamage   = 1
INVARIANTS RecordsSurvive
PROPERTIES SkippedIsWhole TasksEnd
CHECK_DEADLOCK FALSE
