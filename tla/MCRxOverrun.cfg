CONSTANTS
    NumChans = 2
    UserCmds <- StartStop
    MaxOverruns = 3
    MaxData = 1
SPECIFICATION FairSpec
INVARIANTS StreamTogether ModeHasEnd OneRestart
PROPERTIES StreamResumes
