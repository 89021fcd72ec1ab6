CONSTANTS
    MaxStarts = 2
    MaxProcesses = 3
SPECIFICATION FairSpec
INVARIANTS RestartClean LoopOwnsDescriptors KeysStable TrustedKeysServe
PROPERTY QuitTerminates
CHECK_DEADLOCK FALSE
