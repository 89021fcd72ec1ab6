SPECIFICATION FairSpec
INVARIANTS InitAllOrNothing OpenWhileUsed
PROPERTY QuitTerminates
CHECK_DEADLOCK FALSE
