SPECIFICATION FairSpec
CONSTANTS
    Procs = {p1, p2, p3}
    Inodes = {i1, i2, i3, i4}
    None = None
    MaxTries = 2
    MaxCrashes = 1
INVARIANTS MutualExclusion RefusedOnlyByContender
PROPERTIES ImplementsMutex NoLivelock
