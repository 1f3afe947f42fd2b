CONSTANTS
    Tools = {}
    MaxFaults = 1
SPECIFICATION FairSpec
PROPERTIES EventuallyTerminal PayloadRecorded ExcludedDeleted
