CONSTANTS
    None = None
    Junk = Junk
    Never = Never
    Horizon = 2
    MaxFaults = 2
    r1 = r1
    s1 = s1
    s2 = s2
    f1 = f1
    f2 = f2
    f3 = f3
SPECIFICATION LiveSpec
INVARIANTS SealHolds DeletionRecorded
PROPERTIES EventuallyRecorded ExpiredLeaves
