CONSTANTS
    Recs = {r1, r2}
    Stores = {s1, s2}
    Own = s1
    Files = {f1, f2, f3}
    Junk = Junk
    None = None
    MaxFaults = 1
SPECIFICATION CSpec
INVARIANTS NoLoss RecordedByOneStore QuietCountComplete
SYMMETRY Symmetry
