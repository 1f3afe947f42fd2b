CONSTANTS
    Tools = {"rescreen"}
    MaxFaults = 2
SPECIFICATION Spec
INVARIANTS NeverDropped MaterializedBacked
PROPERTIES StopJoinKept MaterializedFinal
