CONSTANTS
    Tools = {"rescreen"}
    MaxFaults = 0
SPECIFICATION Spec
PROPERTIES RescreenLeavesReview
