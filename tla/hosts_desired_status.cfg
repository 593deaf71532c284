\* One registered agent and an operator.
SPECIFICATION Spec
CONSTANTS
    Names = {"patient"}
    Overlap <- Overlaps
    MaxRegistrations = 1
    Faults = {}
PROPERTY DesiredStatusTold
CHECK_DEADLOCK FALSE
