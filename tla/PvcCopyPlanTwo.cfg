SPECIFICATION FairSpec
CONSTANTS
    NItems = 2
    MaxSwaps = 0
    MaxConsumers = 0
    MaxFaults = 0
PROPERTY PlanCompletes
CHECK_DEADLOCK FALSE
