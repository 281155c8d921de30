CONSTANTS
    Switches = {FALSE}
    RefineStages = 1
    Upsets = {}
SPECIFICATION Spec
INVARIANT Attended
CHECK_DEADLOCK FALSE
