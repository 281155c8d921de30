CONSTANTS
    Switches = {TRUE, FALSE}
    RefineStages = 1
    Upsets = {"power", "fault", "axis"}
SPECIFICATION Spec
INVARIANTS TypeOK ParkedAtRest InProgress
PROPERTIES  ParkedThere ImplementsActivity HomingEnds FaultStops
CHECK_DEADLOCK FALSE
