\* A single client, which may send the telescope home.
SPECIFICATION Spec
CONSTANTS
    Clients = {c1}
    Ops <- MotionOps
    Outcomes = {"done", "dropped"}
PROPERTY
    ActiveMeansTracking
