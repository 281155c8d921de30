\* Workflows and other calls of two clients, in turn and overlapping.
SPECIFICATION WorkSpec
CONSTANTS
    Clients = {c1, c2}
    Ops <- RivalCalls
    Outcomes = {"done", "dropped", "refused"}
    Targets = {M31, M42}
    NoTarget = NoTarget
INVARIANT
    WorkTypeOK
PROPERTIES
    CompletedInOrder
    CaptureHolds
