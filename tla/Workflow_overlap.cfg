\* A workflow and an abort that overlap, as on the web server.
SPECIFICATION WorkSpec
CONSTANTS
    Clients = {c1, c2}
    Ops = {}
    Outcomes = {"done"}
    Targets = {M31}
    NoTarget = NoTarget
PROPERTY
    AbortStops
