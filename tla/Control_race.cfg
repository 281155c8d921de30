\* Two gotos at once, as on the web server's pool of threads.
SPECIFICATION Spec
CONSTANTS
    Clients = {c1, c2}
    Ops = {"goto"}
    Outcomes = {"done"}
INVARIANT
    OneGoto
