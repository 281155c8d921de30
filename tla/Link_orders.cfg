\* Two threads whose calls overlap, with a mount whose answers end in '#',
\* and commands and answers that get lost.  One of the declinations, 91
\* degrees, cannot be read.
SPECIFICATION Spec
CONSTANTS
    Clients = {c1, c2}
    RAs = {10004}
    Decs = {30000, 327600000}
    Dates = {"short", "long"}
    Bare = {"Q"}
    Lossy = TRUE
    Refuses = FALSE
    Nobody = Nobody
SYMMETRY Symmetric
INVARIANT
    TypeOK
PROPERTIES
    AcceptedAsAsked
    ClockRight
