\* The firmware's own answers: of these commands only :CM# has one with a '#'.
SPECIFICATION Spec
CONSTANTS
    Clients = {c1}
    RAs = {10004}
    Decs = {20000}
    Dates = {"short"}
    Bare = {"Sr", "Sd", "Sa", "Sz", "MS", "Q", "St", "Sg", "Sv", "SC", "SL", "SG"}
    Lossy = FALSE
    Refuses = FALSE
    Nobody = Nobody
PROPERTY
    GotoGoes
