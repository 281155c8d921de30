\* Two clients at once, every answer of the mount.
SPECIFICATION Spec
CONSTANTS
    Clients = {c1, c2}
    Ops <- LeaseOps
    Outcomes <- AllOutcomes
INVARIANTS
    TypeOK
    OwnerMatchesState
    SlewingHeld
PROPERTIES
    ImplementsAtomic
    ImplementsLease
    SlewEnds
    FocusEnds
