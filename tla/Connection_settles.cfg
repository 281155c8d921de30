\* Two clients, with commands of either kind.
SPECIFICATION Spec
CONSTANTS
    Clients = {c1, c2}
    Worker = worker
INVARIANT
    TypeOK
PROPERTIES
    OnceStarted
    SettlesConnected
    LossNoticed
    HeartbeatRecovers
