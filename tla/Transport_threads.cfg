\* Three threads share the connection; one command of each kind.
SPECIFICATION Spec
CONSTANTS
    Threads = {t1, t2, t3}
    Framed = {GU, GR}
    Unframed = {Te}
    Silent = {Q}
    Flaky = TRUE
INVARIANTS
    TypeOK
    OwnReply
PROPERTIES
    MutexReleased
    ImplementsPromise
