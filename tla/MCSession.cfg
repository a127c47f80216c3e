CONSTANTS
    Requests = {r1, r2}
    Idle = Idle
    NoSession = NoSession
    Lifetime = 1
    Overlap = TRUE
    MaxMinted = 6
    MaxRequests = 3
    MaxEvents = 1
SPECIFICATION Spec
SYMMETRY Symmetry
CHECK_DEADLOCK FALSE
INVARIANTS StaysSignedIn DestroyedStayDead FlashedForOneRequest XsrfOfItsSession
