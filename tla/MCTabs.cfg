SPECIFICATION TabsSpec
CONSTANTS
    None = None
    Handlers = {h1, h2}
    Bindings = {b1, b2, b3}
    IDLE = 2
    ABSOLUTE = 4
    MaxClock = 6
    Nothing = Nothing
    Payloads = {p1, p2}
    MaxSends = 4
    MaxSessions = 3
SYMMETRY Symmetric
INVARIANTS
    LimitsAreOwn
    CsrfNeverCrosses
    UploadsAreSound
PROPERTIES
    NoRevival
    OnlyOwnSignOut
