SPECIFICATION Spec
CONSTANTS
    None = None
    Handlers = {h1, h2}
    Keys = {"k1", "k2", "k3", "k4", "k5", "k6", "k7", "k8"}
    Engagements = {"e1", "e2"}
    Requests = {"q1"}
    Ids = {"i1", "i2"}
    Blobs = {"b1", "b2"}
    Versions = {"v1"}
    Scopes = {"s1", "s2"}
    Registered <- MCRegistered
    Calls <- MCCalls
SYMMETRY Symmetric
CONSTRAINT OneSet
INVARIANTS
    AuditIsLedger
    AnswersAreAudited
    RevisionsChain
    ScopeFixed
    ReceiptsStored
    RequestHistoryLegal
    EvidenceOwned
PROPERTIES
    ImplementsLedger
