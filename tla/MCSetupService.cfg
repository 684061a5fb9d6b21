SPECIFICATION Spec
CONSTANTS
    None = None
    Handlers = {h1, h2}
    Keys = {"k1", "k2", "k3", "k4", "k5", "k6", "k7"}
    Drafts = {"d1", "d2"}
    Fields = {"partial", "full", "other"}
    Scoped = {"full", "other"}
    Reviews = {"e1", "e2"}
    Calls <- MCCalls
SYMMETRY Symmetric
INVARIANTS
    EveryRevisionReadable
    ReviewsBelongToDrafts
    SavesApplyOnce
PROPERTIES
    ImplementsLifecycle
