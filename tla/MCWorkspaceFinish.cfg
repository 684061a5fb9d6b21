SPECIFICATION FairSpec
CONSTANTS
    None = None
    Handlers = {h1, h2}
    Keys = {"k1", "k2", "k3"}
    Engagements = {"e1"}
    Requests = {"q1"}
    Ids = {"i1", "i2"}
    Blobs = {"b1"}
    Versions = {"v1"}
    Scopes = {"s1"}
    Registered <- MCRegistered
    Calls <- MCCalls
PROPERTIES
    HandlersFinish
