SPECIFICATION Spec
CONSTANTS
    None = None
    s1 = s1
    s2 = s2
    agreeing = agreeing
    partial = partial
    contrary = contrary
    sharing = sharing
    Sessions = {s1, s2}
    MaxRun = 4
    MaxRevision = 3
    Window <- MCWindow
    Change <- MCChange
    Assessed <- MCAssessed
    Others <- MCOthers
    Agrees = {agreeing, partial}
    Qualified <- MCOthers
    Independence <- MCIndependence
    Temporal <- MCTemporal
    Contracts = {"INDEPENDENT_CORROBORATION", "SHARED_CORROBORATION"}
CONSTRAINT Explored
SYMMETRY Symmetry
INVARIANT HypothesesReadBack StoriesAreWarranted 
