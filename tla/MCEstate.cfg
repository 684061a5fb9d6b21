SPECIFICATION EstateSpec
CONSTANTS
    Clients <- MCClients
    Level1Rules <- MCLevel1Rules
    AgendaRuns = {1, 2}
    SignalsOf <- MCSignalsOf
    CapacityRefused = {2}
    ContextEvents <- MCContextEvents
    MaxItems = 2
    MinItems = 1
    c1 = c1
    c3 = c3
    m1 = m1
    Candidates = {c1, c3}
    CandidateRun <- MCCandidateRun
    BucketOf <- MCBucketOf
    Ceiling <- MCCeiling
    Mechanisms = {m1}
    Amounts = {1, 2}
    RelationTypes = {"OVERLAPPING", "CASH_MANIFESTATION"}
    EnvelopeKeys = {"k"}
    MaxOpportunities = 3
    MaxRelations = 2
    o1 = o1
    Supported = {o1}
    SupportedRun <- MCSupportedRun
    NetAmounts = {2, 3}
    ProgressStates = {"COMPLETED", "CANCELLED"}
    Attributions = {"DIRECTLY_ATTRIBUTABLE", "UNCERTAIN"}
    Retentions = {"RETAINED", "TOO_EARLY"}
    BenefitTypes = {"OVERLAPPING", "CASH_MANIFESTATION"}
    MaxActions = 1
    MaxLegs = 2
    MaxAssessments = 2
    MaxRelated = 2
    i1 = i1
    k1 = k1
    k2 = k2
    p1 = p1
    p2 = p2
    b1 = b1
    b2 = b2
    b3 = b3
    AnalysisRuns = {1, 2, 3}
    MaxReopened = 2
    Issues = {i1}
    OpportunityKeys = {k1, k2}
    Tracked = {p1, p2}
    Estimate <- MCEstimate
    BenefitLegs = {b1, b2, b3}
    Claimable <- MCClaimable
    ReadAsReal <- MCReadAsReal
    Drift = 1
    Sources = {"s", "t"}
    Contents = {1, 2}
    Baselines = {"b"}
    BaselineAmounts = {0, 1, 5}
    MaxRevisions = 3
    MaxClassified = 2
    MaxRestatements = 2
INVARIANTS
    RunIsComplete
    AdviceIsTraceable
    MoneyCountsOnce
    BenefitsAreEarned
    RegistersReadBack
CHECK_DEADLOCK FALSE
