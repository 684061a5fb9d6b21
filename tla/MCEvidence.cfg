SPECIFICATION KindsSpec
CONSTANTS
    a1 = a1
    b1 = b1
    e1 = e1
    z = z
    da = da
    db = db
    de = de
    dc = dc
    Packages = {a1,b1,e1}
    Package <- MCPackage
    ZeroProofs = {z}
    ZeroProof <- MCZeroProof
    Definitions = {da,db,dc,de}
    Definition <- MCDefinition
    Readers = {1,2}
    MaxWithdrawn = 1
    MaxRows = 2
    r1 = r1
    r2 = r2
    r3 = r3
    g1 = g1
    g2 = g2
    pa = pa
    pd = pd
    g3 = g3
    pb = pb
    pc = pc
    ma = ma
    mb = mb
    Months = {r1,r2,r3,g1,g2,g3}
    Month <- MCMonth
    Mappings = {ma,mb}
    MappingFrom <- MCMappingFrom
    Proofs = {pa,pb,pc,pd}
    Proof <- MCProof
    MaxDoubted = 1
    l1 = l1
    l2 = l2
    p1 = p1
    s1 = s1
    f1 = f1
    Slots = {l1,l2,p1,s1,f1}
    Slot <- MCSlot
    Values = {1,2}
    Runs = {"R1","R2"}
    MaxContexts = 2
    MaxBindings = 4
    X = X
    Y = Y
    Z = Z
    Packs = {X,Y,Z}
    Pack <- MCPack
    BridgeRuns = {"R1","R2"}
    MaxRegistered = 5
    MaxBridges = 2
    t1 = t1
    t2 = t2
    t3 = t3
    v1 = v1
    v2 = v2
    v3 = v3
    x1 = x1
    x2 = x2
    q1 = q1
    A = A
    A0 = A0
    B = B
    B0 = B0
    C = C
    G = G
    H = H
    u1 = u1
    u2 = u2
    Origins = {t1,t2,t3,v1,v2,v3,x1,x2,q1}
    Origin <- MCOrigin
    Objects = {A,A0,B,B0,C,G,H}
    Object <- MCObject
    Asked <- MCAsked
    Recorders = {u1,u2}
    GraphRuns = {"R1","R2"}
    MinObservations = 2
    MaxEvents = 2
    MaxRevision = 2
SYMMETRY RecorderSymmetry
INVARIANTS
    EvidenceIsWarranted
    MonthIsWarranted
    ContextsAreFaithful
    BridgesAreSound
    RelationsAreFaithful
CHECK_DEADLOCK FALSE
