SPECIFICATION Spec
CONSTANTS
  w1 = w1
  w2 = w2
  s1 = s1
  s2 = s2
  adviser = adviser
  big = big
  partial = partial
  small = small
  None = None
  Writers <- MCWriters
  Signals <- MCSignals
  Contexts <- MCContexts
  Snapshots <- MCSnapshots
  Refused <- MCRefused
  Limited <- MCLimited
  Significant <- MCSignificant
  Started <- MCStarted
  Period <- MCPeriod
  LastVersion = 3
  MaxRevision = 3
SYMMETRY WriterSymmetry
CONSTRAINT Explored
INVARIANTS
  EnvelopesAgree
  SupersessionIsChain
  FactsAreLinked
  FindingsAreGrounded
PROPERTIES
  DocumentsOnlyEvolve
  ImplementsRegister
