CONSTANTS
    i1 = i1  u1 = u1  u2 = u2  a1 = a1  a2 = a2  a3 = a3
    c1 = c1  s1 = s1  h1 = h1  h2 = h2
    None = None
    Integrators <- MCIntegrators
    Users       <- MCUsers
    Adapters    <- MCAdapters
    Chains      <- MCChains
    Senders     <- MCSenders
    InSeqs      <- MCInSeqs
    Payloads    <- MCPayloads
    MaxAdapters = 2
    MaxSeq      = 2
SPECIFICATION Spec
INVARIANTS
    TypeOK
    RegistryConsistent
    RetriesRejected
    OutboxAccounting
    DeliveredAtMostOnce
PROPERTIES
    LedgerMonotonic
    AdminRefinement
\* A program with no pending work accepts no instruction: terminal states are legitimate.
CHECK_DEADLOCK FALSE
