CONSTANTS
    Requests = {r1, r2}
    Traffic = {{"page", "discovery"}, {"page", "bearer", "cookie", "signout"}}
    Override = FALSE
    IssuerCheckTTL = 2
    ProbeTimeout = 1
    ClientTimeout = 2
    SessionTTL = 2
    MaxTime = 6
    MaxChanges = 1
SPECIFICATION Spec
INVARIANTS TypeOK VerdictFresh RevokedGroupLosesAccess
PROPERTIES VerdictRegressBound
SYMMETRY RequestSymmetry
