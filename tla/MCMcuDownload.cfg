CONSTANTS
    Methods <- MCMethods
    kMaxPolls = 2

SPECIFICATION FairDownloadSpec

INVARIANTS
    HooksAimed
    MacHooksAimed
    TrustedIsComplete
    OneRevision

PROPERTIES
    HeldForPatch
    PassEnds
