SPECIFICATION Spec
CONSTANTS
    Key <- MCKey
    Value <- MCValue
    ValueLen <- MCValueLen
    MaxVersions = 2
INVARIANTS
    ReadsWhatWasPut
    RootCanonical
    ExactCounts
