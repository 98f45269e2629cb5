\* Content-addressed keys, concurrent gets and inserts, failing store writes,
\* lost tiers.
CONSTANTS
    c1 = c1  c2 = c2  k1 = k1  k2 = k2  v1 = v1  v2 = v2
    Absent = Absent
    Callers <- MCCallers
    Keys <- MCKeys
    Values <- MCValues
    ValueOf <- ContentAddressed
    MaxInserts = 2
    MaxReplacements = 1
    StoreFailures = TRUE
SPECIFICATION Spec
\* Every caller idle with the insert budget spent is a resting state.
CHECK_DEADLOCK FALSE
INVARIANT TypeOK
INVARIANT ReadYourWrites
