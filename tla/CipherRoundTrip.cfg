SPECIFICATION Spec
CONSTANTS
    Datas <- ShortDatas
    Keys <- SomeKeys
    Junk <- SomeJunk
INVARIANTS
    TypeOK
    RoundTrips
\* the caller is done when decrypt has returned
CHECK_DEADLOCK FALSE
