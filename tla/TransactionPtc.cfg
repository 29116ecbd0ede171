SPECIFICATION Spec
CONSTANTS
    Txn = {t1}
    Trds <- GoodTrds
    Pins = {empty, secret}
    EmptyPin = empty
    SecretPin = secret
    Garbage = garbage
    NoPad = NoPad
    Tries = 3
    MaxRecreations = 0
    SpuriousWakeups = FALSE
    HeapReuse = FALSE
INVARIANT
    PtcIsAttemptNumber
\* every transaction may have ended, or the process may have died
CHECK_DEADLOCK FALSE
