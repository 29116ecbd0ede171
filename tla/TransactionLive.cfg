SPECIFICATION FairSpec
CONSTANTS
    Txn = {t1, t2}
    Trds <- GoodTrds
    Pins = {empty, secret}
    EmptyPin = empty
    SecretPin = secret
    Garbage = garbage
    NoPad = NoPad
    Tries = 2
    MaxRecreations = 0
    SpuriousWakeups = FALSE
    HeapReuse = FALSE
PROPERTIES
    EveryTransactionReports
    UiThreadReturns
    TurnsKeepAnswers
\* every transaction may have ended, or the process may have died
CHECK_DEADLOCK FALSE
