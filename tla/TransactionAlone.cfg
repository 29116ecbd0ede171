SPECIFICATION FairSpec
CONSTANTS
    Txn = {t1}
    Trds <- AllTrds
    Pins = {empty, secret, wrong}
    EmptyPin = empty
    SecretPin = secret
    Garbage = garbage
    NoPad = NoPad
    Tries = 3
    MaxRecreations = 1
    SpuriousWakeups = FALSE
    HeapReuse = FALSE
INVARIANTS
    TypeOK
    AnswersAreOwn
    HintIsTrue
    AmountIsRead
PROPERTIES
    EveryTransactionReports
\* every transaction may have ended, or the process may have died
CHECK_DEADLOCK FALSE
