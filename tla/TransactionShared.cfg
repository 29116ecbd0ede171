SPECIFICATION Spec
CONSTANTS
    Txn = {t1, t2}
    Trds <- GoodTrds
    Pins = {empty, secret}
    EmptyPin = empty
    SecretPin = secret
    Garbage = garbage
    NoPad = NoPad
    Tries = 2
    MaxRecreations = 0
    SpuriousWakeups = TRUE
    HeapReuse = FALSE
SYMMETRY Symmetry
INVARIANTS
    VerdictFollowsAnswers
    WaitIsJustified
    AnswerChargedOnce
PROPERTY
    ImplementsPinVerification
\* every transaction may have ended, or the process may have died
CHECK_DEADLOCK FALSE
