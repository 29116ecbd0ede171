SPECIFICATION FairLifeSpec
CONSTANTS
    Txn = {t1, t2}
    Trds <- SomeTrds
    Pins = {empty, secret}
    EmptyPin = empty
    SecretPin = secret
    Garbage = garbage
    NoPad = NoPad
    Tries = 1
    MaxRecreations = 2
    SpuriousWakeups = FALSE
    HeapReuse = FALSE
    MaxBoot = 1
    MaxSeeds = 2
    ReseedInterval = 2
INVARIANTS
    LifeTypeOK
    NoPinOutlivesProcess
    NoStrandedPadShown
    CrashHasCause
    LayoutsDiffer
    WaitIsJustified
PROPERTIES
    MainComesBack
    TurnsKeepAnswers
\* every transaction may have ended, or the bounds are reached
CHECK_DEADLOCK FALSE
