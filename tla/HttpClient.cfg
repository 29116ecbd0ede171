SPECIFICATION FairSpec
CONSTANTS
    Click = {c1, c2}
    Txn = {t1}
    Pages <- SomePages
    Portal <- PortalTitle
    ToastLimit = 1
INVARIANTS
    TypeOK
    ToastIsOwn
    ToastOnce
    TitleIsElement
PROPERTIES
    EveryClickAsks
    EveryAnswerIsShown
    ImplementsToastQueue
\* every click may have ended
CHECK_DEADLOCK FALSE
