SPECIFICATION Spec
CONSTANTS
    MaxKeys = 3
    PinSize = 2
    Rnd <- SignedBytes
    NoResult = NoResult
    MaxPresses = 3
INVARIANTS
    TypeOK
    EveryDigitOnOneKey
    PinIsTyped
    StarsShowPin
PROPERTY
    ImplementsPadWindow
\* a window that was left stays closed
CHECK_DEADLOCK FALSE
