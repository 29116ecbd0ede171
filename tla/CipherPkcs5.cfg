SPECIFICATION Spec
CONSTANTS
    Datas <- EightBytes
    Keys <- OneKey
    Junk <- SomeJunk
INVARIANT
    PaddingIsPkcs5
\* the caller is done when decrypt has returned
CHECK_DEADLOCK FALSE
