SPECIFICATION Spec
CONSTANTS
    Datas <- Example
    Keys <- OneKey
    Junk <- SomeJunk
INVARIANT
    ExampleDecrypts
\* the caller is done when decrypt has returned
CHECK_DEADLOCK FALSE
