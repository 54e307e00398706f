\* What the tests say of malformed completions, against what the code does.
SPECIFICATION Spec
CONSTANTS
    MaxLines = 0
    MaxTexts = 1
INVARIANT
    MalformedIsUnavailable
\* A call comes to its end.
CHECK_DEADLOCK FALSE
