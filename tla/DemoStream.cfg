\* Every max_tokens up to one word past the longest answer.
SPECIFICATION DemoSpec
CONSTANTS
    TemplateWords = 12
    MaxPreview = 2
    MaxTokens = 15
INVARIANT
    BilledAsSent
PROPERTY
    DemoAdapterSpec
\* A stream comes to its end.
CHECK_DEADLOCK FALSE
