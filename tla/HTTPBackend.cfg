\* Every response of up to six lines, and every list of up to four vectors.
SPECIFICATION Spec
CONSTANTS
    MaxLines = 6
    MaxTexts = 3
INVARIANTS
    PassesOnWholeEvents
    EndsWhereUpstreamEnds
    VectorsInInputOrder
PROPERTY
    AdapterSpec
\* A call comes to its end.
CHECK_DEADLOCK FALSE
