CONSTANTS
    Answers <- MCAnswers
    LineNums = {0, 2}
    BufSize = 3
    MaxSent = 2
    MaxUrc = 1
SPECIFICATION FairSpec
INVARIANTS
    TypeOK
    AtMostOneStaleNotice
    OwnAnswer
    ErrorHasCause
PROPERTIES
    CallReturns
\* After MaxSent commands no call begins any more.
CHECK_DEADLOCK FALSE
