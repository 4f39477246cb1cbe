CONSTANTS
    Answers <- MCAnswers
    LineNums = {0, 2}
    BufSize = 3
    MaxSent = 3
    MaxUrc = 1
SPECIFICATION Spec
INVARIANT SuccessIsAnswered
CHECK_DEADLOCK FALSE
