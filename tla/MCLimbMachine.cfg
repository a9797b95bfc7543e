SPECIFICATION Spec
CONSTANTS
    W10 = 8
    T10 = 5
    C10a = 33
    C10b = 2
    Mul10 = 3
    Acc10 = 26
    Q10 <- Fe10Factors
    W5 = 11
    T5 = 10
    C5 = 9
    Mul5 = 3
    Acc5 = 30
    Q5 <- Fe5Factors
    W4 = 12
    NC4 <- Order4
    Q4 <- Order4Factors
    W8 = 8
    NC8 <- Order8
    Q8 <- Order8Factors
    MaxMag = 8
    MaxSteps = 3
    Byte = 7
INVARIANTS
    VerifyChecksHold
    ValueKept
    Canonical
    QuestionsExact
    ShiftedProductRounds
CHECK_DEADLOCK FALSE
