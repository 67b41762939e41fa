SPECIFICATION FairSpec
CONSTANTS
    Configs = {c1, c2, c3}
    FirstConfig = c1
    NoConfig = none
INVARIANTS AppliedIsTrue
PROPERTIES AnswerIsDurable Converges
