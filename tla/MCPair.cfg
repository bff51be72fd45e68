SPECIFICATION PairSpec
CONSTANT Half = 64
INVARIANT ClosureSurvives
PROPERTY Ends
CHECK_DEADLOCK FALSE
