CONSTANTS
    thread_count = 3
    Inputs <- MCInputs
SPECIFICATION FairSpec
CHECK_DEADLOCK FALSE
INVARIANT SameAsOneThread
INVARIANT AgainMeansHungry
INVARIANT HwaccelIsExclusive
PROPERTY CallsReturn
