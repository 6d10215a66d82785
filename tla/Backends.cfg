CONSTANT
    Tests <- const_Tests
SPECIFICATION Spec
INVARIANTS
    SameState
    SameAccesses
    AccessTimes
    DecimalArithmetic
    WideArithmetic
    StackRoundTrip
    InterruptReturns
    OneMemory
CHECK_DEADLOCK FALSE
