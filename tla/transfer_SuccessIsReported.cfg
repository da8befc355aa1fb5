SPECIFICATION Spec
CONSTANT MaxRefers = 1
INVARIANT SuccessIsReported
CHECK_DEADLOCK FALSE
